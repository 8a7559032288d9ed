------------------------------- MODULE Loyalty -------------------------------
(***************************************************************************)
(* Loyalty points of one business and the referral points of the platform: *)
(* completed visits earn points and qualify referrals, refunds reverse     *)
(* them, customers redeem a reward, managers adjust balances, and a sweep  *)
(* expires what was earned too long ago.                                   *)
(*                                                                         *)
(* Every credit and debit is one transaction that locks the account row,   *)
(* adds a line to loyalty_transactions and writes the new balance.  The    *)
(* sweep alone works on an account it read without the lock.  Events       *)
(* arrive as queued jobs: a worker may die between two transactions of a   *)
(* job, which is then run again from its start until its tries are used.   *)
(***************************************************************************)
EXTENDS Integers, Sequences, FiniteSets, Sums

CONSTANTS
    Customers,
    Reservations,
    Guest,         \* Guest[r]: who the reservation is for
    Amount,        \* Amount[r]: reservations.total_amount
    Paid,          \* Paid[r]: payments.amount of its payment, 0 without one
    Program,       \* [earnAmount, earnRate, flat, minimum, maximum]
    Referrer,      \* Referrer[c]: who referred c, or Nobody
    Nobody,
    ReferrerPoints, ReferredPoints,   \* config rezera.referral
    Managers,
    Adjustments,   \* what a manager may grant or take
    MaxGranted,    \* bound: MaxGranted[c] adjustments of c are answered
    Cost, Bonus,   \* points_cost and, of a bonus reward, value
    Stock, PerUser,  \* stock and max_redemptions_per_user of the reward
    Sweeps,        \* runs of expireDuePoints that may overlap
    Tries,         \* queue:work --tries
    MaxDeaths      \* bound: workers that die

ASSUME PeopleAssumption ==
    /\ IsFiniteSet(Customers)
    /\ Guest \in [Reservations -> Customers]
    /\ Nobody \notin Customers
    /\ Referrer \in [Customers -> Customers \cup {Nobody}]
    /\ \A c \in Customers : Referrer[c] # c
ASSUME AmountsAssumption ==
    /\ Amount \in [Reservations -> Nat] /\ Paid \in [Reservations -> Nat]
    /\ Program \in [earnAmount : Nat \ {0}, earnRate : Nat, flat : Nat,
                    minimum : Nat, maximum : Nat]
    /\ Adjustments \subseteq Int \ {0} /\ MaxGranted \in [Customers -> Nat]
    /\ ReferrerPoints \in Nat \ {0} /\ ReferredPoints \in Nat \ {0}
ASSUME RewardAssumption ==
    Cost \in Nat \ {0} /\ Bonus \in Nat /\ Stock \in Nat /\ PerUser \in Nat
ASSUME TriesAssumption == Tries \in Nat \ {0} /\ MaxDeaths \in Nat

VARIABLES
    visit,      \* visit[r]: "open", then "completed"
    job,        \* job[r]: the listener of its completion, [at, left]
    refund,     \* refund[r]: the listener of its refund, [at, left]
    deaths,     \* workers that died
    books,      \* books[a]: [lines, balance, earned, redeemed] of account a
    lapsed,     \* reservations whose earned points have passed expires_at
    stock,      \* what is left of the reward
    redeemed,   \* redeemed[c]: redemptions of c
    granted,    \* granted[c]: adjustments of c answered with success
    referral,   \* referral[c]: status of the referral of c
    sweep       \* sweep[s]: [due, on, held]

jobVars == <<visit, job, refund, deaths>>
rewardVars == <<stock, redeemed, granted>>
loyaltyVars == <<jobVars, books, lapsed, rewardVars, referral, sweep>>

\* An account belongs to the business or, for referrals, to the platform.
Accounts == {"business", "platform"} \X Customers
BusinessAccount(c) == <<"business", c>>
PlatformAccount(c) == <<"platform", c>>

(***************************************************************************)
(* Arithmetic of the points.                                               *)
(***************************************************************************)
AtMost(a, b) == IF a < b THEN a ELSE b

\* LoyaltyPointsCalculator::calculate.
Points(amount) ==
    IF amount < Program.minimum
    THEN 0
    ELSE AtMost((amount \div Program.earnAmount) * Program.earnRate + Program.flat,
                Program.maximum)

\* LoyaltyPointsCalculator::proportionalReversal.  The quotient is a float, so
\* that a whole number of points may come out one lower.
Reversals(earned, amount, back) ==
    LET exact == (earned * back) \div amount IN
    IF earned = 0 \/ amount = 0 \/ back = 0 THEN {0}
    ELSE IF back >= amount THEN {earned}
    ELSE IF (earned * back) % amount = 0 THEN {exact, exact - 1} ELSE {exact}

(***************************************************************************)
(* The books: one line and the balance, written together.                  *)
(***************************************************************************)
LineTypes == {"earned", "reversed", "redeemed", "bonus", "adjusted", "expired", "referral"}
Sources == Reservations \cup Customers \cup Managers \cup Nat

\* The unique index on account, source and type.
Listed(bk, a, type, source) ==
    \E i \in DOMAIN bk[a].lines : bk[a].lines[i].type = type /\ bk[a].lines[i].source = source

\* Variant: the line is added and the account is not updated.
WrittenLineOnly(bk, a, type, source, points, base) ==
    [bk EXCEPT ![a].lines = Append(@, [type |-> type, source |-> source,
                                       points |-> points, after |-> base + points])]

\* A line of points on top of base, the balance the writer believes in.
Written(bk, a, type, source, points, base) ==
    [bk EXCEPT ![a] =
        [lines |-> Append(@.lines, [type |-> type, source |-> source,
                                    points |-> points, after |-> base + points]),
         balance |-> base + points,
         earned |-> IF points > 0 THEN @.earned + points ELSE @.earned,
         redeemed |-> IF type = "redeemed" THEN @.redeemed - points ELSE @.redeemed]]

\* Variant: the index is not there.
PostedAgain(bk, a, type, source, points) ==
    Written(bk, a, type, source, points, bk[a].balance)

\* creditPoints and the rest of debitPoints: a line that is already there is
\* answered with, and nothing is written.
Posted(bk, a, type, source, points) ==
    IF Listed(bk, a, type, source) THEN bk
    ELSE Written(bk, a, type, source, points, bk[a].balance)

IdleSweep == [due |-> {}, on |-> Nobody, held |-> 0]
EmptyBook == [lines |-> <<>>, balance |-> 0, earned |-> 0, redeemed |-> 0]
LoyaltyInit ==
    /\ visit = [r \in Reservations |-> "open"]
    /\ job = [r \in Reservations |-> [at |-> "none", left |-> Tries]]
    /\ refund = [r \in Reservations |-> [at |-> "none", left |-> Tries]]
    /\ deaths = 0
    /\ books = [a \in Accounts |-> EmptyBook]
    /\ lapsed = {}
    /\ stock = Stock
    /\ redeemed = [c \in Customers |-> 0]
    /\ granted = [c \in Customers |-> 0]
    /\ referral = [c \in Customers |-> IF Referrer[c] = Nobody THEN "none" ELSE "registered"]
    /\ sweep = [s \in Sweeps |-> IdleSweep]

(***************************************************************************)
(* The events and their queued listeners.                                  *)
(***************************************************************************)
\* The visit ends; its event is queued after the commit.
Complete(r) ==
    /\ visit[r] = "open"
    /\ visit' = [visit EXCEPT ![r] = "completed"]
    /\ job' = [job EXCEPT ![r].at = "earn"]
    /\ UNCHANGED <<refund, deaths, books, lapsed, rewardVars, referral, sweep>>

\* The provider reports the payment of r, if there is one, as refunded: before
\* or after the visit.
Refund(r) ==
    /\ refund[r].at = "none" /\ Paid[r] > 0
    /\ refund' = [refund EXCEPT ![r].at = "reverse"]
    /\ UNCHANGED <<visit, job, deaths, books, lapsed, rewardVars, referral, sweep>>

\* A run that failed or died is tried again while tries are left.
Retried(j, start) ==
    IF j.left = 1 THEN [at |-> "failed", left |-> 0] ELSE [at |-> start, left |-> j.left - 1]

\* earnFromReservation.
Earn(r) ==
    /\ job[r].at = "earn"
    /\ job' = [job EXCEPT ![r].at = "look"]
    /\ books' = IF Points(Amount[r]) = 0 THEN books
                ELSE Posted(books, BusinessAccount(Guest[r]), "earned", r, Points(Amount[r]))
    /\ UNCHANGED <<visit, refund, deaths, lapsed, rewardVars, referral, sweep>>

\* Variant: a reservation that is still open counts as an earlier visit.
LookAtAnyReservation(r) ==
    /\ job[r].at = "look"
    /\ job' = [job EXCEPT ![r].at =
                  IF /\ referral[Guest[r]] = "registered"
                     /\ \A q \in Reservations \ {r} : Guest[q] # Guest[r]
                  THEN "qualify" ELSE "ack"]
    /\ UNCHANGED <<visit, refund, deaths, books, lapsed, rewardVars, referral, sweep>>

\* qualifyFromReservation up to its transaction: is this the first visit?
Look(r) ==
    /\ job[r].at = "look"
    /\ job' = [job EXCEPT ![r].at =
                  IF /\ referral[Guest[r]] = "registered"
                     /\ \A q \in Reservations \ {r} :
                            ~(Guest[q] = Guest[r] /\ visit[q] = "completed")
                  THEN "qualify" ELSE "ack"]
    /\ UNCHANGED <<visit, refund, deaths, books, lapsed, rewardVars, referral, sweep>>

\* The transaction that qualifies the referral.
Qualify(r) ==
    LET c == Guest[r] IN
    /\ job[r].at = "qualify"
    /\ referral' = IF referral[c] = "registered" THEN [referral EXCEPT ![c] = "qualified"]
                   ELSE referral
    /\ job' = [job EXCEPT ![r].at = IF referral'[c] = "qualified" THEN "award" ELSE "ack"]
    /\ UNCHANGED <<visit, refund, deaths, books, lapsed, rewardVars, sweep>>

\* Variant: the referral is marked as rewarded and only the referrer is paid.
AwardReferrerOnly(r) ==
    LET c == Guest[r] IN
    /\ job[r].at = "award"
    /\ job' = [job EXCEPT ![r].at = "ack"]
    /\ referral' = [referral EXCEPT ![c] = "rewarded"]
    /\ books' = Posted(books, PlatformAccount(Referrer[c]), "referral", c, ReferrerPoints)
    /\ UNCHANGED <<visit, refund, deaths, lapsed, rewardVars, sweep>>

\* awardReferralRewards: both sides and the status in one transaction.
Award(r) ==
    LET c == Guest[r] IN
    /\ job[r].at = "award"
    /\ job' = [job EXCEPT ![r].at = "ack"]
    /\ IF referral[c] = "qualified"
       THEN /\ referral' = [referral EXCEPT ![c] = "rewarded"]
            /\ books' = Posted(Posted(books, PlatformAccount(Referrer[c]), "referral", c,
                                      ReferrerPoints),
                               PlatformAccount(c), "referral", c, ReferredPoints)
       ELSE UNCHANGED <<referral, books>>
    /\ UNCHANGED <<visit, refund, deaths, lapsed, rewardVars, sweep>>

\* Variant: the debit does not ask whether the balance covers it.
ReverseUnchecked(r) ==
    LET a == BusinessAccount(Guest[r]) IN
    /\ refund[r].at = "reverse"
    /\ refund' = [refund EXCEPT ![r].at = "ack"]
    /\ \E points \in Reversals(Points(Amount[r]), Amount[r], Paid[r]) :
          books' = IF points = 0 \/ ~Listed(books, a, "earned", r) THEN books
                   ELSE Posted(books, a, "reversed", r, -points)
    /\ UNCHANGED <<visit, job, deaths, lapsed, rewardVars, referral, sweep>>

\* reverseFromRefund: nothing to do before the points were earned; a balance
\* that does not cover the reversal fails the run.
Reverse(r) ==
    LET a == BusinessAccount(Guest[r])
        Ends == refund' = [refund EXCEPT ![r].at = "ack"] IN
    /\ refund[r].at = "reverse"
    /\ IF ~Listed(books, a, "earned", r)
       THEN Ends /\ UNCHANGED books
       ELSE \E points \in Reversals(Points(Amount[r]), Amount[r], Paid[r]) :
              \/ points = 0 /\ Ends /\ UNCHANGED books
              \/ /\ points > books[a].balance
                 /\ refund' = [refund EXCEPT ![r] = Retried(@, "reverse")] /\ UNCHANGED books
              \/ /\ points > 0 /\ points <= books[a].balance
                 /\ Ends /\ books' = Posted(books, a, "reversed", r, -points)
    /\ UNCHANGED <<visit, job, deaths, lapsed, rewardVars, referral, sweep>>

\* The worker deletes the jobs it has finished.
Acknowledge(r) ==
    /\ \/ /\ job[r].at = "ack"
          /\ job' = [job EXCEPT ![r].at = "done"] /\ UNCHANGED refund
       \/ /\ refund[r].at = "ack"
          /\ refund' = [refund EXCEPT ![r].at = "done"] /\ UNCHANGED job
    /\ UNCHANGED <<visit, deaths, books, lapsed, rewardVars, referral, sweep>>

\* The worker dies; whatever it committed stays.
WorkerDies(r) ==
    /\ deaths < MaxDeaths /\ deaths' = deaths + 1
    /\ \/ /\ job[r].at \in {"earn", "look", "qualify", "award", "ack"}
          /\ job' = [job EXCEPT ![r] = Retried(@, "earn")] /\ UNCHANGED refund
       \/ /\ refund[r].at \in {"reverse", "ack"}
          /\ refund' = [refund EXCEPT ![r] = Retried(@, "reverse")] /\ UNCHANGED job
    /\ UNCHANGED <<visit, books, lapsed, rewardVars, referral, sweep>>

(***************************************************************************)
(* Rewards and adjustments.                                                *)
(***************************************************************************)
\* Variant: the limit of a customer is not asked for.
RedeemAgain(c) ==
    LET a == BusinessAccount(c)
        id == Stock - stock
        spent == Posted(books, a, "redeemed", id, -Cost) IN
    /\ stock > 0 /\ books[a].balance >= Cost
    /\ books' = IF Bonus = 0 THEN spent ELSE Posted(spent, a, "bonus", id, Bonus)
    /\ stock' = stock - 1
    /\ redeemed' = [redeemed EXCEPT ![c] = @ + 1]
    /\ UNCHANGED <<jobVars, lapsed, granted, referral, sweep>>

\* redeemReward: the reward and the account are locked together.
Redeem(c) ==
    LET a == BusinessAccount(c)
        id == Stock - stock
        spent == Posted(books, a, "redeemed", id, -Cost) IN
    /\ stock > 0 /\ redeemed[c] < PerUser /\ books[a].balance >= Cost
    /\ books' = IF Bonus = 0 THEN spent ELSE Posted(spent, a, "bonus", id, Bonus)
    /\ stock' = stock - 1
    /\ redeemed' = [redeemed EXCEPT ![c] = @ + 1]
    /\ UNCHANGED <<jobVars, lapsed, granted, referral, sweep>>

\* adjustPoints: the manager is the source of the line, and success is
\* answered for a line that was there before as well.
Adjust(m, c, points) ==
    LET a == BusinessAccount(c) IN
    /\ granted[c] < MaxGranted[c]
    /\ points < 0 => books[a].balance >= -points
    /\ books' = Posted(books, a, "adjusted", m, points)
    /\ granted' = [granted EXCEPT ![c] = @ + 1]
    /\ UNCHANGED <<jobVars, lapsed, stock, redeemed, referral, sweep>>

(***************************************************************************)
(* expireDuePoints.                                                        *)
(***************************************************************************)
\* The points earned with r pass their expires_at.
Lapse(r) ==
    /\ Listed(books, BusinessAccount(Guest[r]), "earned", r)
    /\ lapsed' = lapsed \cup {r}
    /\ UNCHANGED <<jobVars, books, rewardVars, referral, sweep>>

\* One query lists everything that is due.
SweepList(s) ==
    /\ sweep[s].due = {} /\ lapsed # {}
    /\ sweep' = [sweep EXCEPT ![s] = [IdleSweep EXCEPT !.due = lapsed]]
    /\ UNCHANGED <<jobVars, books, lapsed, rewardVars, referral>>

\* The next account of the list is read, without a lock.
SweepAccount(s) ==
    /\ \A r \in sweep[s].due : Guest[r] # sweep[s].on
    /\ \E r \in sweep[s].due :
          sweep' = [sweep EXCEPT ![s] =
                       [due |-> @.due, on |-> Guest[r],
                        held |-> books[BusinessAccount(Guest[r])].balance]]
    /\ UNCHANGED <<jobVars, books, lapsed, rewardVars, referral>>

\* Its lines one after the other, each on the balance held since.
SweepLine(s, r) ==
    LET a == BusinessAccount(Guest[r])
        points == IF Listed(books, a, "expired", r) THEN 0
                  ELSE AtMost(Points(Amount[r]), sweep[s].held) IN
    /\ r \in sweep[s].due /\ Guest[r] = sweep[s].on
    /\ books' = IF points = 0 THEN books
                ELSE Written(books, a, "expired", r, -points, sweep[s].held)
    /\ sweep' = [sweep EXCEPT ![s] =
                    IF @.due = {r} THEN IdleSweep
                    ELSE [due |-> @.due \ {r}, on |-> @.on, held |-> @.held - points]]
    /\ UNCHANGED <<jobVars, lapsed, rewardVars, referral>>

(***************************************************************************)
(* Specification: queue workers keep running the jobs.                     *)
(***************************************************************************)
Listen(r) == Earn(r) \/ Look(r) \/ Qualify(r) \/ Award(r) \/ Reverse(r) \/ Acknowledge(r)

LoyaltyNext ==
    \/ \E r \in Reservations :
          Complete(r) \/ Refund(r) \/ Listen(r) \/ WorkerDies(r) \/ Lapse(r)
    \/ \E c \in Customers :
          Redeem(c) \/ \E m \in Managers, points \in Adjustments : Adjust(m, c, points)
    \/ \E s \in Sweeps :
          SweepList(s) \/ SweepAccount(s) \/ \E r \in Reservations : SweepLine(s, r)

LoyaltySpec == LoyaltyInit /\ [][LoyaltyNext]_loyaltyVars
LoyaltyFairSpec == LoyaltySpec /\ \A r \in Reservations : WF_loyaltyVars(Listen(r))

(***************************************************************************)
(* Properties.                                                             *)
(***************************************************************************)
Line == [type : LineTypes, source : Sources, points : Int, after : Int]
Book == [lines : Seq(Line), balance : Int, earned : Nat, redeemed : Nat]
JobState == [at : {"none", "earn", "look", "qualify", "award", "ack", "done", "failed"},
             left : 0..Tries]

\* The type invariant.  It includes that a stored count is never negative.
LoyaltyTypeOK ==
    /\ visit \in [Reservations -> {"open", "completed"}]
    /\ job \in [Reservations -> JobState]
    /\ refund \in [Reservations -> [at : {"none", "reverse", "ack", "done", "failed"},
                                    left : 0..Tries]]
    /\ deaths \in 0..MaxDeaths
    /\ books \in [Accounts -> Book]
    /\ lapsed \subseteq Reservations
    /\ stock \in 0..Stock
    /\ redeemed \in [Customers -> 0..PerUser]
    /\ granted \in [Customers -> Nat] /\ \A c \in Customers : granted[c] <= MaxGranted[c]
    /\ referral \in [Customers -> {"none", "registered", "qualified", "rewarded"}]
    /\ sweep \in [Sweeps -> [due : SUBSET Reservations, on : Customers \cup {Nobody},
                             held : Int]]

\* The balance before line i.
Before(a, i) == IF i = 1 THEN 0 ELSE books[a].lines[i - 1].after

\* The account always shows the balance of its last line, and every line but
\* an expiry continues the line before it: credits, debits, redemptions and
\* referral rewards never lose each other's updates, whatever the sweep does.
StatementContinues ==
    \A a \in Accounts :
        /\ books[a].balance = Before(a, Len(books[a].lines) + 1)
        /\ \A i \in 1..Len(books[a].lines) :
              LET line == books[a].lines[i] IN
              line.type # "expired" => line.after = Before(a, i) + line.points

\* No balance is negative, although a reversal may come after its points were
\* spent and the sweep writes what it computed from an old balance.
NeverOverdrawn ==
    \A a \in Accounts :
        /\ books[a].balance >= 0
        /\ \A i \in 1..Len(books[a].lines) : books[a].lines[i].after >= 0

\* lifetime_earned is what visits, bonuses and grants gave, each once however
\* often its job ran; lifetime_redeemed and the stock agree with the redemptions.
CountersExplained ==
    /\ \A c \in Customers :
          LET a == BusinessAccount(c)
              visits == {r \in Reservations : Listed(books, a, "earned", r)}
              grants == {i \in DOMAIN books[a].lines :
                            /\ books[a].lines[i].type = "adjusted"
                            /\ books[a].lines[i].points > 0} IN
          /\ \A r \in visits : Guest[r] = c /\ visit[r] = "completed"
          /\ books[a].earned = SumOf([r \in Reservations |-> Points(Amount[r])], visits)
                             + Bonus * redeemed[c]
                             + SumOf([i \in DOMAIN books[a].lines |-> books[a].lines[i].points], grants)
          /\ books[a].redeemed = Cost * redeemed[c]
    /\ stock + SumOf(redeemed, Customers) = Stock

\* A referral is rewarded exactly when both sides have been paid for it: the
\* three rows change together although a job may be run again.
RewardedTogether ==
    \A c \in {d \in Customers : Referrer[d] # Nobody} :
        /\ referral[c] = "rewarded" <=> Listed(books, PlatformAccount(c), "referral", c)
        /\ referral[c] = "rewarded"
              <=> Listed(books, PlatformAccount(Referrer[c]), "referral", c)

JobsOf(c) == {job[r].at : r \in {q \in Reservations : Guest[q] = c}}

\* The worker died between qualifying and rewarding, and the run after it
\* looks for registered referrals only.
Stranded(c) == referral[c] = "qualified" /\ {"qualify", "award"} \cap JobsOf(c) = {}

\* Two visits were completed before the listener of the first one looked.
Missed(c) ==
    /\ referral[c] = "registered" /\ "qualify" \notin JobsOf(c)
    /\ \E q, r \in Reservations :
          q # r /\ Guest[q] = c /\ Guest[r] = c /\ visit[q] = "completed" /\ visit[r] = "completed"

\* How lasting the exceptions of ReferralSettles are: nothing the code does later
\* makes up for a referral that was stranded by a crash or missed because of two
\* visits, no retry and no later visit.
LostStaysLost ==
    [][\A c \in Customers : /\ Stranded(c) => Stranded(c)'
                            /\ Missed(c) => Missed(c)']_loyaltyVars

\* With workers that keep running, a referred customer who completes a visit
\* is rewarded, unless the job of the visit fails or one of these two happens.
ReferralSettles ==
    \A r \in Reservations :
        visit[r] = "completed" /\ referral[Guest[r]] = "registered"
            ~> \/ referral[Guest[r]] = "rewarded" \/ job[r].at = "failed"
               \/ Stranded(Guest[r]) \/ Missed(Guest[r])

\* docs/LOYALTY_AND_REFERRAL.md:103: the first completed reservation of a referred
\* customer qualifies the referral and rewards it (a job that used up its tries
\* excepted).
FirstVisitRewards ==
    \A r \in Reservations :
        visit[r] = "completed" /\ referral[Guest[r]] = "registered"
            ~> referral[Guest[r]] = "rewarded" \/ job[r].at = "failed"

\* docs/LOYALTY_AND_REFERRAL.md:67: the balance is the total of the ledger.
BalanceIsLedgerTotal ==
    \A a \in Accounts :
        books[a].balance = SumOf([i \in DOMAIN books[a].lines |-> books[a].lines[i].points],
                                 DOMAIN books[a].lines)

\* lang/en/loyalty.php:8: an adjustment answered with success has adjusted the points.
AdjustmentsApplied ==
    \A c \in Customers :
        LET lines == books[BusinessAccount(c)].lines IN
        granted[c] = Cardinality({i \in DOMAIN lines : lines[i].type = "adjusted"})
==============================================================================
