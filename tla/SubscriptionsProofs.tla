------------------------- MODULE SubscriptionsProofs -------------------------
(***************************************************************************)
(* Theorems about Subscriptions, for every number of businesses, rows,     *)
(* plans and requests, and every number of tries and deaths of workers.    *)
(*                                                                         *)
(* What a request or the command found may be out of date when it acts.    *)
(* The inductive invariant says what cannot become false meanwhile: a row  *)
(* that was found exists (SubTypeOK, RowsExist) and belongs to the         *)
(* business of the request (SeenIsOwn).                                    *)
(***************************************************************************)
EXTENDS Subscriptions, TLAPS

\* Rows whose period ended, or that the command has listed, exist.
RowsExist ==
    \A i \in Ids : over[i] # 0 \/ i \in sweep.due => sub[i].status # "absent"

\* A request acts on a subscription of its own business.
SeenIsOwn ==
    \A q \in Requests : req[q].seen # NoRow => sub[req[q].seen].biz = req[q].ask.biz

\* A listener that can still run has a try left.
TriesLeft == \A q \in Requests : req[q].at # "failed" => left[q] # 0

SubInv == SubTypeOK /\ OneEffective /\ RowsExist /\ SeenIsOwn /\ TriesLeft

------------------------------------------------------------------------------
(* Rows *)

\* What becomes of row i, in words every step obeys: it comes into being in
\* force, or it is kept by its business and does not return from its end.
RowMoves(i) ==
    /\ sub[i].status # "absent" => sub'[i].status # "absent" /\ sub'[i].biz = sub[i].biz
    /\ sub[i].status \in Ended => sub'[i].status \in Ended

LEMMA EndedTable ==
    ASSUME NEW from \in Effective \cup Ended, NEW to \in {"active", "cancelled"},
           CanMove(from, to)
    PROVE  from \in Ended => to \in Ended
BY DEF CanMove, Successors, Effective, Ended

\* A row that keeps its business and does not come back into force cannot make a
\* second effective subscription.
LEMMA OneChanged ==
    ASSUME SubTypeOK, OneEffective, NEW i \in Ids, NEW row \in Row,
           sub' = [sub EXCEPT ![i] = row],
           row.biz = sub[i].biz,
           row.status \in Effective => sub[i].status \in Effective
    PROVE  OneEffective'
<1>1. sub \in [Ids -> Row]
  BY DEF SubTypeOK
<1>2. \A j \in Ids : /\ sub'[j].biz = sub[j].biz
                     /\ sub'[j].status \in Effective => sub[j].status \in Effective
  BY <1>1
<1> QED
  BY <1>2 DEF OneEffective

LEMMA CreatedRows ==
    ASSUME SubTypeOK, NEW i \in Ids, sub[i].status = "absent", NEW b \in Businesses,
           NEW p \in Plans, NEW s \in {"active", "trialing"}, sub' = Created(i, b, p, s)
    PROVE  /\ sub' \in [Ids -> Row]
           /\ \A j \in Ids : RowMoves(j)
           /\ \A j \in Ids : sub'[j].status # "absent" => sub'[j].biz \in Businesses
                                                       /\ sub'[j].plan \in Plans
           /\ sub'[i] = NewRow(b, p, s)
           /\ \A j \in Ids \ {i} :
                 IF sub[j].biz = b /\ sub[j].status \in Effective
                 THEN sub'[j].status = "expired"
                 ELSE sub'[j] = sub[j]
<1>1. sub \in [Ids -> Row] /\ \A j \in Ids : sub[j].status # "absent"
         => sub[j].biz \in Businesses /\ sub[j].plan \in Plans
  BY DEF SubTypeOK
<1>2. NewRow(b, p, s) \in Row /\ NewRow(b, p, s).status = s /\ NewRow(b, p, s).biz = b
      /\ NewRow(b, p, s).plan = p
  BY DEF NewRow, Row, Effective
<1>3. /\ sub'[i] = NewRow(b, p, s)
      /\ \A j \in Ids \ {i} :
            IF sub[j].biz = b /\ sub[j].status \in Effective
            THEN sub'[j] = [sub[j] EXCEPT !.status = "expired"]
            ELSE sub'[j] = sub[j]
      /\ sub' = [j \in Ids |-> sub'[j]]
  BY DEF Created, EffectiveOf
<1>4. \A j \in Ids \ {i} : sub[j].biz = b /\ sub[j].status \in Effective
         => /\ sub'[j] \in Row /\ sub'[j].status = "expired"
            /\ sub'[j].biz = sub[j].biz /\ sub'[j].plan = sub[j].plan
  BY <1>1, <1>3 DEF Row, Ended
<1>5. sub' \in [Ids -> Row]
  BY <1>1, <1>2, <1>3, <1>4
<1>6. \A j \in Ids : RowMoves(j)
  BY <1>2, <1>3, <1>4 DEF RowMoves, Effective, Ended
<1> QED
  BY <1>1, <1>2, <1>3, <1>4, <1>5, <1>6 DEF Effective

LEMMA CreatedOne ==
    ASSUME SubTypeOK, OneEffective, NEW i \in Ids, sub[i].status = "absent",
           NEW b \in Businesses, NEW p \in Plans, NEW s \in {"active", "trialing"},
           sub' = Created(i, b, p, s)
    PROVE  OneEffective'
<1>1. sub'[i].biz = b
  <2>1. sub'[i] = NewRow(b, p, s)
    BY CreatedRows
  <2> QED
    BY <2>1 DEF NewRow
<1>2. \A j \in Ids \ {i} : sub'[j].status \in Effective
         => sub'[j] = sub[j] /\ sub[j].biz # b
  BY CreatedRows DEF Effective
<1> QED
  BY <1>1, <1>2 DEF OneEffective

LEMMA UpgradedRows ==
    ASSUME SubTypeOK, OneEffective, NEW i \in Ids, NEW p \in Plans, sub' = Upgraded(i, p)
    PROVE  /\ sub' \in [Ids -> Row]
           /\ \A j \in Ids : RowMoves(j)
           /\ \A j \in Ids : sub'[j].status # "absent" => sub'[j].biz \in Businesses
                                                       /\ sub'[j].plan \in Plans
           /\ \A j \in Ids : sub'[j].status = sub[j].status /\ sub'[j].biz = sub[j].biz
           /\ sub'[i].plan = p
           /\ \A j \in Ids \ {i} : sub'[j] = sub[j]
           /\ OneEffective'
<1>1. sub \in [Ids -> Row] /\ \A j \in Ids : sub[j].status # "absent"
         => sub[j].biz \in Businesses /\ sub[j].plan \in Plans
  BY DEF SubTypeOK
<1> DEFINE mid == [sub EXCEPT ![i].plan = p]
<1>2. /\ mid \in [Ids -> Row]
      /\ \A j \in Ids : mid[j].status = sub[j].status /\ mid[j].biz = sub[j].biz
      /\ mid[i].plan = p
      /\ \A j \in Ids \ {i} : mid[j] = sub[j]
  BY <1>1 DEF Row
<1>3. sub' = [mid EXCEPT ![i].pending = NoPlan]
  BY DEF Upgraded
<1> HIDE DEF mid
<1>4. /\ sub' \in [Ids -> Row]
      /\ \A j \in Ids : sub'[j].status = mid[j].status /\ sub'[j].biz = mid[j].biz
      /\ sub'[i].plan = mid[i].plan
      /\ \A j \in Ids \ {i} : sub'[j] = mid[j]
  BY <1>2, <1>3 DEF Row
<1> QED
  BY <1>1, <1>2, <1>4 DEF RowMoves, OneEffective

\* Every row has its type, keeps its business and does not return from its end,
\* and one per business is in force.
RowsGood ==
    /\ sub' \in [Ids -> Row]
    /\ \A j \in Ids : RowMoves(j)
    /\ \A j \in Ids : sub'[j].status # "absent" => sub'[j].biz \in Businesses
                                                /\ sub'[j].plan \in Plans
    /\ OneEffective'

LEMMA PatchedRows ==
    ASSUME SubTypeOK, OneEffective, NEW i \in Ids, sub[i].status # "absent",
           NEW row \in Row, sub' = [sub EXCEPT ![i] = row],
           row.biz = sub[i].biz, row.plan = sub[i].plan,
           \/ row.status = sub[i].status
           \/ row.status \in {"active", "cancelled"} /\ CanMove(sub[i].status, row.status)
    PROVE  RowsGood
<1>1. sub \in [Ids -> Row] /\ \A j \in Ids : sub[j].status # "absent"
         => sub[j].biz \in Businesses /\ sub[j].plan \in Plans
  BY DEF SubTypeOK
<1>2. sub[i].status \in Effective \cup Ended
  BY <1>1 DEF Row
<1>3. /\ row.status \in Effective => sub[i].status \in Effective
      /\ sub[i].status \in Ended => row.status \in Ended
      /\ row.status # "absent"
  BY <1>2, EndedTable DEF Effective, Ended
<1>4. OneEffective'
  BY <1>3, OneChanged
<1> QED
  BY <1>1, <1>3, <1>4 DEF RowsGood, RowMoves

LEMMA SameRows ==
    ASSUME SubTypeOK, OneEffective, sub' = sub
    PROVE  RowsGood
BY DEF SubTypeOK, OneEffective, RowsGood, RowMoves

\* The requests that write one field of the subscription they found.
LEMMA ManagedRows ==
    ASSUME SubInv, NEW q \in Requests,
           Downgrade(q) \/ CancelAtEnd(q) \/ CancelNow(q) \/ Resume(q)
    PROVE  RowsGood
<1> DEFINE i == req[q].seen
<1>1. SubTypeOK /\ OneEffective /\ sub \in [Ids -> Row]
  BY DEF SubInv, SubTypeOK
<1>2. i \in Ids /\ sub[i].status # "absent"
  <2>1. req[q].at \in Wishes \cup {"downgrade"} /\ req[q].seen \in Ids \cup {NoRow}
    BY <1>1 DEF SubTypeOK, Downgrade, CancelAtEnd, CancelNow, Resume, Wishes
  <2> QED
    BY <1>1, <2>1 DEF SubTypeOK
<1> HIDE DEF i
<1>3. sub[i] \in Row
  BY <1>1, <1>2
<1>4. CASE sub' = sub
  BY <1>1, <1>4, SameRows
<1>5. CASE Downgrade(q)
  <2> DEFINE row == [sub[i] EXCEPT !.pending = req[q].ask.plan]
  <2>1. req[q].ask.plan \in Plans
    BY <1>1, <1>5 DEF Downgrade, SubTypeOK
  <2>2. row \in Row /\ row.biz = sub[i].biz /\ row.plan = sub[i].plan
        /\ row.status = sub[i].status
    BY <1>3, <2>1 DEF Row
  <2>3. sub' = [sub EXCEPT ![i] = row]
    BY <1>5 DEF Downgrade, i
  <2> HIDE DEF row
  <2> QED
    BY <1>1, <1>2, <2>2, <2>3, PatchedRows
<1>6. ASSUME NEW v \in BOOLEAN, sub' = [sub EXCEPT ![i] = [sub[i] EXCEPT !.scheduled = v]]
      PROVE  RowsGood
  <2> DEFINE row == [sub[i] EXCEPT !.scheduled = v]
  <2>1. row \in Row /\ row.biz = sub[i].biz /\ row.plan = sub[i].plan
        /\ row.status = sub[i].status
    BY <1>3 DEF Row
  <2>2. sub' = [sub EXCEPT ![i] = row]
    BY <1>6
  <2> HIDE DEF row
  <2> QED
    BY <1>1, <1>2, <2>1, <2>2, PatchedRows
<1>7. CASE CancelAtEnd(q)
  BY <1>6, <1>7 DEF CancelAtEnd, i
<1>8. CASE Resume(q)
  BY <1>4, <1>6, <1>8 DEF Resume, i
<1>9. CASE CancelNow(q) /\ sub' # sub
  <2> DEFINE row == [sub[i] EXCEPT !.status = "cancelled"]
  <2>1. row \in Row /\ row.biz = sub[i].biz /\ row.plan = sub[i].plan
        /\ row.status = "cancelled"
    BY <1>3 DEF Row, Ended
  <2>2. sub' = [sub EXCEPT ![i] = row] /\ CanMove(sub[i].status, "cancelled")
    BY <1>9 DEF CancelNow, i
  <2> HIDE DEF row
  <2> QED
    BY <1>1, <1>2, <2>1, <2>2, PatchedRows
<1> QED
  BY <1>4, <1>5, <1>7, <1>8, <1>9

LEMMA CreatedGood ==
    ASSUME SubInv, NEW q \in Requests, req[q].at \in {"create", "trial", "fulfil"},
           NEW i \in Ids, sub[i].status = "absent", NEW s \in {"active", "trialing"},
           sub' = Created(i, req[q].ask.biz, req[q].ask.plan, s)
    PROVE  RowsGood
<1>1. req[q].ask.biz \in Businesses /\ req[q].ask.plan \in Plans
  BY DEF SubInv, SubTypeOK, Ask
<1> QED
  BY <1>1, CreatedRows, CreatedOne DEF SubInv, RowsGood

LEMMA UpgradedGood ==
    ASSUME SubInv, NEW i \in Ids, NEW p \in Plans, sub' = Upgraded(i, p)
    PROVE  RowsGood
BY UpgradedRows DEF SubInv, RowsGood

LEMMA FulfilGood ==
    ASSUME SubInv, NEW q \in Requests, Fulfil(q)
    PROVE  RowsGood
<1>1. SubTypeOK /\ OneEffective
  BY DEF SubInv
<1>2. req[q].at = "fulfil" /\ req[q].ask.plan \in Plans /\ req[q].seen \in Ids \cup {NoRow}
  BY <1>1 DEF Fulfil, SubTypeOK
<1>3. CASE sub' = sub
  BY <1>1, <1>3, SameRows
<1>4. CASE req[q].seen # NoRow /\ sub' = Upgraded(req[q].seen, req[q].ask.plan)
  BY <1>2, <1>4, UpgradedGood
<1>5. CASE \E i \in Ids : /\ sub[i].status = "absent"
                         /\ sub' = Created(i, req[q].ask.biz, req[q].ask.plan, "active")
  BY <1>2, <1>5, CreatedGood
<1> QED
  BY <1>3, <1>4, <1>5 DEF Fulfil

LEMMA SweepGood ==
    ASSUME SubInv, NEW i \in Ids, SweepStatus(i) \/ SweepPlan(i)
    PROVE  RowsGood
<1>1. SubTypeOK /\ OneEffective /\ sub \in [Ids -> Row]
  BY DEF SubInv, SubTypeOK
<1>2. CASE sub' = sub
  BY <1>1, <1>2, SameRows
<1>3. CASE SweepStatus(i) /\ sub' # sub
  <2> DEFINE to == IF sweep.at = "trials" THEN "active" ELSE "cancelled"
             row == [sub[i] EXCEPT !.status = to]
  <2>1. to \in {"active", "cancelled"}
    OBVIOUS
  <2>2. i \in sweep.due /\ CanMove(sub[i].status, to) /\ sub' = [sub EXCEPT ![i] = row]
    BY <1>3 DEF SweepStatus, InOrder
  <2> HIDE DEF to
  <2>3. row \in Row /\ row.biz = sub[i].biz /\ row.plan = sub[i].plan /\ row.status = to
    BY <1>1, <2>1 DEF Row, Effective, Ended
  <2> HIDE DEF row
  <2>4. sub[i].status # "absent"
    BY <2>2 DEF SubInv, RowsExist
  <2> QED
    BY <1>1, <2>1, <2>2, <2>3, <2>4, PatchedRows
<1>4. CASE SweepPlan(i) /\ sub' # sub
  <2>1. sub[i].pending \in Plans /\ sub' = Upgraded(i, sub[i].pending)
    BY <1>1, <1>4 DEF SweepPlan, Row
  <2> QED
    BY <2>1, UpgradedGood
<1> QED
  BY <1>2, <1>3, <1>4

LEMMA StepGood ==
    ASSUME SubInv, [SubNext]_subVars
    PROVE  RowsGood
<1>1. CASE sub' = sub
  BY <1>1, SameRows DEF SubInv
<1>2. ASSUME NEW q \in Requests, Serve(q), sub' # sub
      PROVE  RowsGood
  <2>1. \/ Create(q) \/ Downgrade(q) \/ CancelAtEnd(q) \/ CancelNow(q) \/ Resume(q) \/ Fulfil(q)
    BY <1>2 DEF Serve, Begin, PaymentSucceeds, Acknowledge, WorkerDies
  <2>2. CASE Create(q)
    BY <2>2, CreatedGood DEF Create
  <2> QED
    BY <2>1, <2>2, ManagedRows, FulfilGood
<1>3. CASE SweepStep /\ sub' # sub
  BY <1>3, SweepGood DEF SweepStep, SweepQuery, SweepRenew
<1>4. CASE \E i \in Ids : PeriodEnds(i) \/ TrialEnds(i)
  BY <1>1, <1>4 DEF PeriodEnds, TrialEnds
<1>5. CASE UNCHANGED subVars
  BY <1>1, <1>5 DEF subVars
<1> QED
  BY <1>1, <1>2, <1>3, <1>4, <1>5 DEF SubNext

------------------------------------------------------------------------------
(* Requests *)

Managing == Wishes \cup {"downgrade"}
Buying == {"create", "trial", "downgrade", "pay", "fulfil", "ack"}

\* What the type invariant, SeenIsOwn and TriesLeft say of one request.
GoodRequest(q) ==
    /\ req[q] \in [at : RequestStates, ask : Ask \cup {NoAsk}, seen : Ids \cup {NoRow}]
    /\ req[q].seen # NoRow => /\ sub[req[q].seen].status # "absent"
                             /\ sub[req[q].seen].biz = req[q].ask.biz
    /\ req[q].at \in Managing => req[q].seen # NoRow
    /\ req[q].at \in Buying => req[q].ask \in Ask /\ req[q].ask.plan \in Plans
    /\ req[q].at # "failed" => left[q] # 0
    /\ left[q] \in 0..Tries

LEMMA BranchTaken ==
    ASSUME NEW q \in Requests, NEW a \in Asks[q], NEW i \in Ids \cup {NoRow}
    PROVE  /\ Branch(a, i) \in RequestStates \ {"failed"}
           /\ Branch(a, i) \in Managing => i # NoRow
           /\ Branch(a, i) \in Buying => a \in Ask /\ a.plan \in Plans
<1>1. a \in Ask /\ (a.what = "subscribe" <=> a.plan \in Plans) /\ a.what \in Wishes
  BY AsksAssumption DEF Ask
<1>2. CASE a.what # "subscribe"
  BY <1>1, <1>2 DEF Branch, RequestStates, Managing, Buying, Wishes
<1>3. CASE a.what = "subscribe"
  BY <1>1, <1>3 DEF Branch, RequestStates, Managing, Buying, Wishes
<1> QED
  BY <1>2, <1>3

LEMMA CurrentIsOwn ==
    ASSUME NEW b
    PROVE  /\ Current(b) \in Ids \cup {NoRow}
           /\ Current(b) # NoRow => /\ sub[Current(b)].status # "absent"
                                   /\ sub[Current(b)].biz = b
<1>1. CASE EffectiveOf(b) = {}
  BY <1>1 DEF Current
<1>2. CASE EffectiveOf(b) # {}
  <2>1. Current(b) \in EffectiveOf(b)
    BY <1>2 DEF Current
  <2> QED
    BY <2>1 DEF EffectiveOf, Effective
<1> QED
  BY <1>1, <1>2

\* A request that does not move stays good, because rows are kept.
LEMMA StillGood ==
    ASSUME NEW q \in Requests, GoodRequest(q), \A j \in Ids : RowMoves(j),
           req'[q] = req[q], left'[q] = left[q]
    PROVE  GoodRequest(q)'
BY DEF GoodRequest, RowMoves

LEMMA ServedGood ==
    ASSUME NEW q \in Requests, GoodRequest(q), \A j \in Ids : RowMoves(j),
           req \in [Requests -> [at : RequestStates, ask : Ask \cup {NoAsk},
                                seen : Ids \cup {NoRow}]],
           left \in [Requests -> 0..Tries],
           Serve(q)
    PROVE  GoodRequest(q)' /\ left' \in [Requests -> 0..Tries]
<1>1. ASSUME NEW a \in Asks[q], Begin(q, a)
      PROVE  GoodRequest(q)' /\ left' \in [Requests -> 0..Tries]
  <2> DEFINE i == Current(a.biz)
  <2>1. /\ req'[q] = [at |-> Branch(a, i), ask |-> a, seen |-> i]
        /\ sub' = sub /\ left' = left /\ req[q].at = "new"
    BY <1>1 DEF Begin, payVars
  <2>2. /\ i \in Ids \cup {NoRow}
        /\ i # NoRow => sub[i].status # "absent" /\ sub[i].biz = a.biz
    BY CurrentIsOwn
  <2>3. a \in Ask
    BY AsksAssumption
  <2> HIDE DEF i
  <2> QED
    BY <2>1, <2>2, <2>3, BranchTaken DEF GoodRequest
<1>2. ASSUME NEW to \in {"done", "fulfil", "ack"},
             req[q].at # "failed",
             to \in {"fulfil", "ack"} => req[q].at \in Buying,
             req' = [req EXCEPT ![q].at = to], left' = left
      PROVE  GoodRequest(q)' /\ left' \in [Requests -> 0..Tries]
  <2>1. req'[q].at = to /\ req'[q].ask = req[q].ask /\ req'[q].seen = req[q].seen
        /\ req'[q] \in [at : RequestStates, ask : Ask \cup {NoAsk}, seen : Ids \cup {NoRow}]
    BY <1>2 DEF RequestStates
  <2> QED
    BY <1>2, <2>1 DEF GoodRequest, RowMoves, Managing, Buying, Wishes
<1>3. CASE Create(q) \/ Downgrade(q) \/ CancelAtEnd(q) \/ CancelNow(q) \/ Resume(q)
           \/ Acknowledge(q)
  BY <1>2, <1>3
     DEF Create, Downgrade, CancelAtEnd, CancelNow, Resume, Acknowledge, Answered, payVars
<1>4. CASE PaymentSucceeds(q)
  BY <1>2, <1>4 DEF PaymentSucceeds, payVars, Buying
<1>5. CASE Fulfil(q)
  BY <1>2, <1>5 DEF Fulfil, Buying
<1>6. CASE WorkerDies(q)
  <2> DEFINE to == IF left[q] = 1 THEN "failed" ELSE "fulfil"
  <2>1. /\ req' = [req EXCEPT ![q].at = to] /\ left' = [left EXCEPT ![q] = left[q] - 1]
        /\ req[q].at \in {"fulfil", "ack"}
    BY <1>6 DEF WorkerDies
  <2>2. left[q] \in 1..Tries
    BY <2>1, BoundsAssumption DEF GoodRequest
  <2>3. left' \in [Requests -> 0..Tries] /\ left'[q] = left[q] - 1
    BY <2>1, <2>2, BoundsAssumption
  <2>4. to \in {"failed", "fulfil"} /\ (to # "failed" => left[q] # 1)
    OBVIOUS
  <2> HIDE DEF to
  <2>5. req'[q].at = to /\ req'[q].ask = req[q].ask /\ req'[q].seen = req[q].seen
        /\ req'[q] \in [at : RequestStates, ask : Ask \cup {NoAsk}, seen : Ids \cup {NoRow}]
    BY <2>1, <2>4 DEF RequestStates
  <2>6. req[q].at \in Buying
    BY <2>1 DEF Buying
  <2> QED
    BY <2>2, <2>3, <2>4, <2>5, <2>6, BoundsAssumption
       DEF GoodRequest, RowMoves, Managing, Buying, Wishes
<1> QED
  BY <1>1, <1>3, <1>4, <1>5, <1>6 DEF Serve

\* The requests are all good, and stay so with every step.
GoodRequests ==
    /\ req \in [Requests -> [at : RequestStates, ask : Ask \cup {NoAsk}, seen : Ids \cup {NoRow}]]
    /\ left \in [Requests -> 0..Tries]
    /\ \A q \in Requests : GoodRequest(q)

LEMMA InvariantMeansGoodRequests == SubInv => GoodRequests
BY DEF SubInv, SubTypeOK, SeenIsOwn, TriesLeft, GoodRequests, GoodRequest, Managing, Buying

LEMMA RequestsStep ==
    ASSUME SubInv, [SubNext]_subVars
    PROVE  GoodRequests'
<1>1. GoodRequests /\ \A j \in Ids : RowMoves(j)
  BY InvariantMeansGoodRequests, StepGood DEF RowsGood
<1>2. CASE req' = req /\ left' = left
  BY <1>1, <1>2, StillGood DEF GoodRequests
<1>3. ASSUME NEW q \in Requests, Serve(q)
      PROVE  GoodRequests'
  <2>1. GoodRequest(q)' /\ left' \in [Requests -> 0..Tries]
    BY <1>1, <1>3, ServedGood DEF GoodRequests
  <2>2. /\ req' = [req EXCEPT ![q] = req'[q]]
        /\ \A r \in Requests \ {q} : left'[r] = left[r]
    <3>1. req \in [Requests -> [at : RequestStates, ask : Ask \cup {NoAsk}, seen : Ids \cup {NoRow}]]
          /\ left \in [Requests -> 0..Tries]
      BY <1>1 DEF GoodRequests
    <3>2. \E row : req' = [req EXCEPT ![q] = row]
      BY <1>3, <3>1
         DEF Serve, Begin, Create, Downgrade, CancelAtEnd, CancelNow, Resume, PaymentSucceeds,
             Fulfil, Acknowledge, WorkerDies, Answered
    <3>3. \A r \in Requests \ {q} : left'[r] = left[r]
      BY <1>3, <3>1
         DEF Serve, Begin, Create, Downgrade, CancelAtEnd, CancelNow, Resume, PaymentSucceeds,
             Fulfil, Acknowledge, WorkerDies, payVars
    <3> QED
      BY <3>1, <3>2, <3>3
  <2>3. \A r \in Requests \ {q} : req'[r] = req[r]
    BY <1>1, <2>2 DEF GoodRequests
  <2>4. \A r \in Requests \ {q} : GoodRequest(r)'
    BY <1>1, <2>2, <2>3, StillGood DEF GoodRequests
  <2>5. req' \in [Requests -> [at : RequestStates, ask : Ask \cup {NoAsk}, seen : Ids \cup {NoRow}]]
    BY <1>1, <2>1, <2>2 DEF GoodRequests, GoodRequest
  <2> QED
    BY <2>1, <2>4, <2>5 DEF GoodRequests
<1>4. CASE SweepStep
  BY <1>2, <1>4 DEF SweepStep, SweepQuery, SweepRenew, SweepStatus, SweepPlan, payVars
<1>5. CASE \E i \in Ids : PeriodEnds(i) \/ TrialEnds(i)
  BY <1>2, <1>5 DEF PeriodEnds, TrialEnds, payVars
<1>6. CASE UNCHANGED subVars
  BY <1>2, <1>6 DEF subVars, payVars
<1> QED
  BY <1>3, <1>4, <1>5, <1>6 DEF SubNext

------------------------------------------------------------------------------
(* Time and the command *)

SweepTyped ==
    sweep \in [at : {"idle", "trials", "cancels", "plans"}, due : SUBSET Ids,
               row : Ids \cup {NoRow}]

LEMMA TimeStep ==
    ASSUME SubInv, [SubNext]_subVars
    PROVE  /\ over' \in [Ids -> 0..MaxEnds] /\ trialOver' \subseteq Ids /\ clock' \in 0..MaxEnds
           /\ fulfilled' \subseteq Requests /\ deaths' \in 0..MaxDeaths
           /\ SweepTyped' /\ RowsExist'
<1> DEFINE Goal == /\ over' \in [Ids -> 0..MaxEnds] /\ trialOver' \subseteq Ids
                   /\ clock' \in 0..MaxEnds
                   /\ fulfilled' \subseteq Requests /\ deaths' \in 0..MaxDeaths
                   /\ SweepTyped' /\ RowsExist'
<1>1. /\ over \in [Ids -> 0..MaxEnds] /\ trialOver \subseteq Ids /\ clock \in 0..MaxEnds
      /\ fulfilled \subseteq Requests /\ deaths \in 0..MaxDeaths
      /\ SweepTyped /\ RowsExist /\ sub \in [Ids -> Row]
  BY DEF SubInv, SubTypeOK, SweepTyped
<1>2. \A j \in Ids : sub[j].status # "absent" => sub'[j].status # "absent"
  BY StepGood DEF RowsGood, RowMoves
<1>3. CASE UNCHANGED <<over, trialOver, clock, sweep>> /\ fulfilled' \subseteq Requests
           /\ deaths' \in 0..MaxDeaths
  BY <1>1, <1>2, <1>3 DEF SweepTyped, RowsExist
<1>4. ASSUME NEW q \in Requests, Serve(q)
      PROVE  Goal
  <2>1. UNCHANGED <<over, trialOver, clock, sweep>>
    BY <1>4
       DEF Serve, Begin, Create, Downgrade, CancelAtEnd, CancelNow, Resume, PaymentSucceeds,
           Fulfil, Acknowledge, WorkerDies, timeVars
  <2>2. fulfilled' \subseteq Requests /\ deaths' \in 0..MaxDeaths
    BY <1>1, <1>4, BoundsAssumption
       DEF Serve, Begin, Create, Downgrade, CancelAtEnd, CancelNow, Resume, PaymentSucceeds,
           Fulfil, Acknowledge, WorkerDies, payVars
  <2> QED
    BY <1>3, <2>1, <2>2
<1>5. ASSUME NEW i \in Ids, PeriodEnds(i)
      PROVE  Goal
  BY <1>1, <1>2, <1>5, BoundsAssumption DEF PeriodEnds, payVars, RowsExist, SweepTyped
<1>6. ASSUME NEW i \in Ids, TrialEnds(i)
      PROVE  Goal
  BY <1>1, <1>2, <1>6 DEF TrialEnds, payVars, RowsExist, SweepTyped
<1>7. CASE SweepQuery
  <2>1. /\ TrialsDue \subseteq Ids /\ CancelsDue \subseteq Ids /\ PlansDue \subseteq Ids
        /\ \A i \in TrialsDue \cup CancelsDue \cup PlansDue : sub[i].status # "absent"
    BY <1>1 DEF TrialsDue, CancelsDue, PlansDue, RowsExist
  <2>2. /\ sweep' \in [at : {"idle", "trials", "cancels", "plans"}, due : SUBSET Ids,
                       row : Ids \cup {NoRow}]
        /\ sweep'.due \subseteq TrialsDue \cup CancelsDue \cup PlansDue
    <3>1. sweep.at \in {"idle", "trials", "cancels", "plans"}
      BY <1>1 DEF SweepTyped
    <3>2. CASE sweep.at = "idle"
      BY <1>7, <2>1, <3>2 DEF SweepQuery, Idle
    <3>3. CASE sweep.at = "trials"
      BY <1>7, <2>1, <3>3 DEF SweepQuery, Idle
    <3>4. CASE sweep.at = "cancels"
      BY <1>7, <2>1, <3>4 DEF SweepQuery, Idle
    <3>5. CASE sweep.at = "plans"
      BY <1>7, <2>1, <3>5 DEF SweepQuery, Idle
    <3> QED
      BY <3>1, <3>2, <3>3, <3>4, <3>5
  <2>3. UNCHANGED <<sub, over, trialOver, clock, fulfilled, deaths>>
    BY <1>7 DEF SweepQuery, timeVars, payVars
  <2> QED
    BY <1>1, <2>1, <2>2, <2>3 DEF SweepTyped, RowsExist
<1>8. ASSUME NEW i \in Ids, SweepStatus(i) \/ SweepPlan(i)
      PROVE  Goal
  <2>1. sweep' \in [at : {"idle", "trials", "cancels", "plans"}, due : SUBSET Ids,
                   row : Ids \cup {NoRow}]
        /\ sweep'.due \subseteq sweep.due
    <3>1. CASE SweepStatus(i)
      BY <1>1, <3>1 DEF SweepStatus, SweepTyped, Idle
    <3>2. CASE SweepPlan(i)
      BY <1>1, <3>2 DEF SweepPlan, SweepTyped
    <3> QED
      BY <1>8, <3>1, <3>2
  <2>2. UNCHANGED <<over, trialOver, clock, fulfilled, deaths>>
    BY <1>8 DEF SweepStatus, SweepPlan, timeVars, payVars
  <2> QED
    BY <1>1, <1>2, <2>1, <2>2 DEF SweepTyped, RowsExist
<1>9. CASE SweepRenew
  <2>1. /\ sweep' \in [at : {"idle", "trials", "cancels", "plans"}, due : SUBSET Ids,
                      row : Ids \cup {NoRow}]
        /\ sweep'.due = sweep.due
        /\ over' = [over EXCEPT ![sweep.row] = 0]
        /\ UNCHANGED <<sub, trialOver, clock, fulfilled, deaths>>
    <3>1. sweep' = [sweep EXCEPT !.row = NoRow]
      BY <1>9 DEF SweepRenew
    <3>2. sweep' \in [at : {"idle", "trials", "cancels", "plans"}, due : SUBSET Ids,
                      row : Ids \cup {NoRow}]
      BY <1>1, <3>1 DEF SweepTyped
    <3>3. sweep'.due = sweep.due
      BY <1>1, <3>1 DEF SweepTyped
    <3>4. over' = [over EXCEPT ![sweep.row] = 0]
      BY <1>9 DEF SweepRenew
    <3>5. UNCHANGED <<sub, trialOver, clock, fulfilled, deaths>>
      BY <1>9 DEF SweepRenew, payVars
    <3> QED
      BY <3>2, <3>3, <3>4, <3>5
  <2>2. over' \in [Ids -> 0..MaxEnds] /\ \A j \in Ids : over'[j] # 0 => over[j] # 0
    <3>1. over \in [Ids -> 0..MaxEnds] /\ 0 \in 0..MaxEnds
      BY <1>1, BoundsAssumption
    <3>2. over' = [over EXCEPT ![sweep.row] = 0]
      BY <2>1
    <3>3. \A j \in Ids : over'[j] = IF j = sweep.row THEN 0 ELSE over[j]
      BY <3>1, <3>2
    <3>4. over' = [j \in Ids |-> over'[j]]
      BY <3>1, <3>2
    <3> QED
      BY <3>1, <3>3, <3>4
  <2> QED
    BY <1>1, <2>1, <2>2 DEF SweepTyped, RowsExist
<1>10. CASE UNCHANGED subVars
  BY <1>1, <1>3, <1>10 DEF subVars, timeVars, payVars
<1> QED
  BY <1>4, <1>5, <1>6, <1>7, <1>8, <1>9, <1>10 DEF SubNext, SweepStep

------------------------------------------------------------------------------
(* The inductive invariant *)

LEMMA SubInitHolds == SubInit => SubInv
<1> SUFFICES ASSUME SubInit PROVE SubInv
  OBVIOUS
<1>1. \A i \in Ids : \/ sub[i] = Absent
                    \/ \E b \in Businesses : FirstRow[b] = i /\ sub[i] = NewRow(b, Free, "active")
  BY DEF SubInit
<1>2. Absent \in Row /\ Absent.status = "absent"
      /\ \A b \in Businesses : /\ NewRow(b, Free, "active") \in Row
                              /\ NewRow(b, Free, "active").biz = b
                              /\ NewRow(b, Free, "active").plan = Free
  BY PlansAssumption DEF Absent, NewRow, Row, Effective
<1>3. sub \in [Ids -> Row]
  BY <1>1, <1>2 DEF SubInit
<1>4. \A i \in Ids : sub[i].status # "absent"
         => sub[i].biz \in Businesses /\ sub[i].plan \in Plans /\ FirstRow[sub[i].biz] = i
  BY <1>1, <1>2, PlansAssumption
<1>5. OneEffective
  BY <1>4 DEF OneEffective, Effective
<1>6. \A q \in Requests : /\ req[q] = [at |-> "new", ask |-> NoAsk, seen |-> NoRow]
                         /\ left[q] = Tries
  BY DEF SubInit
<1>7. SubTypeOK
  <2>1. req \in [Requests -> [at : RequestStates, ask : Ask \cup {NoAsk}, seen : Ids \cup {NoRow}]]
    BY DEF SubInit, RequestStates
  <2>2. over \in [Ids -> 0..MaxEnds] /\ clock \in 0..MaxEnds /\ deaths \in 0..MaxDeaths
        /\ left \in [Requests -> 0..Tries] /\ trialOver \subseteq Ids /\ fulfilled \subseteq Requests
    BY BoundsAssumption DEF SubInit
  <2>3. sweep \in [at : {"idle", "trials", "cancels", "plans"}, due : SUBSET Ids,
                  row : Ids \cup {NoRow}]
    BY DEF SubInit, Idle
  <2> QED
    BY <1>3, <1>4, <1>6, <2>1, <2>2, <2>3 DEF SubTypeOK, Wishes
<1>8. RowsExist
  BY DEF SubInit, RowsExist, Idle
<1>9. SeenIsOwn /\ TriesLeft
  BY <1>6, BoundsAssumption DEF SeenIsOwn, TriesLeft
<1> QED
  BY <1>5, <1>7, <1>8, <1>9 DEF SubInv

LEMMA SubStep ==
    ASSUME SubInv, [SubNext]_subVars
    PROVE  SubInv'
<1>1. RowsGood
  BY StepGood
<1>2. GoodRequests'
  BY RequestsStep
<1>3. SubTypeOK'
  BY <1>1, <1>2, TimeStep
     DEF SubTypeOK, RowsGood, GoodRequests, GoodRequest, SweepTyped, Managing, Buying
<1>4. SeenIsOwn' /\ TriesLeft'
  BY <1>2 DEF GoodRequests, GoodRequest, SeenIsOwn, TriesLeft
<1> QED
  BY <1>1, <1>3, <1>4, TimeStep DEF SubInv, RowsGood

------------------------------------------------------------------------------
(* Theorems *)

\* The inductive invariant: what a request or the command has found still exists
\* and belongs to the business, however late it is acted upon.
THEOREM SubscriptionsInvariant == SubSpec => []SubInv
<1>1. SubInv /\ [SubNext]_subVars => SubInv'
  BY SubStep
<1> QED
  BY SubInitHolds, <1>1, PTL DEF SubSpec

\* Every variable keeps its type: business_subscriptions, the requests and the
\* command.
THEOREM SubscriptionsTypeCorrect == SubSpec => []SubTypeOK
<1>1. SubInv => SubTypeOK
  BY DEF SubInv
<1> QED
  BY SubscriptionsInvariant, <1>1, PTL

\* createSubscription and the command never leave two subscriptions of a
\* business in force: the partial unique index has nothing to refuse.
THEOREM OneInForce == SubSpec => []OneEffective
<1>1. SubInv => OneEffective
  BY DEF SubInv
<1> QED
  BY SubscriptionsInvariant, <1>1, PTL

\* transitionStatus on the locked row never brings back a subscription that
\* ended after the command had listed it, and no request does either.
THEOREM NoReturnFromTheEnd == SubSpec => EndedForGood
<1>1. SubInv /\ [SubNext]_subVars
        => [\A i \in Ids : sub[i].status \in Ended => sub'[i].status \in Ended]_subVars
  BY StepGood DEF RowsGood, RowMoves
<1> QED
  BY SubscriptionsInvariant, <1>1, PTL DEF SubSpec, EndedForGood

\* FulfillSubscriptionPaymentAction: a payment takes effect in one step of its
\* job and no later run repeats it; what it upgrades is the subscription in
\* force, or, when that one has ended, nothing that is in force.
THEOREM PaidOnce == SubSpec => PaymentTakesEffectOnce
<1>1. SubInv /\ [SubNext]_subVars
        => [\A q \in Requests :
              LET b == req[q].ask.biz
                  plans == {sub[i].plan : i \in EffectiveOf(b)}
                  plansAfter == {sub'[i].plan : i \in EffectiveOf(b)'} IN
              /\ q \in fulfilled /\ req[q].at = "fulfil" /\ req'[q].at # "fulfil" => sub' = sub
              /\ q \notin fulfilled /\ q \in fulfilled' =>
                    IF req[q].seen # NoRow /\ sub[req[q].seen].status \in Ended
                    THEN plansAfter = plans
                    ELSE plansAfter = {req[q].ask.plan}
           ]_subVars
  <2> SUFFICES ASSUME SubInv, SubNext, NEW q \in Requests
               PROVE  LET b == req[q].ask.biz
                          plans == {sub[i].plan : i \in EffectiveOf(b)}
                          plansAfter == {sub'[i].plan : i \in EffectiveOf(b)'} IN
                      /\ q \in fulfilled /\ req[q].at = "fulfil" /\ req'[q].at # "fulfil"
                            => sub' = sub
                      /\ q \notin fulfilled /\ q \in fulfilled' =>
                            IF req[q].seen # NoRow /\ sub[req[q].seen].status \in Ended
                            THEN plansAfter = plans
                            ELSE plansAfter = {req[q].ask.plan}
    OBVIOUS
  <2>1. /\ SubTypeOK /\ OneEffective /\ SeenIsOwn /\ sub \in [Ids -> Row]
        /\ req \in [Requests -> [at : RequestStates, ask : Ask \cup {NoAsk},
                                seen : Ids \cup {NoRow}]]
    BY DEF SubInv, SubTypeOK
  <2>2. q \in fulfilled /\ req[q].at = "fulfil" /\ req'[q].at # "fulfil" => sub' = sub
    <3> SUFFICES ASSUME q \in fulfilled, req[q].at = "fulfil", req'[q].at # "fulfil"
                 PROVE  sub' = sub
      OBVIOUS
    <3>1. PICK r \in Requests : Serve(r)
      BY DEF SubNext, SweepStep, SweepQuery, SweepRenew, SweepStatus, SweepPlan, PeriodEnds,
             TrialEnds
    <3>2. r = q
      BY <2>1, <3>1
         DEF Serve, Begin, Create, Downgrade, CancelAtEnd, CancelNow, Resume, PaymentSucceeds,
             Fulfil, Acknowledge, WorkerDies, Answered
    <3> QED
      BY <3>1, <3>2
         DEF Serve, Begin, Create, Downgrade, CancelAtEnd, CancelNow, Resume, PaymentSucceeds,
             Fulfil, Acknowledge, WorkerDies
  <2>3. ASSUME q \notin fulfilled, q \in fulfilled'
        PROVE  LET b == req[q].ask.biz
                   plans == {sub[i].plan : i \in EffectiveOf(b)}
                   plansAfter == {sub'[i].plan : i \in EffectiveOf(b)'} IN
               IF req[q].seen # NoRow /\ sub[req[q].seen].status \in Ended
               THEN plansAfter = plans
               ELSE plansAfter = {req[q].ask.plan}
    <3>1. Fulfil(q)
      BY <2>3
         DEF SubNext, SweepStep, SweepQuery, SweepRenew, SweepStatus, SweepPlan, PeriodEnds,
             TrialEnds, Serve, Begin, Create, Downgrade, CancelAtEnd, CancelNow, Resume,
             PaymentSucceeds, Fulfil, Acknowledge, WorkerDies, payVars
    <3> DEFINE b == req[q].ask.biz
               p == req[q].ask.plan
               k == req[q].seen
    <3>2. /\ b \in Businesses /\ p \in Plans /\ k \in Ids \cup {NoRow} /\ req'[q].ask.biz = b
      BY <2>1, <3>1 DEF SubTypeOK, Fulfil, Ask
    <3>3. EffectiveOf(b)' = {i \in Ids : sub'[i].biz = b /\ sub'[i].status \in Effective}
      BY <3>2 DEF EffectiveOf
    <3>4. CASE k # NoRow
      <4>1. sub' = Upgraded(k, p) /\ k \in Ids /\ sub[k].biz = b /\ sub[k].status # "absent"
        BY <2>1, <2>3, <3>1, <3>2, <3>4 DEF Fulfil, SeenIsOwn, SubTypeOK
      <4> HIDE DEF b, p, k
      <4>2. /\ \A j \in Ids : sub'[j].status = sub[j].status /\ sub'[j].biz = sub[j].biz
            /\ sub'[k].plan = p
            /\ \A j \in Ids \ {k} : sub'[j] = sub[j]
        BY <2>1, <3>2, <4>1, UpgradedRows
      <4>3. EffectiveOf(b)' = EffectiveOf(b)
        BY <3>3, <4>2 DEF EffectiveOf
      <4>4. CASE sub[k].status \in Ended
        <5>1. \A i \in EffectiveOf(b) : sub'[i].plan = sub[i].plan
          BY <4>2, <4>4 DEF EffectiveOf, Effective, Ended
        <5> QED
          BY <3>4, <4>3, <4>4, <5>1 DEF b, k
      <4>5. CASE sub[k].status \notin Ended
        <5>1. sub[k].status \in Effective
          BY <2>1, <4>1, <4>5 DEF Row
        <5>2. EffectiveOf(b) = {k}
          BY <2>1, <4>1, <5>1 DEF EffectiveOf, OneEffective
        <5> QED
          BY <4>2, <4>3, <4>5, <5>2 DEF b, k, p
      <4> QED
        BY <4>4, <4>5
    <3>5. CASE k = NoRow
      <4>1. PICK i \in Ids : sub[i].status = "absent" /\ sub' = Created(i, b, p, "active")
        BY <2>3, <3>1, <3>5 DEF Fulfil
      <4> HIDE DEF b, p
      <4>2. /\ sub'[i] = NewRow(b, p, "active")
            /\ \A j \in Ids \ {i} :
                  IF sub[j].biz = b /\ sub[j].status \in Effective
                  THEN sub'[j].status = "expired"
                  ELSE sub'[j] = sub[j]
        BY <2>1, <3>2, <4>1, CreatedRows
      <4>3. EffectiveOf(b)' = {i} /\ sub'[i].plan = p
        BY <3>3, <4>2 DEF NewRow, Effective
      <4> QED
        BY <3>5, <4>3 DEF b, p, k
    <3> QED
      BY <3>4, <3>5
  <2> QED
    BY <2>2, <2>3
<1> QED
  BY SubscriptionsInvariant, <1>1, PTL DEF SubSpec, PaymentTakesEffectOnce

------------------------------------------------------------------------------
(* A poisoned row *)

\* The command holds a row to renew only while it applies pending plans.
RenewsInPlans == sweep.row # NoRow => sweep.at = "plans"

\* No request will take the schedule of the poisoned row i back, and no run of
\* the command will pass it on its way to the pending plans.
Hopeless(i) ==
    /\ Poisoned(i) /\ ~InHand(i)
    /\ sweep.at = "cancels" => i \in sweep.due

\* Row i stays in the way, and no run begins to apply pending plans.
PoisonIsForGood ==
    [][\A i \in Ids : Hopeless(i) =>
          Hopeless(i)' /\ (sweep'.at = "plans" => sweep.at = "plans")]_subVars

\* An expired row never changes its status again, and keeps its schedule unless
\* somebody has it in hand to resume it.
LEMMA ExpiredStays ==
    ASSUME SubInv, [SubNext]_subVars, NEW i \in Ids, sub[i].status = "expired",
           sub[i].scheduled, \A q \in Requests : ~(req[q].at = "resume" /\ req[q].seen = i)
    PROVE  sub'[i].status = "expired" /\ sub'[i].scheduled
<1>1. sub \in [Ids -> Row]
  BY DEF SubInv, SubTypeOK
<1>2. ~CanMove("expired", "cancelled") /\ ~CanMove("expired", "active")
  BY DEF CanMove, Successors
<1>3. ASSUME NEW j \in Ids, sub[j].status = "absent", NEW b, NEW p, NEW s, sub' = Created(j, b, p, s)
      PROVE  sub'[i] = sub[i]
  BY <1>3 DEF Created, EffectiveOf, Effective
<1>4. ASSUME NEW j, NEW p, sub' = Upgraded(j, p)
      PROVE  sub'[i].status = sub[i].status /\ sub'[i].scheduled = sub[i].scheduled
  <2> DEFINE mid == [sub EXCEPT ![j].plan = p]
  <2>1. mid[i].status = sub[i].status /\ mid[i].scheduled = sub[i].scheduled
        /\ DOMAIN mid = Ids
    BY <1>1 DEF Row
  <2>2. sub' = [mid EXCEPT ![j].pending = NoPlan]
    BY <1>4 DEF Upgraded
  <2>3. mid[i] \in [biz : Businesses \cup {"none"}, plan : Plans \cup {NoPlan, p},
                   status : Effective \cup Ended \cup {"absent"}, pending : Plans \cup {NoPlan},
                   scheduled : BOOLEAN]
    BY <1>1 DEF Row
  <2> HIDE DEF mid
  <2> QED
    BY <2>1, <2>2, <2>3
<1>5. ASSUME NEW q \in Requests, Serve(q)
      PROVE  sub'[i].status = "expired" /\ sub'[i].scheduled
  <2>1. CASE sub' = sub
    BY <2>1
  <2>2. CASE Create(q)
    BY <1>3, <2>2 DEF Create
  <2>3. CASE Fulfil(q)
    BY <1>3, <1>4, <2>3 DEF Fulfil
  <2>4. CASE Downgrade(q)
    BY <1>1, <2>4 DEF Downgrade, Row
  <2>5. CASE CancelAtEnd(q)
    BY <1>1, <2>5 DEF CancelAtEnd, Row
  <2>6. CASE CancelNow(q)
    BY <1>1, <1>2, <2>6 DEF CancelNow, Row
  <2>7. CASE Resume(q)
    BY <1>1, <2>7 DEF Resume, Row
  <2> QED
    BY <1>5, <2>1, <2>2, <2>3, <2>4, <2>5, <2>6, <2>7
       DEF Serve, Begin, PaymentSucceeds, Acknowledge, WorkerDies
<1>6. ASSUME NEW j \in Ids, SweepStatus(j)
      PROVE  sub'[i].status = "expired" /\ sub'[i].scheduled
  BY <1>1, <1>2, <1>6 DEF SweepStatus, Row
<1>7. ASSUME NEW j \in Ids, SweepPlan(j)
      PROVE  sub'[i].status = "expired" /\ sub'[i].scheduled
  BY <1>4, <1>7 DEF SweepPlan
<1> QED
  BY <1>5, <1>6, <1>7
     DEF SubNext, SweepStep, SweepQuery, SweepRenew, PeriodEnds, TrialEnds, subVars

\* A request that finds its subscription finds one that is in force.
LEMMA NobodyResumes ==
    ASSUME SubInv, [SubNext]_subVars, NEW i \in Ids, sub[i].status = "expired",
           \A q \in Requests : ~(req[q].at = "resume" /\ req[q].seen = i)
    PROVE  \A q \in Requests : ~(req'[q].at = "resume" /\ req'[q].seen = i)
<1> SUFFICES ASSUME NEW q \in Requests PROVE ~(req'[q].at = "resume" /\ req'[q].seen = i)
  OBVIOUS
<1>1. req \in [Requests -> [at : RequestStates, ask : Ask \cup {NoAsk}, seen : Ids \cup {NoRow}]]
  BY DEF SubInv, SubTypeOK
<1>2. \A b : Current(b) # i
  <2> SUFFICES ASSUME NEW b, Current(b) = i PROVE FALSE
    OBVIOUS
  <2>1. i # NoRow
    BY RowsAssumption
  <2>2. EffectiveOf(b) # {} /\ Current(b) \in EffectiveOf(b)
    BY <2>1 DEF Current
  <2> QED
    BY <2>2 DEF EffectiveOf, Effective
<1>3. CASE req' = req
  BY <1>3
<1>4. ASSUME NEW r \in Requests, NEW a, Begin(r, a)
      PROVE  ~(req'[q].at = "resume" /\ req'[q].seen = i)
  BY <1>1, <1>2, <1>4 DEF Begin
<1>5. ASSUME NEW r \in Requests, NEW to \in {"done", "fulfil", "ack", "failed"},
             req' = [req EXCEPT ![r].at = to]
      PROVE  ~(req'[q].at = "resume" /\ req'[q].seen = i)
  BY <1>1, <1>5
<1>6. ASSUME NEW r \in Requests, WorkerDies(r)
      PROVE  ~(req'[q].at = "resume" /\ req'[q].seen = i)
  BY <1>5, <1>6 DEF WorkerDies
<1>7. ASSUME NEW r \in Requests, Serve(r)
      PROVE  ~(req'[q].at = "resume" /\ req'[q].seen = i)
  BY <1>4, <1>5, <1>6, <1>7
     DEF Serve, Create, Downgrade, CancelAtEnd, CancelNow, Resume, PaymentSucceeds, Fulfil,
         Acknowledge, Answered
<1> QED
  BY <1>3, <1>7
     DEF SubNext, SweepStep, SweepQuery, SweepRenew, SweepStatus, SweepPlan, PeriodEnds,
         TrialEnds, subVars

LEMMA StepRenewsInPlans ==
    ASSUME SubInv, RenewsInPlans, [SubNext]_subVars
    PROVE  RenewsInPlans'
<1>1. /\ sweep.at \in {"idle", "trials", "cancels", "plans"}
      /\ sweep \in [at : {"idle", "trials", "cancels", "plans"}, due : SUBSET Ids,
                    row : Ids \cup {NoRow}]
  BY DEF SubInv, SubTypeOK
<1>2. CASE sweep' = sweep
  BY <1>2 DEF RenewsInPlans
<1>3. CASE SweepQuery
  <2>1. sweep'.row = NoRow
    BY <1>1, <1>3 DEF SweepQuery, Idle
  <2> QED
    BY <2>1 DEF RenewsInPlans
<1>4. CASE \E j \in Ids : SweepStatus(j)
  BY <1>1, <1>4 DEF SweepStatus, Idle, RenewsInPlans
<1>5. CASE \E j \in Ids : SweepPlan(j)
  BY <1>1, <1>5 DEF SweepPlan, RenewsInPlans
<1>6. CASE SweepRenew
  BY <1>1, <1>6 DEF SweepRenew, RenewsInPlans
<1>7. ASSUME NEW q \in Requests, Serve(q) PROVE sweep' = sweep
  BY <1>7
     DEF Serve, Begin, Create, Downgrade, CancelAtEnd, CancelNow, Resume, PaymentSucceeds,
         Fulfil, Acknowledge, WorkerDies
<1> QED
  BY <1>2, <1>3, <1>4, <1>5, <1>6, <1>7
     DEF SubNext, SweepStep, PeriodEnds, TrialEnds, subVars

\* The period of the row stays over: only rows whose plan was applied are renewed.
LEMMA StaysOver ==
    ASSUME SubInv, RenewsInPlans, [SubNext]_subVars, NEW i \in Ids, over[i] # 0,
           ~(sweep.at = "plans" /\ sweep.row = i)
    PROVE  over'[i] # 0
<1>1. over \in [Ids -> 0..MaxEnds] /\ clock \in 0..MaxEnds
  BY DEF SubInv, SubTypeOK
<1>2. CASE over' = over
  BY <1>2
<1>3. ASSUME NEW j \in Ids, PeriodEnds(j) PROVE over'[i] # 0
  BY <1>1, <1>3 DEF PeriodEnds
<1>4. CASE SweepRenew
  BY <1>1, <1>4 DEF SweepRenew, RenewsInPlans
<1>5. ASSUME NEW q \in Requests, Serve(q) PROVE over' = over
  BY <1>5
     DEF Serve, Begin, Create, Downgrade, CancelAtEnd, CancelNow, Resume, PaymentSucceeds,
         Fulfil, Acknowledge, WorkerDies, timeVars
<1> QED
  BY <1>2, <1>3, <1>4, <1>5
     DEF SubNext, SweepStep, SweepQuery, SweepStatus, SweepPlan, TrialEnds, subVars, timeVars

\* The command meets the row and is thrown back before it reaches the plans.
LEMMA ThrownBack ==
    ASSUME SubInv, [SubNext]_subVars, NEW i \in Ids, Hopeless(i)
    PROVE  /\ sweep'.at = "plans" => sweep.at = "plans" /\ i \notin sweep'.due \cup {sweep'.row}
           /\ sweep'.at = "cancels" => i \in sweep'.due
<1> USE DEF Hopeless, Poisoned, InHand
<1>1. sweep \in [at : {"idle", "trials", "cancels", "plans"}, due : SUBSET Ids,
                 row : Ids \cup {NoRow}]
  BY DEF SubInv, SubTypeOK
<1>2. CASE sweep' = sweep
  BY <1>2
<1>3. CASE SweepQuery
  <2>1. i \in CancelsDue
    BY DEF CancelsDue
  <2>2. sweep.at # "cancels" /\ sweep.at \in {"idle", "trials", "plans"}
    BY <1>1, <1>3 DEF SweepQuery
  <2>3. CASE sweep.at = "idle"
    BY <1>3, <2>3 DEF SweepQuery, Idle
  <2>4. CASE sweep.at = "trials"
    BY <1>3, <2>1, <2>4 DEF SweepQuery, Idle
  <2>5. CASE sweep.at = "plans"
    BY <1>3, <2>5 DEF SweepQuery, Idle
  <2> QED
    BY <2>2, <2>3, <2>4, <2>5
<1>4. ASSUME NEW j \in Ids, SweepStatus(j)
      PROVE  /\ sweep'.at # "plans"
             /\ sweep'.at = "cancels" => i \in sweep'.due
  <2>1. CASE sweep' = Idle
    BY <2>1 DEF Idle
  <2>2. CASE sweep' # Idle
    <3>1. /\ CanMove(sub[j].status, IF sweep.at = "trials" THEN "active" ELSE "cancelled")
          /\ sweep' = [sweep EXCEPT !.due = @ \ {j}]
          /\ sweep.at \in {"trials", "cancels"}
      BY <1>4, <2>2 DEF SweepStatus
    <3>2. sweep.at = "cancels" => j # i
      BY <3>1 DEF CanMove, Successors
    <3> QED
      BY <1>1, <3>1, <3>2
  <2> QED
    BY <2>1, <2>2
<1>5. ASSUME NEW j \in Ids, SweepPlan(j)
      PROVE  sweep.at = "plans" /\ sweep'.at = "plans" /\ i \notin sweep'.due \cup {sweep'.row}
  BY <1>1, <1>5 DEF SweepPlan, InOrder
<1>6. CASE SweepRenew
  <2>1. i # NoRow
    BY RowsAssumption
  <2> QED
    BY <1>1, <1>6, <2>1 DEF SweepRenew
<1>7. ASSUME NEW q \in Requests, Serve(q) PROVE sweep' = sweep
  BY <1>7
     DEF Serve, Begin, Create, Downgrade, CancelAtEnd, CancelNow, Resume, PaymentSucceeds,
         Fulfil, Acknowledge, WorkerDies
<1> QED
  BY <1>2, <1>3, <1>4, <1>5, <1>6, <1>7
     DEF SubNext, SweepStep, PeriodEnds, TrialEnds, subVars

\* A row that expired with its cancellation scheduled and its period over, and
\* that nobody has in hand, stops the command for good: no later run of
\* subscriptions:process-lifecycle begins to apply the pending plans of any
\* business.
THEOREM PoisonStays == SubSpec => PoisonIsForGood
<1>1. SubInit => RenewsInPlans
  BY DEF SubInit, Idle, RenewsInPlans
<1>2. SubInv /\ RenewsInPlans /\ [SubNext]_subVars => RenewsInPlans'
  BY StepRenewsInPlans
<1>3. SubInv /\ RenewsInPlans /\ [SubNext]_subVars
        => [\A i \in Ids : Hopeless(i) =>
              Hopeless(i)' /\ (sweep'.at = "plans" => sweep.at = "plans")]_subVars
  <2> SUFFICES ASSUME SubInv, RenewsInPlans, [SubNext]_subVars, NEW i \in Ids, Hopeless(i)
               PROVE  Hopeless(i)' /\ (sweep'.at = "plans" => sweep.at = "plans")
    OBVIOUS
  <2>1. /\ sub[i].status = "expired" /\ sub[i].scheduled /\ over[i] # 0
        /\ \A q \in Requests : ~(req[q].at = "resume" /\ req[q].seen = i)
        /\ ~(sweep.at = "plans" /\ sweep.row = i)
    BY DEF Hopeless, Poisoned, InHand
  <2>2. sub'[i].status = "expired" /\ sub'[i].scheduled
    BY <2>1, ExpiredStays
  <2>3. over'[i] # 0
    BY <2>1, StaysOver
  <2>4. \A q \in Requests : ~(req'[q].at = "resume" /\ req'[q].seen = i)
    BY <2>1, NobodyResumes
  <2>5. /\ sweep'.at = "plans" => sweep.at = "plans" /\ i \notin sweep'.due \cup {sweep'.row}
        /\ sweep'.at = "cancels" => i \in sweep'.due
    BY ThrownBack
  <2> QED
    BY <2>2, <2>3, <2>4, <2>5 DEF Hopeless, Poisoned, InHand
<1> QED
  BY SubscriptionsInvariant, <1>1, <1>2, <1>3, PTL DEF SubSpec, PoisonIsForGood
==============================================================================
