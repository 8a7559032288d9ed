---------------------------- MODULE Notifications ----------------------------
(***************************************************************************)
(* Notifications of users and the delivery of each over a provider.        *)
(*                                                                         *)
(* Two kinds of senders call notifyUser: listeners of reservation events,  *)
(* which are jobs that may run twice, and evaluations of saved searches,   *)
(* which insert an alert first and call it inside their transaction.  A    *)
(* new notification queues a delivery job.  With the redis queue that job  *)
(* is visible at once, with the database queue it is a row of the sender's *)
(* transaction.  Workers may die at any step, and a job that is reserved   *)
(* longer than retry_after is given to a second worker.                    *)
(***************************************************************************)
EXTENDS Integers, FiniteSets

CONSTANTS
    Listeners, Evaluators,
    Key,            \* Key[p]: what p would notify about, and whom
    Copies,         \* bound: copies there may be of one delivery job
    Settings,       \* [queue, cast]: a queue, "redis" or "database", and
                    \* (bound) senders that have something to send together
    Tries,          \* of a listener and of a delivery job
    MaxFaults       \* bound: workers that die or are overtaken

Senders == Listeners \cup Evaluators
Keys == {Key[p] : p \in Senders}

ASSUME SendersAssumption ==
    /\ Listeners \cap Evaluators = {} /\ DOMAIN Key = Senders
    /\ \A l \in Listeners, e \in Evaluators : Key[l] # Key[e]
ASSUME QueueAssumption ==
    /\ Settings \subseteq [queue : {"redis", "database"}, cast : SUBSET Senders]
    /\ Tries \in Nat \ {0} /\ MaxFaults \in Nat
ASSUME CopiesAssumption == IsFiniteSet(Copies) /\ Copies # {}

VARIABLES
    queue,      \* the queue that is configured
    cast,       \* the senders that have something to send
    send,       \* send[p]: [at, made, left] of sender p
    notes,      \* senders whose notification is committed; it is named after them
    alerted,    \* keys with a row in saved_search_alerts
    job,        \* job[p][c]: [at, try, held], the delivery jobs of p's notification
    delivery,   \* delivery[p]: status of its row in notification_deliveries
    sends,      \* sends[p]: how often the provider accepted it
    doubt,      \* doubt[p]: runs that died after the provider accepted, before they recorded it
    faults      \* workers that died or were overtaken

senderVars == <<send, notes, alerted>>
jobVars == <<job, delivery, sends, doubt>>
settings == <<queue, cast>>
notifyVars == <<settings, senderVars, jobVars, faults>>

NoJob == [at |-> "none", try |-> 0, held |-> FALSE]
JobAt(n) == [at |-> "queued", try |-> n, held |-> TRUE]

NotifyInit ==
    /\ \E s \in Settings : queue = s.queue /\ cast = s.cast
    /\ send = [p \in Senders |-> [at |-> "idle", made |-> FALSE, left |-> Tries]]
    /\ notes = {} /\ alerted = {}
    /\ job = [p \in Senders |-> [c \in Copies |-> NoJob]]
    /\ delivery = [p \in Senders |-> "none"]
    /\ sends = [p \in Senders |-> 0] /\ doubt = [p \in Senders |-> 0]
    /\ faults = 0

(***************************************************************************)
(* Senders.                                                                *)
(***************************************************************************)
Goes(p, at) == send' = [send EXCEPT ![p].at = at]

\* Steps of an evaluation that are inside its transaction.
InTransaction(p) == p \in Evaluators /\ send[p].at \in {"lookup", "insert", "dispatch", "commit"}

Known(p) == \E q \in notes : Key[q] = Key[p]

\* An event, which may be dispatched more than once, or a match that a
\* scheduled evaluation finds, again and again.
Start(p) ==
    /\ p \in cast /\ send[p].at = "idle"
    /\ Goes(p, IF p \in Listeners THEN "lookup" ELSE "alert")
    /\ UNCHANGED <<settings, notes, alerted, jobVars, faults>>

\* Variant: the alert is committed before the user is notified.
AlertAtOnce(p) ==
    /\ send[p].at = "alert" /\ Key[p] \notin alerted
    /\ alerted' = alerted \cup {Key[p]}
    /\ Goes(p, "lookup")
    /\ UNCHANGED <<settings, notes, jobVars, faults>>

\* notifyMatch: the insert of the alert waits for another one of the same
\* match, and ends the evaluation if that one is committed.
Alert(p) ==
    /\ send[p].at = "alert"
    /\ \A q \in Evaluators : Key[q] = Key[p] => ~InTransaction(q)
    /\ IF Key[p] \in alerted THEN Goes(p, "idle")
       ELSE Goes(p, "lookup")
    /\ UNCHANGED <<settings, notes, alerted, jobVars, faults>>

\* What follows notifyUser: a listener has finished, an evaluation commits.
After(p) == IF p \in Listeners THEN "ack" ELSE "commit"

FirstCopy == CHOOSE c \in Copies : TRUE
Queued(p) == [job EXCEPT ![p] = [c \in Copies |-> IF c = FirstCopy THEN JobAt(1)
                                                  ELSE job[p][c]]]

\* Variant: what is found without a delivery is queued once more.
LookupQueueing(p) ==
    /\ send[p].at = "lookup"
    /\ IF Known(p)
       THEN LET q == CHOOSE r \in notes : Key[r] = Key[p] IN
            /\ Goes(p, After(p))
            /\ job' = IF delivery[q] = "none" THEN Queued(q) ELSE job
       ELSE Goes(p, "insert") /\ UNCHANGED job
    /\ UNCHANGED <<settings, notes, alerted, delivery, sends, doubt, faults>>

\* notifyUser looks for a notification with the key.
Lookup(p) ==
    /\ send[p].at = "lookup"
    /\ Goes(p, IF Known(p) THEN After(p) ELSE "insert")
    /\ UNCHANGED <<settings, notes, alerted, jobVars, faults>>

\* A listener is run again while it has tries left.
Retried(s) == IF s.left = 1 THEN [s EXCEPT !.at = "failed", !.left = 0]
              ELSE [s EXCEPT !.at = "lookup", !.left = @ - 1]

\* Variant: there is no unique index.
InsertTwice(p) ==
    /\ send[p].at = "insert"
    /\ send' = [send EXCEPT ![p].at = "dispatch", ![p].made = TRUE]
    /\ notes' = IF p \in Listeners THEN notes \cup {p} ELSE notes
    /\ UNCHANGED <<settings, alerted, jobVars, faults>>

\* It inserts one.  The unique index fails the run of a listener; evaluations
\* of one key are kept apart by their alert.
Insert(p) ==
    /\ send[p].at = "insert"
    /\ IF Known(p) THEN send' = [send EXCEPT ![p] = Retried(@)] /\ UNCHANGED notes
       ELSE /\ send' = [send EXCEPT ![p].at = "dispatch", ![p].made = TRUE]
            /\ notes' = IF p \in Listeners THEN notes \cup {p} ELSE notes
    /\ UNCHANGED <<settings, alerted, jobVars, faults>>

\* dispatchExternalDeliveries, for the one channel considered here.
Dispatch(p) ==
    /\ send[p].at = "dispatch"
    /\ Goes(p, After(p))
    /\ job' = IF p \in Listeners \/ queue = "redis" THEN Queued(p) ELSE job
    /\ UNCHANGED <<settings, notes, alerted, delivery, sends, doubt, faults>>

\* The evaluation commits its alert, its notification and, when jobs are rows
\* of the database, its job.
Commit(p) ==
    /\ send[p].at = "commit"
    /\ send' = [send EXCEPT ![p].at = "idle", ![p].made = FALSE]
    /\ alerted' = alerted \cup {Key[p]}
    /\ notes' = IF send[p].made THEN notes \cup {p} ELSE notes
    /\ job' = IF send[p].made /\ queue = "database" THEN Queued(p) ELSE job
    /\ UNCHANGED <<settings, delivery, sends, doubt, faults>>

\* The worker deletes the job of a listener that has finished.
Acknowledge(p) ==
    /\ send[p].at = "ack" /\ Goes(p, "done")
    /\ UNCHANGED <<settings, notes, alerted, jobVars, faults>>

\* The worker of a sender dies.  A listener is run again; the transaction of an
\* evaluation is rolled back, and a job it had queued finds no notification.
SenderDies(p) ==
    /\ faults < MaxFaults /\ faults' = faults + 1
    /\ \/ /\ p \in Listeners /\ send[p].at \in {"lookup", "insert", "dispatch", "ack"}
          /\ send' = [send EXCEPT ![p] = Retried(@)] /\ UNCHANGED job
       \/ /\ InTransaction(p)
          /\ send' = [send EXCEPT ![p].at = "idle", ![p].made = FALSE]
          /\ job' = IF send[p].made THEN [job EXCEPT ![p] = [c \in Copies |-> NoJob]] ELSE job
    /\ UNCHANGED <<settings, notes, alerted, delivery, sends, doubt>>

\* UpdateSavedSearchAction with other filters: invalidateMatchState deletes the
\* committed alerts, so that the same match may alert again.
Invalidate(k) ==
    /\ k \in alerted /\ alerted' = alerted \ {k}
    /\ UNCHANGED <<settings, send, notes, jobVars, faults>>

(***************************************************************************)
(* DeliverNotificationJob.                                                 *)
(***************************************************************************)
JobGoes(p, c, at) == job' = [job EXCEPT ![p][c].at = at]

\* Variant: a delivery that is recorded as sent is not skipped.
LoadAgain(p, c) ==
    /\ job[p][c].at = "queued"
    /\ JobGoes(p, c, IF p \notin notes THEN "dropped" ELSE "claim")
    /\ delivery' = IF p \in notes /\ delivery[p] = "none"
                   THEN [delivery EXCEPT ![p] = "pending"] ELSE delivery
    /\ UNCHANGED <<settings, senderVars, sends, doubt, faults>>

\* Without its notification the job is dropped; otherwise it finds or creates
\* its delivery, and has nothing to do when that was sent.
Load(p, c) ==
    /\ job[p][c].at = "queued"
    /\ JobGoes(p, c, IF p \notin notes THEN "dropped"
                     ELSE IF delivery[p] = "sent" THEN "finish" ELSE "claim")
    /\ delivery' = IF p \in notes /\ delivery[p] = "none"
                   THEN [delivery EXCEPT ![p] = "pending"] ELSE delivery
    /\ UNCHANGED <<settings, senderVars, sends, doubt, faults>>

Claim(p, c) ==
    /\ job[p][c].at = "claim"
    /\ JobGoes(p, c, "call")
    /\ delivery' = [delivery EXCEPT ![p] = "processing"]
    /\ UNCHANGED <<settings, senderVars, sends, doubt, faults>>

\* The provider accepts the message, or refuses it or fails.
Call(p, c) ==
    /\ job[p][c].at = "call"
    /\ \/ JobGoes(p, c, "accepted") /\ sends' = [sends EXCEPT ![p] = @ + 1]
       \/ JobGoes(p, c, "refused") /\ UNCHANGED sends
    /\ UNCHANGED <<settings, senderVars, delivery, doubt, faults>>

\* Variant: a message that was refused is not tried again.
RecordOnce(p, c) ==
    /\ \/ /\ job[p][c].at = "accepted"
          /\ delivery' = [delivery EXCEPT ![p] = "sent"]
       \/ /\ job[p][c].at = "refused"
          /\ delivery' = [delivery EXCEPT ![p] = "failed"]
    /\ JobGoes(p, c, "finish")
    /\ UNCHANGED <<settings, senderVars, sends, doubt, faults>>

\* Variant: a refused message goes back to the queue without end.
RecordForever(p, c) ==
    /\ \/ /\ job[p][c].at = "accepted"
          /\ delivery' = [delivery EXCEPT ![p] = "sent"]
          /\ JobGoes(p, c, "finish")
       \/ /\ job[p][c].at = "refused"
          /\ delivery' = [delivery EXCEPT ![p] = "failed"]
          /\ job' = [job EXCEPT ![p][c] = JobAt(job[p][c].try + 1)]
    /\ UNCHANGED <<settings, senderVars, sends, doubt, faults>>

\* The outcome is recorded over whatever the delivery says by now, and a
\* refused message goes back to the queue while it has tries left.
Record(p, c) ==
    /\ \/ /\ job[p][c].at = "accepted"
          /\ delivery' = [delivery EXCEPT ![p] = "sent"]
          /\ JobGoes(p, c, "finish")
       \/ /\ job[p][c].at = "refused"
          /\ delivery' = [delivery EXCEPT ![p] = "failed"]
          /\ IF job[p][c].try < Tries
             THEN job' = [job EXCEPT ![p][c] = JobAt(job[p][c].try + 1)]
             ELSE JobGoes(p, c, "finish")
    /\ UNCHANGED <<settings, senderVars, sends, doubt, faults>>

\* The worker deletes the job it has finished.
Finish(p, c) ==
    /\ job[p][c].at = "finish"
    /\ JobGoes(p, c, "done")
    /\ UNCHANGED <<settings, senderVars, delivery, sends, doubt, faults>>

Running == {"claim", "call", "accepted", "refused"}

\* What the queue does with a job whose reservation ran out at try n.
Redelivered(n) == IF n < Tries THEN JobAt(n + 1)
                  ELSE [at |-> "failed", try |-> n, held |-> FALSE]

\* The worker of a delivery dies; a job it still held shows up again after
\* retry_after.
DeliveryDies(p, c) ==
    /\ faults < MaxFaults /\ faults' = faults + 1
    /\ job[p][c].at \in Running \cup {"finish"}
    /\ IF job[p][c].held THEN job' = [job EXCEPT ![p][c] = Redelivered(job[p][c].try)]
       ELSE JobGoes(p, c, "done")
    /\ doubt' = IF job[p][c].at = "accepted" THEN [doubt EXCEPT ![p] = @ + 1] ELSE doubt
    /\ UNCHANGED <<settings, senderVars, delivery, sends>>

\* retry_after (90 s) is shorter than the timeout of a worker (120 s): a slow
\* run goes on while a second worker takes a copy of the job.
Overtaken(p, c, d) ==
    /\ faults < MaxFaults /\ faults' = faults + 1
    /\ job[p][c].at \in Running /\ job[p][c].held /\ job[p][d].at = "none"
    /\ job' = [job EXCEPT ![p][c].held = FALSE, ![p][d] = Redelivered(job[p][c].try)]
    /\ UNCHANGED <<settings, senderVars, delivery, sends, doubt>>

(***************************************************************************)
(* Specification: workers keep running what is queued and started.         *)
(***************************************************************************)
SenderStep(p) ==
    Alert(p) \/ Lookup(p) \/ Insert(p) \/ Dispatch(p) \/ Commit(p) \/ Acknowledge(p)
DeliveryStep(p, c) == Load(p, c) \/ Claim(p, c) \/ Call(p, c) \/ Record(p, c) \/ Finish(p, c)

NotifyNext ==
    \/ \E p \in Senders : Start(p) \/ SenderStep(p) \/ SenderDies(p)
    \/ \E k \in Keys : Invalidate(k)
    \/ \E p \in Senders, c \in Copies :
          \/ DeliveryStep(p, c) \/ DeliveryDies(p, c)
          \/ \E d \in Copies : Overtaken(p, c, d)

NotifySpec == NotifyInit /\ [][NotifyNext]_notifyVars
NotifyFairSpec ==
    /\ NotifySpec
    /\ \A p \in Senders : WF_notifyVars(SenderStep(p))
    /\ \A p \in Senders, c \in Copies : WF_notifyVars(DeliveryStep(p, c))

(***************************************************************************)
(* Properties.                                                             *)
(***************************************************************************)
SenderState == [at : {"idle", "alert", "lookup", "insert", "dispatch", "commit", "ack",
                      "done", "failed"},
                made : BOOLEAN, left : 0..Tries]
JobState == [at : Running \cup {"none", "queued", "dropped", "finish", "done", "failed"},
             try : 0..Tries, held : BOOLEAN]

\* The type invariant.  Only evaluations hold an uncommitted notification, and
\* no job runs beyond its tries.
NotifyTypeOK ==
    /\ queue \in {"redis", "database"} /\ cast \subseteq Senders
    /\ send \in [Senders -> SenderState]
    /\ notes \subseteq Senders /\ alerted \subseteq Keys
    /\ job \in [Senders -> [Copies -> JobState]]
    /\ delivery \in [Senders -> {"none", "pending", "processing", "sent", "failed"}]
    /\ sends \in [Senders -> Nat] /\ doubt \in [Senders -> Nat]
    /\ faults \in 0..MaxFaults

\* Duplicate events, retries and repeated matches never lead to two
\* notifications with one key.
OneNotificationPerKey == \A p, q \in notes : Key[p] = Key[q] => p = q

\* One copy of its job has existed.
Single(p) == \A c, d \in Copies : job[p][c].at # "none" /\ job[p][d].at # "none" => c = d

\* The provider gets a message once, and once more for every run that died
\* before it recorded the answer of the provider: a run that died later, or
\* was refused, does not repeat what was sent.  When a job is overtaken, two
\* runs overwrite each other's status, and then any further crash may cost one
\* more message, but never more than that.
SendsExplained ==
    \A p \in Senders : /\ sends[p] <= 1 + faults
                       /\ Single(p) => sends[p] <= 1 + doubt[p]

\* The notification is in the inbox and nothing will deliver it: its sender
\* died between the insert and the dispatch, or the job ran before the commit.
Undelivered(p) ==
    /\ p \in notes /\ delivery[p] = "none" /\ send[p].at # "dispatch"
    /\ \A c \in Copies : job[p][c].at \in {"none", "dropped"}

\* Nothing makes up for it: not the retry of the sender, not a later event
\* with the same key, not a second alert for the match.
UndeliveredStays ==
    [][\A p \in Senders : Undelivered(p) => Undelivered(p)']_notifyVars

\* An alert row is never left without the notification it stands for, through
\* crashes between the two inserts: it would silence the match for ever.  With
\* the database queue it is not left without its delivery either.
AlertKeepsItsNotification ==
    /\ \A k \in alerted : \E p \in notes : Key[p] = k
    /\ queue = "database" => \A p \in Evaluators : ~Undelivered(p)

\* No copy of the delivery job is queued or running.
AtRest(p) == \A c \in Copies : job[p][c].at \in {"none", "dropped", "done", "failed"}

\* A copy went through its last try, and is over.
TriesUsedUp(p) ==
    \E c \in Copies : job[p][c].try = Tries /\ job[p][c].at \in {"done", "failed"}

\* Every committed notification comes to rest, whoever dies or is overtaken on
\* the way: no job of it is left, and the provider has accepted it, or all tries
\* have been made, or it was left undelivered.  (Its row may still say
\* "processing": an overtaken run that dies overwrites what the other run
\* recorded, and no job is left to correct it.)  What has come to rest stays so,
\* so that it is enough to find all of them at rest again and again.
DeliverySettles ==
    []<>(\A p \in notes : AtRest(p) /\ (sends[p] > 0 \/ TriesUsedUp(p) \/ Undelivered(p)))
==============================================================================
