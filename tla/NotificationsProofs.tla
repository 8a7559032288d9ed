------------------------ MODULE NotificationsProofs ------------------------
(***************************************************************************)
(* Theorems about Notifications, for every number of senders, keys, copies *)
(* and tries, every crash and every overtaken worker.                      *)
(*                                                                         *)
(* Of the senders the invariant says who may hold an uncommitted           *)
(* notification: evaluations of one key exclude each other from their      *)
(* alert to their commit, so what one of them did not find stays unknown   *)
(* until it commits (SendersRight).  Of the jobs of a notification it      *)
(* counts what they may still send (JobsRight): every copy that has not    *)
(* asked the provider yet is paid for by the first message or by a fault.  *)
(***************************************************************************)
EXTENDS Notifications, FiniteSetTheorems, TLAPS

(***************************************************************************)
(* The inductive invariant.                                                *)
(***************************************************************************)
ListenerRight(p) ==
    p \in Listeners =>
        /\ send[p].at \notin {"alert", "commit"}
        /\ send[p].made \/ send[p].at = "dispatch" => p \in notes

EvaluatorRight(p) ==
    p \in Evaluators =>
        /\ send[p].made => send[p].at \in {"dispatch", "commit"} /\ ~Known(p)
        /\ send[p].at = "dispatch" => send[p].made
        /\ send[p].at = "commit" /\ ~send[p].made => Known(p)

SendersRight ==
    /\ \A p \in Senders : /\ send[p].at # "failed" => send[p].left # 0
                         /\ ListenerRight(p) /\ EvaluatorRight(p)
    /\ \A p, q \in Evaluators :
          Key[p] = Key[q] /\ InTransaction(p) /\ InTransaction(q) => p = q

AlertsHaveNotes == \A k \in alerted : \E p \in notes : Key[p] = k

\* Nothing was asked of the provider, at most a job is queued or was dropped.
Waits(p) == /\ delivery[p] = "none" /\ sends[p] = 0 /\ doubt[p] = 0
            /\ \A c \in Copies : job[p][c].at \in {"none", "queued", "dropped"}
NothingYet(p) == Waits(p) /\ \A c \in Copies : job[p][c].at = "none"

\* Copies that may still get the provider to accept a message.
Asking == {"queued", "claim", "call", "refused"}
Open(p) == {c \in Copies : job[p][c].at \in Asking}

\* Every message but the last is in doubt[p], when one copy has existed.
Fits(at, status, n, m) ==
    /\ at \in {"claim", "call", "refused"} => status # "sent" /\ n = m
    /\ at = "accepted" => status # "sent" /\ n = m + 1
    /\ at \in {"queued", "finish", "failed", "done", "dropped"} =>
          n = IF status = "sent" THEN m + 1 ELSE m
Accounted(p) == \A c \in Copies : Fits(job[p][c].at, delivery[p], sends[p], doubt[p])

NotQueuedYet(p) ==
    \/ send[p].at = "dispatch"
    \/ p \notin notes /\ (~send[p].made \/ queue = "database")

JobsRight(p) ==
    /\ p \notin notes => Waits(p)
    /\ NotQueuedYet(p) => NothingYet(p)
    /\ (\A c \in Copies : job[p][c].at = "none") => sends[p] = 0
    /\ sends[p] + Cardinality(Open(p)) <= 1 + faults
    /\ Single(p) => Accounted(p)
    /\ queue = "database" /\ p \in Evaluators /\ p \in notes =>
          \E c \in Copies : job[p][c].at \notin {"none", "dropped"}

NotifyInv ==
    /\ NotifyTypeOK /\ SendersRight /\ OneNotificationPerKey /\ AlertsHaveNotes
    /\ \A p \in Senders : JobsRight(p)

------------------------------------------------------------------------------
(* What the steps change *)

\* Only p's state, and its notification, differ.
SenderMoves(p, s) ==
    /\ send' = [send EXCEPT ![p] = s]
    /\ s \in SenderState

LEMMA GoesMoves ==
    ASSUME NotifyTypeOK, NEW p \in Senders, NEW at, Goes(p, at),
           at \in {"idle", "alert", "lookup", "insert", "dispatch", "commit", "ack",
                   "done", "failed"}
    PROVE  SenderMoves(p, [at |-> at, made |-> send[p].made, left |-> send[p].left])
<1>1. send \in [Senders -> SenderState] /\ send[p] \in SenderState
  BY DEF NotifyTypeOK
<1>2. send' = [send EXCEPT ![p] = [send[p] EXCEPT !.at = at]]
  BY DEF Goes
<1>3. [send[p] EXCEPT !.at = at] = [at |-> at, made |-> send[p].made, left |-> send[p].left]
  BY <1>1 DEF SenderState
<1> QED
  BY <1>1, <1>2, <1>3 DEF SenderMoves, SenderState

LEMMA RetriedMoves ==
    ASSUME NotifyTypeOK, NEW p \in Senders, send[p].left # 0,
           send' = [send EXCEPT ![p] = Retried(@)]
    PROVE  \E s \in SenderState :
              /\ SenderMoves(p, s) /\ s.made = send[p].made /\ s.at \in {"lookup", "failed"}
              /\ s.at # "failed" => s.left # 0
<1>1. send \in [Senders -> SenderState] /\ send[p] \in SenderState
  BY DEF NotifyTypeOK
<1>2. Tries \in Nat /\ send[p].left \in 1..Tries
  BY <1>1, QueueAssumption DEF SenderState
<1>3. send' = [send EXCEPT ![p] = Retried(send[p])]
  OBVIOUS
<1>4. /\ Retried(send[p]) \in SenderState
      /\ Retried(send[p]).made = send[p].made
      /\ Retried(send[p]).at \in {"lookup", "failed"}
      /\ Retried(send[p]).at # "failed" => Retried(send[p]).left # 0
  <2>1. CASE send[p].left = 1
    <3>1. Retried(send[p]) = [at |-> "failed", made |-> send[p].made, left |-> 0]
      BY <1>1, <2>1 DEF Retried, SenderState
    <3> QED
      BY <1>1, <1>2, <3>1 DEF SenderState
  <2>2. CASE send[p].left # 1
    <3>1. Retried(send[p]) = [at |-> "lookup", made |-> send[p].made, left |-> send[p].left - 1]
      BY <1>1, <2>2 DEF Retried, SenderState
    <3> QED
      BY <1>1, <1>2, <2>2, <3>1 DEF SenderState
  <2> QED
    BY <2>1, <2>2
<1> QED
  BY <1>3, <1>4 DEF SenderMoves

LEMMA MadeMoves ==
    ASSUME NotifyTypeOK, NEW p \in Senders, NEW at \in {"idle", "dispatch"}, NEW m \in BOOLEAN,
           send' = [send EXCEPT ![p].at = at, ![p].made = m]
    PROVE  SenderMoves(p, [at |-> at, made |-> m, left |-> send[p].left])
<1> DEFINE s == [at |-> at, made |-> m, left |-> send[p].left]
           mid == [send EXCEPT ![p].at = at]
<1>1. send \in [Senders -> SenderState] /\ send[p] \in SenderState
  BY DEF NotifyTypeOK
<1>2. /\ mid \in [Senders -> SenderState]
      /\ mid[p] = [at |-> at, made |-> send[p].made, left |-> send[p].left]
      /\ \A q \in Senders \ {p} : mid[q] = send[q]
  BY <1>1 DEF SenderState
<1>3. send' = [mid EXCEPT ![p].made = m]
  OBVIOUS
<1> HIDE DEF mid
<1>4. send' = [mid EXCEPT ![p] = s]
  <2>1. [mid[p] EXCEPT !.made = m] = s
    BY <1>2
  <2>2. send' = [mid EXCEPT ![p] = [mid[p] EXCEPT !.made = m]]
    BY <1>3
  <2> QED
    BY <2>1, <2>2
<1>5. [mid EXCEPT ![p] = s] = [send EXCEPT ![p] = s]
  BY <1>1, <1>2
<1>6. s \in SenderState
  BY <1>1 DEF SenderState
<1> QED
  BY <1>4, <1>5, <1>6 DEF SenderMoves

\* Copy c of p's job becomes j, and no other copy changes.
JobMoves(p, c, j) ==
    /\ job' \in [Senders -> [Copies -> JobState]]
    /\ job'[p][c] = j
    /\ \A d \in Copies \ {c} : job'[p][d] = job[p][d]
    /\ \A q \in Senders \ {p} : job'[q] = job[q]

LEMMA JobSet ==
    ASSUME NotifyTypeOK, NEW p \in Senders, NEW c \in Copies, NEW j \in JobState,
           job' = [job EXCEPT ![p][c] = j]
    PROVE  JobMoves(p, c, j)
<1>1. job \in [Senders -> [Copies -> JobState]]
  BY DEF NotifyTypeOK
<1>2. job' = [job EXCEPT ![p] = [job[p] EXCEPT ![c] = j]]
  OBVIOUS
<1>3. [job[p] EXCEPT ![c] = j] \in [Copies -> JobState]
  BY <1>1
<1> QED
  BY <1>1, <1>2, <1>3 DEF JobMoves

LEMMA JobGoesMoves ==
    ASSUME NotifyTypeOK, NEW p \in Senders, NEW c \in Copies, NEW at, JobGoes(p, c, at),
           at \in Running \cup {"queued", "dropped", "finish", "done", "failed"}
    PROVE  JobMoves(p, c, [at |-> at, try |-> job[p][c].try, held |-> job[p][c].held])
<1> DEFINE j == [job[p][c] EXCEPT !.at = at]
<1>1. job \in [Senders -> [Copies -> JobState]] /\ job[p][c] \in JobState
  BY DEF NotifyTypeOK
<1>2. job' = [job EXCEPT ![p][c] = j]
  BY DEF JobGoes
<1>3. j = [at |-> at, try |-> job[p][c].try, held |-> job[p][c].held] /\ j \in JobState
  BY <1>1 DEF JobState
<1> QED
  BY <1>2, <1>3, JobSet

------------------------------------------------------------------------------
(* Senders *)

\* What the new state s of sender p has to satisfy, with the notifications N.
Allowed(p, s, N) ==
    /\ s.at # "failed" => s.left # 0
    /\ p \in Listeners => /\ s.at \notin {"alert", "commit"}
                          /\ s.made \/ s.at = "dispatch" => p \in N
    /\ p \in Evaluators =>
          /\ s.made => s.at \in {"dispatch", "commit"} /\ \A q \in N : Key[q] # Key[p]
          /\ s.at = "dispatch" => s.made
          /\ s.at = "commit" /\ ~s.made => \E q \in N : Key[q] = Key[p]
          /\ s.at \in {"lookup", "insert", "dispatch", "commit"} =>
                \A q \in Evaluators : Key[q] = Key[p] /\ InTransaction(q) => q = p

\* A notification is added by a listener, or by an evaluation that is the only
\* one of its key, and only when the key has none.
Adds(p) ==
    \/ notes' = notes
    \/ notes' = notes \cup {p} /\ ~Known(p) /\ (p \in Listeners \/ InTransaction(p))

LEMMA SenderMoved ==
    ASSUME NotifyTypeOK, SendersRight, NEW p \in Senders, NEW s, SenderMoves(p, s),
           Adds(p), Allowed(p, s, notes')
    PROVE  SendersRight'
<1>1. /\ send \in [Senders -> SenderState] /\ send'[p] = s
      /\ \A q \in Senders \ {p} : send'[q] = send[q]
      /\ notes \subseteq Senders
  BY DEF NotifyTypeOK, SenderMoves
<1>2. \A q \in Senders : (InTransaction(q))' <=>
          q \in Evaluators /\ send'[q].at \in {"lookup", "insert", "dispatch", "commit"}
  BY DEF InTransaction
<1>3. \A q \in Senders : (Known(q))' <=> \E r \in notes' : Key[r] = Key[q]
  BY DEF Known
<1>4. ASSUME NEW q \in Senders
      PROVE  /\ send'[q].at # "failed" => send'[q].left # 0
             /\ ListenerRight(q)' /\ EvaluatorRight(q)'
  <2>1. CASE q = p
    BY <1>1, <1>3, <2>1 DEF Allowed, ListenerRight, EvaluatorRight
  <2>2. CASE q # p
    <3>1. /\ send'[q] = send[q]
          /\ send[q].at # "failed" => send[q].left # 0
          /\ ListenerRight(q) /\ EvaluatorRight(q)
      BY <1>1, <2>2 DEF SendersRight
    <3>2. notes \subseteq notes'
      BY DEF Adds
    <3>3. ListenerRight(q)'
      BY <3>1, <3>2 DEF ListenerRight
    <3>4. ASSUME q \in Evaluators, send[q].made
          PROVE  ~(Known(q))'
      <4>1. InTransaction(q) /\ ~Known(q)
        BY <3>1, <3>4 DEF EvaluatorRight, InTransaction
      <4>2. CASE notes' = notes
        BY <1>3, <4>1, <4>2 DEF Known
      <4>3. CASE notes' = notes \cup {p} /\ (p \in Listeners \/ InTransaction(p))
        <5>1. Key[p] # Key[q]
          BY <2>2, <3>4, <4>1, <4>3, SendersAssumption DEF SendersRight, InTransaction
        <5> QED
          BY <1>3, <4>1, <4>3, <5>1 DEF Known
      <4> QED
        BY <4>2, <4>3 DEF Adds
    <3>5. Known(q) => (Known(q))'
      BY <1>3, <3>2 DEF Known
    <3>6. EvaluatorRight(q)'
      BY <3>1, <3>4, <3>5 DEF EvaluatorRight
    <3> QED
      BY <3>1, <3>3, <3>6
  <2> QED
    BY <2>1, <2>2
<1>5. ASSUME NEW q \in Evaluators, NEW r \in Evaluators, Key[q] = Key[r],
             (InTransaction(q))', (InTransaction(r))'
      PROVE  q = r
  <2>1. q \in Senders /\ r \in Senders
    BY DEF Senders
  <2>2. CASE q = p
    BY <1>1, <1>2, <1>5, <2>1, <2>2 DEF Allowed, InTransaction
  <2>3. CASE r = p
    BY <1>1, <1>2, <1>5, <2>1, <2>3 DEF Allowed, InTransaction
  <2>4. CASE q # p /\ r # p
    <3>1. InTransaction(q) /\ InTransaction(r)
      BY <1>1, <1>2, <1>5, <2>1, <2>4 DEF InTransaction
    <3> QED
      BY <1>5, <3>1 DEF SendersRight
  <2> QED
    BY <2>2, <2>3, <2>4
<1> QED
  BY <1>4, <1>5 DEF SendersRight

\* Every step of a sender, crashes included.
LEMMA SenderEffect ==
    ASSUME NotifyTypeOK, SendersRight, NEW p \in Senders,
           Start(p) \/ SenderStep(p) \/ SenderDies(p)
    PROVE  /\ Adds(p)
           /\ \E s \in SenderState : SenderMoves(p, s) /\ Allowed(p, s, notes')
<1> DEFINE Goal == /\ Adds(p)
                   /\ \E s \in SenderState : SenderMoves(p, s) /\ Allowed(p, s, notes')
           To(at) == [at |-> at, made |-> send[p].made, left |-> send[p].left]
<1>1. /\ send[p] \in SenderState /\ notes \subseteq Senders
      /\ ListenerRight(p) /\ EvaluatorRight(p)
      /\ send[p].at # "failed" => send[p].left # 0
      /\ p \in Listeners => p \notin Evaluators
      /\ p \in Listeners \/ p \in Evaluators
  BY SendersAssumption DEF NotifyTypeOK, SendersRight, Senders
<1>2. \A at \in {"idle", "alert", "lookup", "insert", "dispatch", "commit", "ack",
                 "done", "failed"} : To(at) \in SenderState
  BY <1>1 DEF SenderState
<1>3. InTransaction(p) => \A q \in Evaluators : Key[q] = Key[p] /\ InTransaction(q) => q = p
  BY DEF SendersRight, InTransaction
<1>4. CASE Start(p)
  <2>1. PICK at \in {"lookup", "alert"} : /\ Goes(p, at)
                                          /\ at = IF p \in Listeners THEN "lookup" ELSE "alert"
    BY <1>4 DEF Start
  <2>2. SenderMoves(p, To(at))
    BY <2>1, GoesMoves
  <2>3. Allowed(p, To(at), notes') /\ Adds(p)
    BY <1>1, <1>4, <2>1 DEF Start, Allowed, Adds, ListenerRight, EvaluatorRight
  <2> QED
    BY <1>2, <2>2, <2>3
<1>5. CASE Alert(p)
  <2>1. PICK at \in {"idle", "lookup"} : Goes(p, at)
    BY <1>5 DEF Alert
  <2>2. SenderMoves(p, To(at))
    BY <2>1, GoesMoves
  <2>3. Allowed(p, To(at), notes') /\ Adds(p)
    BY <1>1, <1>5, <2>1 DEF Alert, Allowed, Adds, ListenerRight, EvaluatorRight
  <2> QED
    BY <1>2, <2>2, <2>3
<1>6. CASE Lookup(p)
  <2>1. PICK at \in {"ack", "commit", "insert"} :
           /\ Goes(p, at)
           /\ at = IF Known(p) THEN (IF p \in Listeners THEN "ack" ELSE "commit") ELSE "insert"
    BY <1>6 DEF Lookup, After
  <2>2. SenderMoves(p, To(at))
    BY <2>1, GoesMoves
  <2>3. send[p].at = "lookup" /\ notes' = notes
    BY <1>6 DEF Lookup
  <2>4. Allowed(p, To(at), notes') /\ Adds(p)
    BY <1>1, <1>3, <2>1, <2>3
       DEF Allowed, Adds, ListenerRight, EvaluatorRight, Known, InTransaction
  <2> QED
    BY <1>2, <2>2, <2>4
<1>7. CASE Insert(p)
  <2>1. send[p].at = "insert"
    BY <1>7 DEF Insert
  <2>2. CASE Known(p)
    <3>1. PICK s \in SenderState :
             /\ SenderMoves(p, s) /\ s.made = send[p].made /\ s.at \in {"lookup", "failed"}
             /\ s.at # "failed" => s.left # 0
      BY <1>1, <1>7, <2>1, <2>2, RetriedMoves DEF Insert
    <3>2. notes' = notes
      BY <1>7, <2>2 DEF Insert
    <3>3. Allowed(p, s, notes') /\ Adds(p)
      BY <1>1, <1>3, <2>1, <3>1, <3>2
         DEF Allowed, Adds, ListenerRight, EvaluatorRight, InTransaction
    <3> QED
      BY <3>1, <3>3
  <2>3. CASE ~Known(p)
    <3> DEFINE s == [at |-> "dispatch", made |-> TRUE, left |-> send[p].left]
    <3>1. SenderMoves(p, s)
      BY <1>7, <2>3, MadeMoves DEF Insert
    <3>2. s \in SenderState
      BY <1>1 DEF SenderState
    <3>3. notes' = IF p \in Listeners THEN notes \cup {p} ELSE notes
      BY <1>7, <2>3 DEF Insert
    <3>4. Allowed(p, s, notes') /\ Adds(p)
      BY <1>1, <1>3, <2>1, <2>3, <3>3
         DEF Allowed, Adds, ListenerRight, EvaluatorRight, InTransaction, Known
    <3> QED
      BY <3>1, <3>2, <3>4
  <2> QED
    BY <2>2, <2>3
<1>8. CASE Dispatch(p)
  <2>1. PICK at \in {"ack", "commit"} :
           Goes(p, at) /\ at = IF p \in Listeners THEN "ack" ELSE "commit"
    BY <1>8 DEF Dispatch, After
  <2>2. SenderMoves(p, To(at))
    BY <2>1, GoesMoves
  <2>3. send[p].at = "dispatch" /\ notes' = notes
    BY <1>8 DEF Dispatch
  <2>4. Allowed(p, To(at), notes') /\ Adds(p)
    BY <1>1, <1>3, <2>1, <2>3
       DEF Allowed, Adds, ListenerRight, EvaluatorRight, Known, InTransaction
  <2> QED
    BY <1>2, <2>2, <2>4
<1>9. ASSUME send' = [send EXCEPT ![p].at = "idle", ![p].made = FALSE]
      PROVE  SenderMoves(p, [at |-> "idle", made |-> FALSE, left |-> send[p].left])
  BY <1>9, MadeMoves
<1>10. /\ [at |-> "idle", made |-> FALSE, left |-> send[p].left] \in SenderState
       /\ send[p].at # "failed" =>
             Allowed(p, [at |-> "idle", made |-> FALSE, left |-> send[p].left], notes')
  BY <1>1 DEF SenderState, Allowed
<1>11. CASE Commit(p)
  <2>1. p \in Evaluators /\ send[p].at = "commit"
    BY <1>1, <1>11 DEF Commit, ListenerRight
  <2>2. Adds(p)
    BY <1>1, <1>11, <2>1 DEF Commit, Adds, EvaluatorRight, InTransaction
  <2> QED
    BY <1>9, <1>10, <1>11, <2>1, <2>2 DEF Commit
<1>12. CASE Acknowledge(p)
  <2>1. SenderMoves(p, To("done")) /\ send[p].at = "ack"
    BY <1>12, GoesMoves DEF Acknowledge
  <2>2. Allowed(p, To("done"), notes') /\ Adds(p)
    BY <1>1, <1>12, <2>1 DEF Acknowledge, Allowed, Adds, ListenerRight, EvaluatorRight
  <2> QED
    BY <1>2, <2>1, <2>2
<1>13. CASE SenderDies(p)
  <2>1. notes' = notes
    BY <1>13 DEF SenderDies
  <2>2. CASE /\ p \in Listeners /\ send[p].at \in {"lookup", "insert", "dispatch", "ack"}
             /\ send' = [send EXCEPT ![p] = Retried(@)]
    <3>1. PICK s \in SenderState :
             /\ SenderMoves(p, s) /\ s.made = send[p].made /\ s.at \in {"lookup", "failed"}
             /\ s.at # "failed" => s.left # 0
      BY <1>1, <2>2, RetriedMoves
    <3>2. Allowed(p, s, notes') /\ Adds(p)
      BY <1>1, <2>1, <2>2, <3>1 DEF Allowed, Adds, ListenerRight
    <3> QED
      BY <3>1, <3>2
  <2>3. CASE /\ InTransaction(p)
             /\ send' = [send EXCEPT ![p].at = "idle", ![p].made = FALSE]
    <3>1. send[p].at # "failed"
      BY <2>3 DEF InTransaction
    <3> QED
      BY <1>9, <1>10, <2>1, <2>3, <3>1 DEF Adds
  <2> QED
    BY <1>13, <2>2, <2>3 DEF SenderDies
<1> QED
  BY <1>4, <1>5, <1>6, <1>7, <1>8, <1>11, <1>12, <1>13 DEF SenderStep

LEMMA SendersStep ==
    ASSUME NotifyInv, [NotifyNext]_notifyVars
    PROVE  SendersRight' /\ AlertsHaveNotes' /\ OneNotificationPerKey'
<1>1. OneNotificationPerKey /\ NotifyTypeOK /\ SendersRight /\ AlertsHaveNotes /\ notes \subseteq Senders
  BY DEF NotifyInv, NotifyTypeOK
<1>2. ASSUME UNCHANGED <<send, notes>>
      PROVE  SendersRight'
  BY <1>1, <1>2
     DEF SendersRight, ListenerRight, EvaluatorRight, Known, InTransaction
<1>3. ASSUME notes \subseteq notes', alerted' \subseteq alerted
      PROVE  AlertsHaveNotes'
  BY <1>1, <1>3 DEF AlertsHaveNotes
<1>4. ASSUME NEW p \in Senders, Start(p) \/ SenderStep(p) \/ SenderDies(p)
      PROVE  SendersRight' /\ AlertsHaveNotes' /\ OneNotificationPerKey'
  <2>0. OneNotificationPerKey'
    BY <1>1, <1>4, SenderEffect DEF Adds, Known, OneNotificationPerKey
  <2>1. Adds(p) /\ \E s \in SenderState : SenderMoves(p, s) /\ Allowed(p, s, notes')
    BY <1>1, <1>4, SenderEffect
  <2>2. SendersRight'
    BY <1>1, <2>1, SenderMoved
  <2>3. notes \subseteq notes'
    BY <2>1 DEF Adds
  <2>4. CASE Commit(p)
    <3>1. p \in Evaluators
      BY <1>1, <2>4, SendersAssumption DEF Commit, SendersRight, ListenerRight, Senders
    <3>2. \E q \in notes' : Key[q] = Key[p]
      BY <1>1, <2>4, <3>1 DEF Commit, SendersRight, EvaluatorRight, Known
    <3>3. alerted' = alerted \cup {Key[p]}
      BY <2>4 DEF Commit
    <3> QED
      BY <1>1, <2>0, <2>2, <2>3, <3>2, <3>3 DEF AlertsHaveNotes
  <2>5. CASE ~Commit(p)
    <3>1. alerted' = alerted
      BY <1>4, <2>5
         DEF SenderStep, Start, Alert, Lookup, Insert, Dispatch, Acknowledge, SenderDies
    <3> QED
      BY <1>3, <2>0, <2>2, <2>3, <3>1
  <2> QED
    BY <2>0, <2>4, <2>5
<1> notes' = notes => OneNotificationPerKey'
  BY <1>1 DEF OneNotificationPerKey
<1>5. ASSUME NEW k \in Keys, Invalidate(k)
      PROVE  SendersRight' /\ AlertsHaveNotes' /\ OneNotificationPerKey'
  BY <1>2, <1>3, <1>5 DEF Invalidate
<1>6. ASSUME NEW p \in Senders, NEW c \in Copies,
             DeliveryStep(p, c) \/ DeliveryDies(p, c) \/ \E d \in Copies : Overtaken(p, c, d)
      PROVE  UNCHANGED senderVars
  BY <1>6 DEF DeliveryStep, Load, Claim, Call, Record, Finish, DeliveryDies, Overtaken
<1>7. CASE UNCHANGED notifyVars
  BY <1>2, <1>3, <1>7 DEF notifyVars, senderVars
<1> QED
  BY <1>2, <1>3, <1>4, <1>5, <1>6, <1>7 DEF NotifyNext, senderVars

------------------------------------------------------------------------------
(* Jobs *)

LEMMA QueuedMoves ==
    ASSUME NotifyTypeOK, NEW p \in Senders, job' = Queued(p)
    PROVE  /\ FirstCopy \in Copies
           /\ JobMoves(p, FirstCopy, JobAt(1))
<1>1. FirstCopy \in Copies
  BY CopiesAssumption DEF FirstCopy
<1>2. job \in [Senders -> [Copies -> JobState]] /\ JobAt(1) \in JobState
  BY QueueAssumption DEF NotifyTypeOK, JobAt, JobState
<1>3. [c \in Copies |-> IF c = FirstCopy THEN JobAt(1) ELSE job[p][c]] \in [Copies -> JobState]
  BY <1>2
<1>4. job' = [job EXCEPT ![p] = [c \in Copies |-> IF c = FirstCopy THEN JobAt(1)
                                                 ELSE job[p][c]]]
  BY DEF Queued
<1> QED
  BY <1>1, <1>2, <1>3, <1>4 DEF JobMoves

\* Copies that may still ask, before and after a copy moved.
LEMMA OpenCount ==
    ASSUME NotifyTypeOK, NEW p \in Senders, NEW c \in Copies, NEW j, JobMoves(p, c, j)
    PROVE  /\ Cardinality(Open(p)) \in Nat /\ Cardinality(Open(p)') \in Nat
           /\ job[p][c].at \in Asking /\ j.at \in Asking
                 => Cardinality(Open(p)') = Cardinality(Open(p))
           /\ job[p][c].at \in Asking /\ j.at \notin Asking
                 => Cardinality(Open(p)') = Cardinality(Open(p)) - 1
           /\ job[p][c].at \notin Asking /\ j.at \in Asking
                 => Cardinality(Open(p)') = Cardinality(Open(p)) + 1
           /\ job[p][c].at \notin Asking /\ j.at \notin Asking
                 => Cardinality(Open(p)') = Cardinality(Open(p))
<1>1. Open(p)' = {d \in Copies : job'[p][d].at \in Asking}
  BY DEF Open
<1>2. /\ IsFiniteSet(Open(p)) /\ IsFiniteSet(Open(p)')
      /\ Cardinality(Open(p)) \in Nat /\ Cardinality(Open(p)') \in Nat
  BY <1>1, CopiesAssumption, FS_Subset, FS_CardinalityType DEF Open
<1>3. Open(p)' = IF j.at \in Asking THEN Open(p) \cup {c} ELSE Open(p) \ {c}
  BY <1>1 DEF Open, JobMoves
<1>4. /\ Cardinality(Open(p) \cup {c}) = IF c \in Open(p) THEN Cardinality(Open(p))
                                         ELSE Cardinality(Open(p)) + 1
      /\ Cardinality(Open(p) \ {c}) = IF c \in Open(p) THEN Cardinality(Open(p)) - 1
                                      ELSE Cardinality(Open(p))
  BY <1>2, FS_AddElement, FS_RemoveElement
<1>5. c \in Open(p) <=> job[p][c].at \in Asking
  BY DEF Open
<1> QED
  BY <1>2, <1>3, <1>4, <1>5

LEMMA OpenIsSmall ==
    ASSUME NEW p \in Senders
    PROVE  /\ Cardinality(Open(p)) \in Nat
           /\ (\A c \in Copies : job[p][c].at \notin Asking) => Cardinality(Open(p)) = 0
<1>1. IsFiniteSet(Open(p)) /\ Cardinality(Open(p)) \in Nat
  BY CopiesAssumption, FS_Subset, FS_CardinalityType DEF Open
<1>2. ASSUME \A c \in Copies : job[p][c].at \notin Asking
      PROVE  Cardinality(Open(p)) = 0
  <2>1. Open(p) = {}
    BY <1>2 DEF Open
  <2> QED
    BY <2>1, FS_EmptySet
<1> QED
  BY <1>1, <1>2

\* The jobs of a notification that a step does not touch.
LEMMA OtherJobs ==
    ASSUME NotifyTypeOK, NEW q \in Senders, JobsRight(q),
           send'[q] = send[q], job'[q] = job[q], delivery'[q] = delivery[q],
           sends'[q] = sends[q], doubt'[q] = doubt[q], q \in notes' <=> q \in notes,
           queue' = queue, faults' \in {faults, faults + 1}
    PROVE  JobsRight(q)'
<1>1. Open(q)' = Open(q)
  BY DEF Open
<1>2. Cardinality(Open(q)') = Cardinality(Open(q)) /\ Cardinality(Open(q)) \in Nat
  BY <1>1, OpenIsSmall
<1>3. sends'[q] + Cardinality(Open(q)') <= 1 + faults'
  BY <1>2 DEF JobsRight, NotifyTypeOK
<1> QED
  BY <1>3 DEF JobsRight, Waits, NothingYet, NotQueuedYet, Single, Accounted

\* A step of p that leaves its jobs alone.
LEMMA JobsLeftAlone ==
    ASSUME NotifyTypeOK, NEW p \in Senders, JobsRight(p),
           UNCHANGED <<queue, job, delivery, sends, doubt>>,
           notes \subseteq notes', faults' \in {faults, faults + 1},
           (NotQueuedYet(p))' => NotQueuedYet(p),
           queue = "database" /\ p \in Evaluators /\ p \in notes' => p \in notes
    PROVE  JobsRight(p)'
<1>1. Open(p)' = Open(p)
  BY DEF Open
<1>2. Cardinality(Open(p)') = Cardinality(Open(p)) /\ Cardinality(Open(p)) \in Nat
  BY <1>1, OpenIsSmall
<1>3. sends'[p] + Cardinality(Open(p)') <= 1 + faults'
  BY <1>2 DEF JobsRight, NotifyTypeOK
<1>4. (Waits(p) => Waits(p)') /\ (NothingYet(p) => NothingYet(p)')
      /\ (Single(p)' => Single(p)) /\ (Accounted(p) => Accounted(p)')
  BY DEF Waits, NothingYet, Single, Accounted
<1>5. (p \notin notes' => Waits(p)') /\ ((NotQueuedYet(p))' => NothingYet(p)')
      /\ (Single(p)' => Accounted(p)')
  BY <1>4 DEF JobsRight
<1>6. (queue' = "database" /\ p \in Evaluators /\ p \in notes' =>
          \E c \in Copies : job'[p][c].at \notin {"none", "dropped"})
      /\ ((\A c \in Copies : job'[p][c].at = "none") => sends'[p] = 0)
  BY DEF JobsRight
<1> QED
  BY <1>3, <1>5, <1>6 DEF JobsRight

\* A step of p that queues its delivery.
LEMMA JobsQueued ==
    ASSUME NotifyTypeOK, NEW p \in Senders, NothingYet(p), job' = Queued(p),
           UNCHANGED <<queue, delivery, sends, doubt, faults>>,
           ~(NotQueuedYet(p))'
    PROVE  JobsRight(p)'
<1>1. /\ FirstCopy \in Copies /\ JobMoves(p, FirstCopy, JobAt(1))
      /\ JobAt(1).at = "queued"
  BY QueuedMoves DEF JobAt
<1>2. /\ \A c \in Copies : job[p][c].at = "none" /\ (c # FirstCopy => job'[p][c].at = "none")
      /\ job'[p][FirstCopy].at = "queued"
      /\ delivery'[p] = "none" /\ sends'[p] = 0 /\ doubt'[p] = 0
  BY <1>1 DEF JobMoves, NothingYet, Waits
<1>3. sends'[p] + Cardinality(Open(p)') <= 1 + faults'
  <2>1. Cardinality(Open(p)) = 0
    BY <1>2, OpenIsSmall DEF Asking
  <2>2. Cardinality(Open(p)') = 1
    BY <1>1, <1>2, <2>1, OpenCount DEF Asking
  <2> QED
    BY <1>2, <2>2 DEF NotifyTypeOK
<1>4. Waits(p)' /\ Accounted(p)'
  BY <1>2 DEF Waits, Accounted, Fits
<1> QED
  BY <1>1, <1>2, <1>3, <1>4 DEF JobsRight

\* A rollback takes back the job as well.
LEMMA JobsRolledBack ==
    ASSUME NotifyTypeOK, NEW p \in Senders, JobsRight(p), p \notin notes, p \notin notes',
           job' = [job EXCEPT ![p] = [c \in Copies |-> NoJob]],
           UNCHANGED <<delivery, sends, doubt>>, faults' = faults + 1
    PROVE  JobsRight(p)'
<1>1. \A c \in Copies : job'[p][c].at = "none"
  BY DEF NotifyTypeOK, NoJob
<1>2. delivery'[p] = "none" /\ sends'[p] = 0 /\ doubt'[p] = 0
  BY DEF JobsRight, Waits
<1>3. Cardinality(Open(p)') = 0
  <2>1. Open(p)' = {}
    BY <1>1 DEF Open, Asking
  <2> QED
    BY <2>1, FS_EmptySet
<1>4. NothingYet(p)' /\ Waits(p)'
  BY <1>1, <1>2 DEF NothingYet, Waits
<1>5. Accounted(p)'
  BY <1>1 DEF Accounted, Fits
<1>6. 0 <= 1 + faults'
  BY QueueAssumption DEF NotifyTypeOK
<1> QED
  BY <1>2, <1>3, <1>4, <1>5, <1>6 DEF JobsRight

\* A run of a delivery makes copy c, which exists, into j.
LEMMA JobRuns ==
    ASSUME NotifyTypeOK, NEW p \in Senders, NEW c \in Copies, JobsRight(p),
           NEW j, JobMoves(p, c, j), p \in notes,
           UNCHANGED <<queue, send, notes>>, faults' \in {faults, faults + 1},
           job[p][c].at # "none", j.at \notin {"none", "dropped"},
           sends'[p] \in Nat,
           sends'[p] + (IF j.at \in Asking THEN 1 ELSE 0) + faults
             <= sends[p] + (IF job[p][c].at \in Asking THEN 1 ELSE 0) + faults',
           Fits(job[p][c].at, delivery[p], sends[p], doubt[p])
             => Fits(j.at, delivery'[p], sends'[p], doubt'[p])
    PROVE  JobsRight(p)'
<1>1. job'[p][c] = j /\ \A d \in Copies \ {c} : job'[p][d] = job[p][d]
  BY DEF JobMoves
<1>2. ~NotQueuedYet(p) /\ ~(NotQueuedYet(p))'
  BY DEF JobsRight, NothingYet, NotQueuedYet
<1>3. sends'[p] + Cardinality(Open(p)') <= 1 + faults'
  <2>1. sends[p] + Cardinality(Open(p)) <= 1 + faults /\ sends[p] \in Nat /\ faults \in Int
    BY DEF JobsRight, NotifyTypeOK
  <2> DEFINE m == Cardinality(Open(p))
             n == Cardinality(Open(p)')
             x == IF job[p][c].at \in Asking THEN 1 ELSE 0
             y == IF j.at \in Asking THEN 1 ELSE 0
  <2>2. m \in Nat /\ n \in Nat /\ n = m + y - x /\ x \in Int /\ y \in Int
    BY OpenCount
  <2>3. sends'[p] + y + faults <= sends[p] + x + faults'
    OBVIOUS
  <2>4. sends[p] + m <= 1 + faults
    BY <2>1
  <2> HIDE DEF m, n, x, y
  <2>5. sends'[p] + n <= 1 + faults'
    BY <2>1, <2>2, <2>3, <2>4
  <2> QED
    BY <2>5 DEF n
<1>4. ASSUME Single(p)'
      PROVE  Accounted(p)'
  <2>1. \A d \in Copies \ {c} : job'[p][d].at = "none"
    BY <1>1, <1>4 DEF Single
  <2>2. Single(p)
    BY <1>1, <2>1 DEF Single
  <2>3. Fits(j.at, delivery'[p], sends'[p], doubt'[p])
    BY <2>2 DEF JobsRight, Accounted
  <2> QED
    BY <1>1, <2>1, <2>3 DEF Accounted, Fits
<1> QED
  BY <1>1, <1>2, <1>3, <1>4 DEF JobsRight

LEMMA SenderKeepsJobs ==
    ASSUME NotifyInv, NEW p \in Senders, Start(p) \/ SenderStep(p) \/ SenderDies(p)
    PROVE  \A q \in Senders : JobsRight(q)'
<1>1. /\ NotifyTypeOK /\ SendersRight /\ JobsRight(p)
      /\ ListenerRight(p) /\ EvaluatorRight(p)
      /\ send \in [Senders -> SenderState] /\ faults \in Nat
  BY QueueAssumption DEF NotifyInv, SendersRight, NotifyTypeOK
<1>2. PICK s \in SenderState : SenderMoves(p, s)
  BY <1>1, SenderEffect
<1>3. /\ send'[p] = s /\ \A q \in Senders \ {p} : send'[q] = send[q]
      /\ notes \subseteq notes' /\ notes' \subseteq notes \cup {p}
  BY <1>1, <1>2, SenderEffect DEF SenderMoves, Adds
<1>4. /\ UNCHANGED <<queue, delivery, sends, doubt>>
      /\ faults' \in {faults, faults + 1}
      /\ \A q \in Senders \ {p} : job'[q] = job[q]
  <2>1. UNCHANGED <<queue, delivery, sends, doubt>> /\ faults' \in {faults, faults + 1}
    BY DEF SenderStep, Start, Alert, Lookup, Insert, Dispatch, Commit, Acknowledge,
           SenderDies, settings, jobVars
  <2>2. job \in [Senders -> [Copies -> JobState]]
    BY <1>1 DEF NotifyTypeOK
  <2>3. job' = job \/ job' = Queued(p) \/ job' = [job EXCEPT ![p] = [c \in Copies |-> NoJob]]
    BY DEF SenderStep, Start, Alert, Lookup, Insert, Dispatch, Commit, Acknowledge,
           SenderDies, settings, jobVars
  <2> QED
    BY <2>1, <2>2, <2>3 DEF Queued
<1>5. ASSUME NEW q \in Senders, q # p
      PROVE  JobsRight(q)'
  BY <1>1, <1>3, <1>4, <1>5, OtherJobs DEF NotifyInv
<1> SUFFICES JobsRight(p)'
  BY <1>5
<1>6. \A at : Goes(p, at) => send'[p].at = at /\ send'[p].made = send[p].made
  BY <1>1 DEF Goes, SenderState
<1>7. ASSUME UNCHANGED job, (NotQueuedYet(p))' => NotQueuedYet(p),
             queue = "database" /\ p \in Evaluators /\ p \in notes' => p \in notes
      PROVE  JobsRight(p)'
  BY <1>1, <1>3, <1>4, <1>7, JobsLeftAlone
<1>8. CASE Start(p) \/ Alert(p) \/ Lookup(p) \/ Acknowledge(p)
  <2>1. UNCHANGED <<notes, job>> /\ send'[p].at # "dispatch" /\ send'[p].made = send[p].made
    BY <1>6, <1>8 DEF Start, Alert, Lookup, Acknowledge, After, jobVars
  <2> QED
    BY <1>4, <1>7, <2>1 DEF NotQueuedYet
<1>9. CASE Insert(p)
  <2>1. send[p].at = "insert" /\ UNCHANGED job
    BY <1>9 DEF Insert, jobVars
  <2>2. CASE Known(p)
    <3>1. notes' = notes /\ send' = [send EXCEPT ![p] = Retried(send[p])]
      BY <1>9, <2>2 DEF Insert
    <3>2. send'[p].at # "dispatch" /\ send'[p].made = send[p].made
      BY <1>1, <1>9, <2>1, <2>2, <3>1, RetriedMoves DEF Insert, SendersRight, SenderMoves
    <3> QED
      BY <1>4, <1>7, <2>1, <3>1, <3>2 DEF NotQueuedYet
  <2>3. CASE ~Known(p)
    <3>1. p \notin notes
      BY <2>3 DEF Known
    <3>2. ~send[p].made
      BY <1>1, <2>1, <3>1 DEF ListenerRight, EvaluatorRight, Senders
    <3>3. NotQueuedYet(p)
      BY <3>1, <3>2 DEF NotQueuedYet
    <3>4. p \in Evaluators => notes' = notes
      BY <1>9, <2>3, SendersAssumption DEF Insert
    <3> QED
      BY <1>7, <2>1, <3>3, <3>4
  <2> QED
    BY <2>2, <2>3
<1>10. CASE Dispatch(p)
  <2>1. /\ send[p].at = "dispatch" /\ notes' = notes /\ NotQueuedYet(p)
        /\ send'[p].at = (IF p \in Listeners THEN "ack" ELSE "commit")
        /\ send'[p].made = send[p].made /\ faults' = faults
    BY <1>6, <1>10 DEF Dispatch, NotQueuedYet, After
  <2>2. CASE p \in Listeners \/ queue = "redis"
    <3>1. job' = Queued(p) /\ NothingYet(p)
      BY <1>1, <1>10, <2>1, <2>2 DEF Dispatch, JobsRight
    <3>2. ~(NotQueuedYet(p))'
      BY <1>1, <1>4, <2>1, <2>2 DEF NotQueuedYet, ListenerRight, EvaluatorRight, Senders
    <3> QED
      BY <1>1, <1>4, <2>1, <3>1, <3>2, JobsQueued
  <2>3. CASE ~(p \in Listeners \/ queue = "redis")
    <3>1. UNCHANGED job
      BY <1>10, <2>3 DEF Dispatch
    <3> QED
      BY <1>7, <2>1, <3>1
  <2> QED
    BY <2>2, <2>3
<1>11. ASSUME send' = [send EXCEPT ![p].at = "idle", ![p].made = FALSE]
       PROVE  send'[p].at = "idle" /\ ~send'[p].made
  <2>1. SenderMoves(p, [at |-> "idle", made |-> FALSE, left |-> send[p].left])
    BY <1>1, <1>11, MadeMoves
  <2> QED
    BY <1>1, <2>1 DEF SenderMoves
<1>12. CASE Commit(p)
  <2>1. /\ p \in Evaluators /\ send[p].at = "commit" /\ faults' = faults
        /\ notes' = IF send[p].made THEN notes \cup {p} ELSE notes
        /\ send'[p].at = "idle" /\ ~send'[p].made
    BY <1>1, <1>11, <1>12 DEF Commit, ListenerRight, Senders
  <2>2. CASE send[p].made /\ queue = "database"
    <3>1. p \notin notes
      BY <1>1, <2>1, <2>2 DEF EvaluatorRight, Known
    <3>2. job' = Queued(p) /\ NothingYet(p)
      BY <1>1, <1>12, <2>2, <3>1 DEF Commit, JobsRight, NotQueuedYet
    <3>3. ~(NotQueuedYet(p))'
      BY <2>1, <2>2 DEF NotQueuedYet
    <3> QED
      BY <1>1, <1>4, <2>1, <3>2, <3>3, JobsQueued
  <2>3. CASE send[p].made /\ queue # "database"
    <3>1. UNCHANGED job /\ ~(NotQueuedYet(p))'
      BY <1>12, <2>1, <2>3 DEF Commit, NotQueuedYet
    <3> QED
      BY <1>7, <2>3, <3>1
  <2>4. CASE ~send[p].made
    <3>1. UNCHANGED <<job, notes>>
      BY <1>12, <2>1, <2>4 DEF Commit
    <3>2. (NotQueuedYet(p))' => NotQueuedYet(p)
      BY <2>1, <2>4, <3>1 DEF NotQueuedYet
    <3> QED
      BY <1>7, <3>1, <3>2
  <2> QED
    BY <2>2, <2>3, <2>4
<1>13. CASE SenderDies(p)
  <2>1. notes' = notes /\ faults' = faults + 1
    BY <1>13 DEF SenderDies
  <2>2. CASE /\ p \in Listeners /\ send[p].at \in {"lookup", "insert", "dispatch", "ack"}
             /\ send' = [send EXCEPT ![p] = Retried(@)] /\ UNCHANGED job
    <3>1. send'[p].at # "dispatch" /\ send'[p].made = send[p].made
      BY <1>1, <2>2, RetriedMoves DEF SendersRight, SenderMoves
    <3> QED
      BY <1>4, <1>7, <2>1, <2>2, <3>1 DEF NotQueuedYet
  <2>3. CASE /\ InTransaction(p)
             /\ send' = [send EXCEPT ![p].at = "idle", ![p].made = FALSE]
             /\ job' = IF send[p].made THEN [job EXCEPT ![p] = [c \in Copies |-> NoJob]]
                       ELSE job
    <3>1. send'[p].at = "idle" /\ ~send'[p].made /\ p \in Evaluators
      BY <1>11, <2>3 DEF InTransaction
    <3>2. CASE send[p].made
      <4>1. p \notin notes
        BY <1>1, <3>1, <3>2 DEF EvaluatorRight, Known
      <4> QED
        BY <1>1, <1>4, <2>1, <2>3, <3>2, <4>1, JobsRolledBack
    <3>3. CASE ~send[p].made
      <4>1. (NotQueuedYet(p))' => NotQueuedYet(p)
        BY <2>1, <3>1, <3>3 DEF NotQueuedYet
      <4> QED
        BY <1>7, <2>1, <2>3, <3>3, <4>1
    <3> QED
      BY <3>2, <3>3
  <2> QED
    BY <1>13, <2>2, <2>3 DEF SenderDies
<1> QED
  BY <1>8, <1>9, <1>10, <1>12, <1>13 DEF SenderStep

\* What the queue gives out again, or gives up.
LEMMA RedeliveredState ==
    ASSUME NEW n \in 0..Tries
    PROVE  /\ Redelivered(n) \in JobState
           /\ Redelivered(n).at \in {"queued", "failed"}
<1>1. Tries \in Nat /\ Tries # 0
  BY QueueAssumption
<1>2. CASE n < Tries
  <2>1. Redelivered(n) = [at |-> "queued", try |-> n + 1, held |-> TRUE] /\ n + 1 \in 0..Tries
    BY <1>1, <1>2 DEF Redelivered, JobAt
  <2> QED
    BY <2>1 DEF JobState
<1>3. CASE ~(n < Tries)
  <2>1. Redelivered(n) = [at |-> "failed", try |-> n, held |-> FALSE]
    BY <1>3 DEF Redelivered
  <2> QED
    BY <2>1 DEF JobState
<1> QED
  BY <1>2, <1>3

LEMMA DeliveryKeepsJobs ==
    ASSUME NotifyInv, NEW p \in Senders, NEW c \in Copies,
           DeliveryStep(p, c) \/ DeliveryDies(p, c)
    PROVE  /\ \E j \in JobState : JobMoves(p, c, j)
           /\ JobsRight(p)'
<1>1. /\ NotifyTypeOK /\ JobsRight(p) /\ job[p][c] \in JobState
      /\ faults \in Nat /\ sends \in [Senders -> Nat] /\ doubt \in [Senders -> Nat]
      /\ delivery \in [Senders -> {"none", "pending", "processing", "sent", "failed"}]
  BY QueueAssumption DEF NotifyInv, NotifyTypeOK
<1> DEFINE At(at) == [at |-> at, try |-> job[p][c].try, held |-> job[p][c].held]
<1>2. \A at \in Running \cup {"dropped", "finish", "done"} :
         At(at) \in JobState /\ At(at).at = at
  BY <1>1 DEF JobState, Running
<1>3. /\ UNCHANGED <<queue, send, notes>> /\ faults' \in {faults, faults + 1}
      /\ faults \in Int
  BY <1>1 DEF DeliveryStep, DeliveryDies, Load, Claim, Call, Record, Finish, settings, senderVars
<1>4. job[p][c].at # "none" /\ (p \notin notes => job[p][c].at \in {"queued", "dropped"})
  BY <1>1 DEF DeliveryStep, DeliveryDies, Load, Claim, Call, Record, Finish, Running,
              JobsRight, Waits
<1>5. CASE Load(p, c)
  <2>1. /\ job[p][c].at = "queued" /\ UNCHANGED <<sends, doubt, faults>>
        /\ delivery' = IF p \in notes /\ delivery[p] = "none"
                       THEN [delivery EXCEPT ![p] = "pending"] ELSE delivery
    BY <1>5 DEF Load
  <2>2. CASE p \notin notes
    <3>1. JobMoves(p, c, At("dropped")) /\ At("dropped").at = "dropped"
      BY <1>1, <1>2, <1>5, <2>2, JobGoesMoves DEF Load
    <3> HIDE DEF At
    <3>2. /\ ~(NotQueuedYet(p))'
          /\ delivery'[p] = "none" /\ sends'[p] = 0 /\ doubt'[p] = 0 /\ p \notin notes'
      BY <1>1, <1>3, <2>1, <2>2 DEF JobsRight, Waits, NothingYet, NotQueuedYet
    <3>3. Waits(p)' /\ Accounted(p)'
      BY <1>1, <2>2, <3>1, <3>2 DEF JobMoves, JobsRight, Waits, Accounted, Fits
    <3>4. 0 + Cardinality(Open(p)') <= 1 + faults'
      <4>1. Cardinality(Open(p)) <= 1 + faults /\ Cardinality(Open(p)) \in Nat
        BY <1>1, <2>2, OpenIsSmall DEF JobsRight, Waits
      <4>2. Cardinality(Open(p)') = Cardinality(Open(p)) - 1
        BY <1>1, <2>1, <3>1, OpenCount DEF Asking
      <4> QED
        BY <1>1, <2>1, <4>1, <4>2
    <3>5. JobsRight(p)'
      BY <3>2, <3>3, <3>4 DEF JobsRight
    <3> QED
      BY <1>2, <3>1, <3>5
  <2>3. CASE p \in notes
    <3>1. PICK at \in {"finish", "claim"} :
             JobMoves(p, c, At(at)) /\ at = IF delivery[p] = "sent" THEN "finish" ELSE "claim"
      BY <1>1, <1>5, <2>3, JobGoesMoves DEF Load, Running
    <3>2. At(at).at = at /\ At(at) \in JobState
      BY <1>2 DEF Running
    <3> HIDE DEF At
    <3>3. Fits("queued", delivery[p], sends[p], doubt[p])
             => Fits(at, delivery'[p], sends'[p], doubt'[p])
      BY <1>1, <2>1, <3>1 DEF Fits
    <3>4. sends'[p] + (IF at \in Asking THEN 1 ELSE 0) + faults
             <= sends[p] + (IF job[p][c].at \in Asking THEN 1 ELSE 0) + faults'
      BY <1>1, <2>1 DEF Asking
    <3>5. JobsRight(p)'
      BY <1>1, <1>3, <1>4, <2>1, <2>3, <3>1, <3>2, <3>3, <3>4, JobRuns
    <3> QED
      BY <3>1, <3>2, <3>5
  <2> QED
    BY <2>2, <2>3
<1>6. CASE Claim(p, c)
  <2>1. /\ job[p][c].at = "claim" /\ UNCHANGED <<sends, doubt, faults>>
        /\ delivery' = [delivery EXCEPT ![p] = "processing"]
        /\ JobMoves(p, c, At("call"))
    BY <1>1, <1>6, JobGoesMoves DEF Claim, Running
  <2>2. At("call").at = "call" /\ At("call") \in JobState
    BY <1>2 DEF Running
  <2> HIDE DEF At
  <2>3. Fits("claim", delivery[p], sends[p], doubt[p])
           => Fits("call", delivery'[p], sends'[p], doubt'[p])
    BY <1>1, <2>1 DEF Fits
  <2>4. sends'[p] + 1 + faults <= sends[p] + 1 + faults'
    BY <1>1, <2>1
  <2>5. JobsRight(p)'
    BY <1>1, <1>3, <1>4, <2>1, <2>2, <2>3, <2>4, JobRuns DEF Asking
  <2> QED
    BY <2>1, <2>2, <2>5
<1>7. CASE Call(p, c)
  <2>1. job[p][c].at = "call" /\ UNCHANGED <<delivery, doubt, faults>>
    BY <1>7 DEF Call
  <2>2. PICK at \in {"accepted", "refused"} :
           /\ JobMoves(p, c, At(at))
           /\ sends' = IF at = "accepted" THEN [sends EXCEPT ![p] = sends[p] + 1] ELSE sends
    BY <1>1, <1>7, JobGoesMoves DEF Call, Running
  <2>3. At(at).at = at /\ At(at) \in JobState
    BY <1>2 DEF Running
  <2> HIDE DEF At
  <2>4. Fits("call", delivery[p], sends[p], doubt[p])
           => Fits(at, delivery'[p], sends'[p], doubt'[p])
    BY <1>1, <2>1, <2>2 DEF Fits
  <2>5. sends'[p] + (IF at \in Asking THEN 1 ELSE 0) + faults <= sends[p] + 1 + faults'
        /\ sends'[p] \in Nat
    BY <1>1, <2>1, <2>2 DEF Asking
  <2>6. JobsRight(p)'
    BY <1>1, <1>3, <1>4, <2>1, <2>2, <2>3, <2>4, <2>5, JobRuns DEF Asking
  <2> QED
    BY <2>2, <2>3, <2>6
<1>8. CASE Record(p, c)
  <2>1. UNCHANGED <<sends, doubt, faults>>
    BY <1>8 DEF Record
  <2>2. \E j \in JobState :
           /\ JobMoves(p, c, j)
           /\ \/ /\ job[p][c].at = "accepted" /\ delivery' = [delivery EXCEPT ![p] = "sent"]
                 /\ j.at = "finish"
              \/ /\ job[p][c].at = "refused" /\ delivery' = [delivery EXCEPT ![p] = "failed"]
                 /\ j.at \in {"queued", "finish"}
    <3>1. CASE JobGoes(p, c, "finish")
      <4>1. JobMoves(p, c, At("finish"))
        BY <1>1, <3>1, JobGoesMoves
      <4>2. At("finish") \in JobState /\ At("finish").at = "finish"
        BY <1>2
      <4> HIDE DEF At
      <4>3. \/ job[p][c].at = "accepted" /\ delivery' = [delivery EXCEPT ![p] = "sent"]
            \/ job[p][c].at = "refused" /\ delivery' = [delivery EXCEPT ![p] = "failed"]
        BY <1>8 DEF Record
      <4> QED
        BY <4>1, <4>2, <4>3
    <3>2. CASE ~JobGoes(p, c, "finish")
      <4> DEFINE j == JobAt(job[p][c].try + 1)
      <4>1. /\ job' = [job EXCEPT ![p][c] = j] /\ job[p][c].try < Tries
            /\ job[p][c].at = "refused" /\ delivery' = [delivery EXCEPT ![p] = "failed"]
        BY <1>8, <3>2 DEF Record
      <4>2. j \in JobState /\ j.at = "queued"
        <5>1. job[p][c].try + 1 \in 0..Tries
          BY <1>1, <4>1, QueueAssumption DEF JobState
        <5> QED
          BY <5>1 DEF JobAt, JobState
      <4> HIDE DEF j
      <4>3. JobMoves(p, c, j)
        BY <1>1, <4>1, <4>2, JobSet
      <4> QED
        BY <4>1, <4>2, <4>3
    <3> QED
      BY <3>1, <3>2
  <2>3. PICK j \in JobState :
           /\ JobMoves(p, c, j)
           /\ \/ /\ job[p][c].at = "accepted" /\ delivery' = [delivery EXCEPT ![p] = "sent"]
                 /\ j.at = "finish"
              \/ /\ job[p][c].at = "refused" /\ delivery' = [delivery EXCEPT ![p] = "failed"]
                 /\ j.at \in {"queued", "finish"}
    BY <2>2
  <2>4. Fits(job[p][c].at, delivery[p], sends[p], doubt[p])
           => Fits(j.at, delivery'[p], sends'[p], doubt'[p])
    BY <1>1, <2>1, <2>3 DEF Fits
  <2>5. sends'[p] + (IF j.at \in Asking THEN 1 ELSE 0) + faults
           <= sends[p] + (IF job[p][c].at \in Asking THEN 1 ELSE 0) + faults'
    BY <1>1, <2>1, <2>3 DEF Asking
  <2>6. JobsRight(p)'
    BY <1>1, <1>3, <1>4, <2>1, <2>3, <2>4, <2>5, JobRuns
  <2> QED
    BY <2>3, <2>6
<1>9. CASE Finish(p, c)
  <2>1. /\ job[p][c].at = "finish" /\ UNCHANGED <<delivery, sends, doubt, faults>>
        /\ JobMoves(p, c, At("done"))
    BY <1>1, <1>9, JobGoesMoves DEF Finish
  <2>2. At("done").at = "done" /\ At("done") \in JobState
    BY <1>2
  <2> HIDE DEF At
  <2>3. Fits("finish", delivery[p], sends[p], doubt[p])
           => Fits("done", delivery'[p], sends'[p], doubt'[p])
    BY <1>1, <2>1 DEF Fits
  <2>4. sends'[p] + 0 + faults <= sends[p] + 0 + faults'
    BY <1>1, <2>1
  <2>5. JobsRight(p)'
    BY <1>1, <1>3, <1>4, <2>1, <2>2, <2>3, <2>4, JobRuns DEF Asking
  <2> QED
    BY <2>1, <2>2, <2>5
<1>10. CASE DeliveryDies(p, c)
  <2>1. /\ job[p][c].at \in Running \cup {"finish"} /\ UNCHANGED <<delivery, sends>>
        /\ faults' = faults + 1
        /\ doubt' = IF job[p][c].at = "accepted" THEN [doubt EXCEPT ![p] = doubt[p] + 1]
                    ELSE doubt
    BY <1>10 DEF DeliveryDies
  <2>2. PICK j \in JobState : JobMoves(p, c, j) /\ j.at \in {"queued", "failed", "done"}
    <3>1. CASE job[p][c].held
      <4> DEFINE j == Redelivered(job[p][c].try)
      <4>1. job' = [job EXCEPT ![p][c] = j]
        BY <1>10, <3>1 DEF DeliveryDies
      <4>2. j \in JobState /\ j.at \in {"queued", "failed"}
        BY <1>1, RedeliveredState DEF JobState
      <4> HIDE DEF j
      <4>3. JobMoves(p, c, j)
        BY <1>1, <4>1, <4>2, JobSet
      <4> QED
        BY <4>2, <4>3
    <3>2. CASE ~job[p][c].held
      <4>1. JobMoves(p, c, At("done")) /\ At("done").at = "done" /\ At("done") \in JobState
        BY <1>1, <1>2, <1>10, <3>2, JobGoesMoves DEF DeliveryDies
      <4> HIDE DEF At
      <4> QED
        BY <4>1
    <3> QED
      BY <3>1, <3>2
  <2>3. Fits(job[p][c].at, delivery[p], sends[p], doubt[p])
           => Fits(j.at, delivery'[p], sends'[p], doubt'[p])
    BY <1>1, <2>1, <2>2 DEF Fits, Running
  <2>4. sends'[p] + (IF j.at \in Asking THEN 1 ELSE 0) + faults
           <= sends[p] + (IF job[p][c].at \in Asking THEN 1 ELSE 0) + faults'
    BY <1>1, <2>1 DEF Asking
  <2>5. p \in notes
    BY <1>4, <2>1 DEF Running
  <2>6. JobsRight(p)'
    BY <1>1, <1>3, <1>4, <2>1, <2>2, <2>3, <2>4, <2>5, JobRuns
  <2> QED
    BY <2>2, <2>6
<1> QED
  BY <1>5, <1>6, <1>7, <1>8, <1>9, <1>10 DEF DeliveryStep

LEMMA OvertakenKeepsJobs ==
    ASSUME NotifyInv, NEW p \in Senders, NEW c \in Copies, NEW d \in Copies, Overtaken(p, c, d)
    PROVE  /\ job' \in [Senders -> [Copies -> JobState]]
           /\ \A q \in Senders \ {p} : job'[q] = job[q]
           /\ JobsRight(p)'
<1>1. /\ NotifyTypeOK /\ JobsRight(p) /\ job \in [Senders -> [Copies -> JobState]]
      /\ job[p] \in [Copies -> JobState] /\ job[p][c] \in JobState
      /\ faults \in Nat /\ sends[p] \in Nat
  BY QueueAssumption DEF NotifyInv, NotifyTypeOK
<1>2. /\ UNCHANGED <<queue, send, notes, delivery, sends, doubt>> /\ faults' = faults + 1
      /\ job[p][c].at \in Running /\ job[p][d].at = "none" /\ c # d
  BY DEF Overtaken, Running, settings, senderVars
<1> DEFINE j == [job[p][c] EXCEPT !.held = FALSE]
           k == Redelivered(job[p][c].try)
           mid == [job EXCEPT ![p][c].held = FALSE]
<1>3. j \in JobState /\ j.at = job[p][c].at /\ k \in JobState /\ k.at \in {"queued", "failed"}
  BY <1>1, RedeliveredState DEF JobState
<1>4. /\ mid \in [Senders -> [Copies -> JobState]]
      /\ mid[p][c] = j /\ \A e \in Copies \ {c} : mid[p][e] = job[p][e]
      /\ \A q \in Senders \ {p} : mid[q] = job[q]
  <2>1. mid = [job EXCEPT ![p] = [job[p] EXCEPT ![c] = j]]
    OBVIOUS
  <2>2. [job[p] EXCEPT ![c] = j] \in [Copies -> JobState]
    BY <1>1, <1>3
  <2> HIDE DEF j, mid
  <2> QED
    BY <1>1, <2>1, <2>2
<1>5. job' = [mid EXCEPT ![p][d] = k]
  BY DEF Overtaken
<1> HIDE DEF j, k, mid
<1>6. /\ job' \in [Senders -> [Copies -> JobState]]
      /\ job'[p][d] = k /\ \A e \in Copies \ {d} : job'[p][e] = mid[p][e]
      /\ \A q \in Senders \ {p} : job'[q] = mid[q]
  <2>1. job' = [mid EXCEPT ![p] = [mid[p] EXCEPT ![d] = k]]
    BY <1>5
  <2>2. [mid[p] EXCEPT ![d] = k] \in [Copies -> JobState]
    BY <1>3, <1>4
  <2> QED
    BY <1>4, <2>1, <2>2
<1>7. /\ job'[p][d].at \in {"queued", "failed"}
      /\ \A e \in Copies \ {d} : job'[p][e].at = job[p][e].at
  BY <1>2, <1>3, <1>4, <1>6
<1>8. sends'[p] + Cardinality(Open(p)') <= 1 + faults'
  <2>1. Open(p)' = Open(p) \/ Open(p)' = Open(p) \cup {d}
    <3>1. Open(p)' = {e \in Copies : job'[p][e].at \in Asking}
      BY DEF Open
    <3>2. d \notin Open(p)
      BY <1>2 DEF Open, Asking
    <3> QED
      BY <1>7, <3>1, <3>2 DEF Open
  <2>2. IsFiniteSet(Open(p)) /\ Cardinality(Open(p)) \in Nat
    BY CopiesAssumption, FS_Subset, FS_CardinalityType DEF Open
  <2>3. Cardinality(Open(p)') \in Nat /\ Cardinality(Open(p)') <= Cardinality(Open(p)) + 1
    <3>1. Cardinality(Open(p) \cup {d}) \in {Cardinality(Open(p)), Cardinality(Open(p)) + 1}
      BY <2>2, FS_AddElement
    <3> QED
      BY <2>1, <2>2, <3>1
  <2> QED
    BY <1>1, <1>2, <2>2, <2>3 DEF JobsRight
<1>9. ~Single(p)'
  BY <1>2, <1>7 DEF Single, Running
<1>10. p \in notes /\ ~NotQueuedYet(p)
  BY <1>1, <1>2 DEF JobsRight, Waits, NothingYet, Running
<1>11. ~(NotQueuedYet(p))'
  BY <1>2, <1>10 DEF NotQueuedYet
<1>12. JobsRight(p)'
  BY <1>2, <1>7, <1>8, <1>9, <1>10, <1>11 DEF JobsRight, Running
<1> QED
  BY <1>4, <1>6, <1>12

------------------------------------------------------------------------------
(* The inductive invariant *)

LEMMA NotifyInitHolds == NotifyInit => NotifyInv
<1> SUFFICES ASSUME NotifyInit PROVE NotifyInv
  OBVIOUS
<1>1. /\ \A p \in Senders : /\ send[p] = [at |-> "idle", made |-> FALSE, left |-> Tries]
                            /\ delivery[p] = "none" /\ sends[p] = 0 /\ doubt[p] = 0
                            /\ \A c \in Copies : job[p][c] = NoJob
      /\ notes = {} /\ alerted = {} /\ faults = 0
  BY DEF NotifyInit
<1>2. NotifyTypeOK
  <2>1. [at |-> "idle", made |-> FALSE, left |-> Tries] \in SenderState /\ NoJob \in JobState
    BY QueueAssumption DEF SenderState, JobState, NoJob
  <2> QED
    BY <2>1, QueueAssumption DEF NotifyInit, NotifyTypeOK
<1>3. SendersRight /\ AlertsHaveNotes /\ OneNotificationPerKey
  <2>1. \A p \in Evaluators : p \in Senders /\ ~InTransaction(p)
    BY <1>1 DEF InTransaction, Senders
  <2> QED
    BY <1>1, <2>1, QueueAssumption
       DEF SendersRight, ListenerRight, EvaluatorRight, AlertsHaveNotes, OneNotificationPerKey
<1>4. ASSUME NEW p \in Senders
      PROVE  JobsRight(p)
  <2>1. \A c \in Copies : job[p][c].at = "none"
    BY <1>1 DEF NoJob
  <2>2. Cardinality(Open(p)) = 0
    BY <2>1, OpenIsSmall DEF Asking
  <2> QED
    BY <1>1, <2>1, <2>2 DEF JobsRight, Waits, NothingYet, Accounted, Fits
<1> QED
  BY <1>2, <1>3, <1>4 DEF NotifyInv

LEMMA JobsStep ==
    ASSUME NotifyInv, [NotifyNext]_notifyVars
    PROVE  \A q \in Senders : JobsRight(q)'
<1>1. NotifyTypeOK /\ faults \in Nat /\ \A q \in Senders : JobsRight(q)
  BY QueueAssumption DEF NotifyInv, NotifyTypeOK
<1>2. ASSUME NEW p \in Senders, Start(p) \/ SenderStep(p) \/ SenderDies(p)
      PROVE  \A q \in Senders : JobsRight(q)'
  BY <1>2, SenderKeepsJobs
<1>3. ASSUME UNCHANGED <<queue, send, notes, jobVars, faults>>
      PROVE  \A q \in Senders : JobsRight(q)'
  BY <1>1, <1>3, OtherJobs DEF jobVars
<1>4. ASSUME NEW k \in Keys, Invalidate(k)
      PROVE  \A q \in Senders : JobsRight(q)'
  BY <1>3, <1>4 DEF Invalidate, settings
<1>5. ASSUME NEW p \in Senders, NEW c \in Copies,
             DeliveryStep(p, c) \/ DeliveryDies(p, c) \/ \E d \in Copies : Overtaken(p, c, d)
      PROVE  \A q \in Senders : JobsRight(q)'
  <2>1. JobsRight(p)' /\ \A q \in Senders \ {p} : job'[q] = job[q]
    BY <1>5, DeliveryKeepsJobs, OvertakenKeepsJobs DEF JobMoves
  <2>2. /\ UNCHANGED <<queue, send, notes>> /\ faults' \in {faults, faults + 1}
        /\ \A q \in Senders \ {p} : /\ delivery'[q] = delivery[q]
                                    /\ sends'[q] = sends[q] /\ doubt'[q] = doubt[q]
    BY <1>1, <1>5 DEF DeliveryStep, DeliveryDies, Overtaken, Load, Claim, Call, Record, Finish,
                      settings, senderVars, NotifyTypeOK
  <2>3. ASSUME NEW q \in Senders, q # p
        PROVE  JobsRight(q)'
    BY <1>1, <2>1, <2>2, <2>3, OtherJobs
  <2> QED
    BY <2>1, <2>3
<1>6. CASE UNCHANGED notifyVars
  BY <1>3, <1>6 DEF notifyVars, settings, senderVars
<1> QED
  BY <1>2, <1>4, <1>5, <1>6 DEF NotifyNext

LEMMA TypesStep ==
    ASSUME NotifyInv, [NotifyNext]_notifyVars
    PROVE  NotifyTypeOK'
<1>1. /\ NotifyTypeOK /\ SendersRight
      /\ queue \in {"redis", "database"} /\ cast \subseteq Senders
      /\ send \in [Senders -> SenderState]
      /\ notes \subseteq Senders /\ alerted \subseteq Keys
      /\ job \in [Senders -> [Copies -> JobState]]
      /\ delivery \in [Senders -> {"none", "pending", "processing", "sent", "failed"}]
      /\ sends \in [Senders -> Nat] /\ doubt \in [Senders -> Nat]
      /\ faults \in 0..MaxFaults
  BY DEF NotifyInv, NotifyTypeOK
<1>2. ASSUME NEW p \in Senders, Start(p) \/ SenderStep(p) \/ SenderDies(p)
      PROVE  NotifyTypeOK'
  <2>1. send' \in [Senders -> SenderState] /\ notes' \subseteq Senders
    BY <1>1, <1>2, SenderEffect DEF SenderMoves, Adds
  <2>2. alerted' \subseteq Keys
    BY <1>1, <1>2 DEF SenderStep, Start, Alert, Lookup, Insert, Dispatch, Commit, Acknowledge,
                      SenderDies, Keys
  <2>3. job' \in [Senders -> [Copies -> JobState]]
    <3>1. \/ job' = job \/ job' = Queued(p)
          \/ job' = [job EXCEPT ![p] = [c \in Copies |-> NoJob]]
      BY <1>2 DEF SenderStep, Start, Alert, Lookup, Insert, Dispatch, Commit, Acknowledge,
                  SenderDies, jobVars
    <3>2. job' = Queued(p) => job' \in [Senders -> [Copies -> JobState]]
      BY <1>1, QueuedMoves DEF JobMoves
    <3>3. NoJob \in JobState
      BY QueueAssumption DEF NoJob, JobState
    <3>4. [c \in Copies |-> NoJob] \in [Copies -> JobState]
      BY <3>3
    <3> QED
      BY <1>1, <3>1, <3>2, <3>4
  <2>4. UNCHANGED <<queue, cast, delivery, sends, doubt>>
    BY <1>2 DEF SenderStep, Start, Alert, Lookup, Insert, Dispatch, Commit, Acknowledge,
                SenderDies, settings, jobVars
  <2>5. faults' \in 0..MaxFaults
    BY <1>1, <1>2, QueueAssumption
       DEF SenderStep, Start, Alert, Lookup, Insert, Dispatch, Commit, Acknowledge, SenderDies
  <2> QED
    BY <1>1, <2>1, <2>2, <2>3, <2>4, <2>5 DEF NotifyTypeOK
<1>3. ASSUME NEW k \in Keys, Invalidate(k)
      PROVE  NotifyTypeOK'
  BY <1>1, <1>3 DEF Invalidate, NotifyTypeOK, settings, jobVars
<1>4. ASSUME NEW p \in Senders, NEW c \in Copies,
             DeliveryStep(p, c) \/ DeliveryDies(p, c) \/ \E d \in Copies : Overtaken(p, c, d)
      PROVE  NotifyTypeOK'
  <2>1. job' \in [Senders -> [Copies -> JobState]]
    BY <1>4, DeliveryKeepsJobs, OvertakenKeepsJobs DEF JobMoves
  <2>2. UNCHANGED <<queue, cast, send, notes, alerted>>
    BY <1>4 DEF DeliveryStep, DeliveryDies, Overtaken, Load, Claim, Call, Record, Finish,
                settings, senderVars
  <2>3. delivery' \in [Senders -> {"none", "pending", "processing", "sent", "failed"}]
    BY <1>1, <1>4 DEF DeliveryStep, DeliveryDies, Overtaken, Load, Claim, Call, Record, Finish
  <2>4. sends' \in [Senders -> Nat] /\ doubt' \in [Senders -> Nat]
    BY <1>1, <1>4 DEF DeliveryStep, DeliveryDies, Overtaken, Load, Claim, Call, Record, Finish
  <2>5. faults' \in 0..MaxFaults
    BY <1>1, <1>4, QueueAssumption
       DEF DeliveryStep, DeliveryDies, Overtaken, Load, Claim, Call, Record, Finish
  <2> QED
    BY <1>1, <2>1, <2>2, <2>3, <2>4, <2>5 DEF NotifyTypeOK
<1>5. CASE UNCHANGED notifyVars
  BY <1>1, <1>5 DEF notifyVars, settings, senderVars, jobVars, NotifyTypeOK
<1> QED
  BY <1>2, <1>3, <1>4, <1>5 DEF NotifyNext

------------------------------------------------------------------------------
(* Theorems *)

\* The strengthening the other theorems follow from.
THEOREM NotifyInvariant == NotifySpec => []NotifyInv
<1>1. NotifyInv /\ [NotifyNext]_notifyVars => NotifyInv'
  BY TypesStep, SendersStep, JobsStep DEF NotifyInv
<1> QED
  BY NotifyInitHolds, <1>1, PTL DEF NotifySpec

\* The types of senders, notifications and delivery jobs: DeliverNotificationJob
\* never runs beyond its tries.
THEOREM NotifyTypeCorrect == NotifySpec => []NotifyTypeOK
<1>1. NotifyInv => NotifyTypeOK
  BY DEF NotifyInv
<1> QED
  BY NotifyInvariant, <1>1, PTL

\* NotificationService::notifyUser: the lookup, the unique index and the row of
\* the alert together leave one notification per key.
THEOREM KeysAreUnique == NotifySpec => []OneNotificationPerKey
<1>1. NotifyInv => OneNotificationPerKey
  BY DEF NotifyInv
<1> QED
  BY NotifyInvariant, <1>1, PTL

\* SavedSearchAlertService::notifyMatch: the alert and its notification are one
\* transaction, and with the database queue the delivery belongs to it too.
THEOREM AlertsAreNotSilent == NotifySpec => []AlertKeepsItsNotification
<1>1. NotifyInv => AlertKeepsItsNotification
  <2> SUFFICES ASSUME NotifyInv PROVE AlertKeepsItsNotification
    OBVIOUS
  <2>1. ASSUME queue = "database", NEW p \in Evaluators
        PROVE  ~Undelivered(p)
    BY <2>1 DEF NotifyInv, JobsRight, Undelivered, Senders
  <2> QED
    BY <2>1 DEF NotifyInv, AlertsHaveNotes, AlertKeepsItsNotification
<1> QED
  BY NotifyInvariant, <1>1, PTL

\* DeliverNotificationJob: how many messages crashes and overtaken workers may
\* cost, the delivery row being the only memory of what was sent.
THEOREM SendsAreExplained == NotifySpec => []SendsExplained
<1>1. NotifyInv => SendsExplained
  <2> SUFFICES ASSUME NotifyInv, NEW p \in Senders
               PROVE  sends[p] <= 1 + faults /\ (Single(p) => sends[p] <= 1 + doubt[p])
    BY DEF SendsExplained
  <2>1. /\ JobsRight(p) /\ sends[p] \in Nat /\ doubt[p] \in Nat /\ faults \in Nat
        /\ job \in [Senders -> [Copies -> JobState]]
    BY QueueAssumption DEF NotifyInv, NotifyTypeOK
  <2>2. sends[p] <= 1 + faults
    BY <2>1, OpenIsSmall DEF JobsRight
  <2>3. ASSUME Single(p)
        PROVE  sends[p] <= 1 + doubt[p]
    <3>1. CASE \A c \in Copies : job[p][c].at = "none"
      BY <2>1, <3>1 DEF JobsRight
    <3>2. CASE \E c \in Copies : job[p][c].at # "none"
      <4>1. PICK c \in Copies : job[p][c].at # "none"
        BY <3>2
      <4>2. job[p][c].at \in Running \cup {"queued", "dropped", "finish", "done", "failed"}
        <5>1. job[p][c] \in JobState
          BY <2>1
        <5> QED
          BY <4>1, <5>1 DEF JobState
      <4>3. Fits(job[p][c].at, delivery[p], sends[p], doubt[p])
        BY <2>1, <2>3 DEF JobsRight, Accounted
      <4> QED
        BY <2>1, <4>2, <4>3 DEF Fits, Running
    <3> QED
      BY <3>1, <3>2
  <2> QED
    BY <2>2, <2>3
<1> QED
  BY NotifyInvariant, <1>1, PTL

\* NotificationService::notifyUser returns the notification it finds and never
\* asks whether a delivery was queued for it.
THEOREM UndeliveredForGood == NotifySpec => UndeliveredStays
<1>1. NotifyInv /\ [NotifyNext]_notifyVars
        => [\A p \in Senders : Undelivered(p) => Undelivered(p)']_notifyVars
  <2> SUFFICES ASSUME NotifyInv, NotifyNext, NEW p \in Senders, Undelivered(p)
               PROVE  Undelivered(p)'
    OBVIOUS
  <2>1. /\ NotifyTypeOK /\ SendersRight /\ p \in notes /\ delivery[p] = "none"
        /\ send[p].at # "dispatch"
        /\ \A c \in Copies : job[p][c].at \in {"none", "dropped"}
        /\ job \in [Senders -> [Copies -> JobState]]
        /\ send \in [Senders -> SenderState]
        /\ delivery \in [Senders -> {"none", "pending", "processing", "sent", "failed"}]
    BY DEF NotifyInv, Undelivered, NotifyTypeOK
  <2>2. Known(p) /\ ListenerRight(p) /\ EvaluatorRight(p) /\ (p \in Evaluators => ~send[p].made)
    BY <2>1 DEF SendersRight, EvaluatorRight, Known
  <2>3. ASSUME NEW q \in Senders, Start(q) \/ SenderStep(q) \/ SenderDies(q)
        PROVE  Undelivered(p)'
    <3>1. PICK s \in SenderState : SenderMoves(q, s)
      BY <2>1, <2>3, SenderEffect
    <3>2. p \in notes' /\ delivery' = delivery
      BY <2>1, <2>3, SenderEffect
         DEF Adds, SenderStep, Start, Alert, Lookup, Insert, Dispatch, Commit, Acknowledge,
             SenderDies, jobVars
    <3>3. CASE q # p
      <4>1. send'[p] = send[p]
        BY <2>1, <3>1, <3>3 DEF SenderMoves
      <4>2. job'[p] = job[p]
        <5>1. \/ job' = job \/ job' = Queued(q)
              \/ job' = [job EXCEPT ![q] = [c \in Copies |-> NoJob]]
          BY <2>3 DEF SenderStep, Start, Alert, Lookup, Insert, Dispatch, Commit, Acknowledge,
                      SenderDies, jobVars
        <5> QED
          BY <2>1, <3>3, <5>1 DEF Queued
      <4> QED
        BY <2>1, <3>2, <4>1, <4>2 DEF Undelivered
    <3>4. CASE q = p
      <4>1. job' = job
        BY <2>1, <2>2, <2>3, <3>4, SendersAssumption
           DEF SenderStep, Start, Alert, Lookup, Insert, Dispatch, Commit, Acknowledge,
               SenderDies, jobVars, InTransaction, ListenerRight, Senders
      <4>2. send'[p].at # "dispatch"
        <5>1. \A at : Goes(p, at) => send'[p].at = at
          BY <2>1 DEF Goes, SenderState
        <5>2. send[p].left # 0 /\ send' = [send EXCEPT ![p] = Retried(@)]
                => send'[p].at # "dispatch"
          BY <2>1, RetriedMoves DEF SenderMoves
        <5>3. ASSUME send' = [send EXCEPT ![p].at = "idle", ![p].made = FALSE]
              PROVE  send'[p].at # "dispatch"
          <6>1. SenderMoves(p, [at |-> "idle", made |-> FALSE, left |-> send[p].left])
            BY <2>1, <5>3, MadeMoves
          <6> QED
            BY <2>1, <6>1 DEF SenderMoves
        <5>4. send[p].at # "failed" => send[p].left # 0
          BY <2>1 DEF SendersRight
        <5>5. CASE Start(p) \/ Alert(p) \/ Lookup(p) \/ Dispatch(p) \/ Acknowledge(p)
          BY <2>1, <5>1, <5>5 DEF Start, Alert, Lookup, Dispatch, Acknowledge, After
        <5>6. CASE Insert(p)
          BY <2>1, <2>2, <5>2, <5>4, <5>6 DEF Insert
        <5>7. CASE Commit(p)
          BY <5>3, <5>7 DEF Commit
        <5>8. CASE SenderDies(p)
          BY <5>2, <5>3, <5>4, <5>8 DEF SenderDies
        <5> QED
          BY <2>3, <3>4, <5>5, <5>6, <5>7, <5>8 DEF SenderStep
      <4> QED
        BY <2>1, <3>2, <4>1, <4>2 DEF Undelivered
    <3> QED
      BY <3>3, <3>4
  <2>4. ASSUME NEW k \in Keys, Invalidate(k)
        PROVE  Undelivered(p)'
    BY <2>1, <2>4 DEF Invalidate, Undelivered, jobVars
  <2>5. ASSUME NEW q \in Senders, NEW c \in Copies,
               DeliveryStep(q, c) \/ DeliveryDies(q, c) \/ \E d \in Copies : Overtaken(q, c, d)
        PROVE  Undelivered(p)'
    <3>1. q # p
      BY <2>1, <2>5 DEF DeliveryStep, DeliveryDies, Overtaken, Load, Claim, Call, Record, Finish,
                        Running
    <3>2. job'[p] = job[p]
      BY <2>5, <3>1, DeliveryKeepsJobs, OvertakenKeepsJobs DEF JobMoves
    <3>3. UNCHANGED <<send, notes>> /\ delivery'[p] = delivery[p]
      BY <2>1, <2>5, <3>1 DEF DeliveryStep, DeliveryDies, Overtaken, Load, Claim, Call, Record,
                              Finish, senderVars
    <3> QED
      BY <2>1, <3>2, <3>3 DEF Undelivered
  <2> QED
    BY <2>3, <2>4, <2>5 DEF NotifyNext
<1> QED
  BY NotifyInvariant, <1>1, PTL DEF NotifySpec, UndeliveredStays

------------------------------------------------------------------------------
(* No delivery is forgotten *)

\* A copy of p's job that the queue would run again, whatever happens to its worker.
Held(p) == \E c \in Copies : job[p][c].held /\ job[p][c].at \in Asking

\* A copy that found the notification has its last try, or had it.
Spent(p) == \E c \in Copies : job[p][c].try = Tries /\ job[p][c].at # "dropped"

\* What the jobs of p know of its messages, and that one of them still has its
\* own try before it when none has been accepted.
Pursued(p) ==
    /\ delivery[p] = "sent" => sends[p] > 0
    /\ \A c \in Copies : /\ job[p][c].at = "accepted" => sends[p] > 0
                         /\ job[p][c].at = "queued" => job[p][c].held
                         /\ job[p][c].at = "none" => job[p][c].try = 0
    /\ p \in notes /\ send[p].at # "dispatch" =>
          sends[p] > 0 \/ Undelivered(p) \/ Spent(p) \/ Held(p)

\* When no job of a notification is left, the provider has accepted it, or all
\* tries have been made, or it was left undelivered.
NothingForgotten ==
    \A p \in notes :
        send[p].at # "dispatch" /\ AtRest(p)
            => sends[p] > 0 \/ TriesUsedUp(p) \/ Undelivered(p)

\* A step that changes nothing of p's.
LEMMA PursuedElsewhere ==
    ASSUME NEW p \in Senders, Pursued(p), send'[p] = send[p], job'[p] = job[p],
           delivery'[p] = delivery[p], sends'[p] = sends[p], p \in notes' <=> p \in notes
    PROVE  Pursued(p)'
BY DEF Pursued, Undelivered, Spent, Held

\* A run of copy c of p's job moves it to j, without giving up a try.
LEMMA PursuedRun ==
    ASSUME NotifyTypeOK, NEW p \in Senders, Pursued(p), p \in notes,
           NEW c \in Copies, job[p][c].at \in Running \cup {"queued", "finish"},
           NEW j, JobMoves(p, c, j),
           UNCHANGED <<send, notes>>, sends'[p] \in Nat, sends'[p] >= sends[p],
           delivery'[p] = "sent" => sends'[p] > 0,
           j.at = "accepted" => sends'[p] > 0, j.at = "queued" => j.held, j.at \notin {"none", "dropped"},
           job[p][c].try = Tries => j.try = Tries,
           job[p][c].held /\ job[p][c].at \in Asking =>
              sends'[p] > 0 \/ j.try = Tries \/ (j.held /\ j.at \in Asking)
    PROVE  Pursued(p)'
<1>1. sends[p] \in Nat /\ job'[p][c] = j /\ \A e \in Copies \ {c} : job'[p][e] = job[p][e]
  BY DEF NotifyTypeOK, JobMoves
<1>2. ~Undelivered(p)
  BY DEF Undelivered, Running
<1>3. /\ \A e \in Copies : /\ job'[p][e].at = "accepted" => sends'[p] > 0
                           /\ job'[p][e].at = "queued" => job'[p][e].held
                           /\ job'[p][e].at = "none" => job'[p][e].try = 0
  BY <1>1 DEF Pursued
<1>4. ASSUME send[p].at # "dispatch"
      PROVE  sends'[p] > 0 \/ Spent(p)' \/ Held(p)'
  <2>1. sends[p] > 0 \/ Spent(p) \/ Held(p)
    BY <1>2, <1>4 DEF Pursued
  <2>2. CASE sends[p] > 0
    BY <1>1, <2>2
  <2>3. CASE Spent(p)
    BY <1>1, <2>3 DEF Spent
  <2>4. CASE Held(p)
    BY <1>1, <2>4 DEF Held, Spent
  <2> QED
    BY <2>1, <2>2, <2>3, <2>4
<1> QED
  BY <1>3, <1>4 DEF Pursued

LEMMA DeliveryPursues ==
    ASSUME NotifyInv, NEW p \in Senders, Pursued(p), NEW c \in Copies,
           DeliveryStep(p, c) \/ DeliveryDies(p, c)
    PROVE  Pursued(p)'
<1>1. /\ NotifyTypeOK /\ job[p][c] \in JobState
      /\ sends \in [Senders -> Nat] /\ sends[p] \in Nat
      /\ delivery \in [Senders -> {"none", "pending", "processing", "sent", "failed"}]
  BY DEF NotifyInv, NotifyTypeOK
<1>2. UNCHANGED <<send, notes>>
  BY DEF DeliveryStep, DeliveryDies, Load, Claim, Call, Record, Finish, senderVars
<1>3. /\ job[p][c].at \in Running \cup {"queued", "finish"}
      /\ p \notin notes => job[p][c].at = "queued"
  BY DEF DeliveryStep, DeliveryDies, Load, Claim, Call, Record, Finish, Running,
         NotifyInv, JobsRight, Waits
<1>4. /\ delivery[p] = "sent" => sends[p] > 0
      /\ job[p][c].at = "accepted" => sends[p] > 0
      /\ job[p][c].at = "queued" => job[p][c].held
  BY DEF Pursued
<1> DEFINE At(at) == [at |-> at, try |-> job[p][c].try, held |-> job[p][c].held]
<1>5. \A at : At(at).at = at /\ At(at).try = job[p][c].try /\ At(at).held = job[p][c].held
  OBVIOUS
<1>6. ASSUME p \notin notes
      PROVE  Pursued(p)'
  <2>1. Load(p, c)
    BY <1>3, <1>6 DEF DeliveryStep, DeliveryDies, Load, Claim, Call, Record, Finish, Running
  <2>2. JobGoes(p, c, "dropped") /\ delivery' = delivery /\ sends' = sends
    BY <1>6, <2>1 DEF Load
  <2>3. JobMoves(p, c, At("dropped"))
    BY <1>1, <2>2, JobGoesMoves
  <2> HIDE DEF At
  <2> QED
    BY <1>2, <1>5, <1>6, <2>2, <2>3 DEF Pursued, JobMoves
<1>7. ASSUME p \in notes, NEW at \in Running \cup {"finish", "done"}, JobGoes(p, c, at),
             sends'[p] \in Nat, sends'[p] >= sends[p],
             delivery'[p] = "sent" => sends'[p] > 0,
             at = "accepted" => sends'[p] > 0,
             job[p][c].held /\ job[p][c].at \in Asking =>
                sends'[p] > 0 \/ job[p][c].try = Tries \/ at \in Asking
      PROVE  Pursued(p)'
  <2>1. JobMoves(p, c, At(at))
    BY <1>1, <1>7, JobGoesMoves
  <2>2. at \notin {"queued", "none", "dropped"}
    BY <1>7 DEF Running
  <2> HIDE DEF At
  <2> QED
    BY <1>1, <1>2, <1>3, <1>5, <1>7, <2>1, <2>2, PursuedRun
<1>8. ASSUME p \in notes, NEW j \in JobState, job' = [job EXCEPT ![p][c] = j],
             j.at \in {"queued", "failed"}, sends' = sends,
             delivery'[p] = "sent" => sends[p] > 0,
             j.at = "queued" => j.held,
             j.at = "failed" => j.try = Tries,
             job[p][c].try = Tries => j.at = "failed"
      PROVE  Pursued(p)'
  <2>1. JobMoves(p, c, j)
    BY <1>1, <1>8, JobSet
  <2>2. j.at = "queued" => j.at \in Asking
    BY DEF Asking
  <2> QED
    BY <1>1, <1>2, <1>3, <1>8, <2>1, <2>2, PursuedRun
<1> SUFFICES ASSUME p \in notes
             PROVE  Pursued(p)'
  BY <1>6
<1>9. CASE Load(p, c)
  <2>1. sends' = sends /\ (delivery'[p] = "sent" <=> delivery[p] = "sent")
    BY <1>1, <1>9 DEF Load
  <2>2. CASE delivery[p] = "sent"
    <3>1. JobGoes(p, c, "finish")
      BY <1>9, <2>2 DEF Load
    <3> QED
      BY <1>1, <1>4, <1>7, <2>1, <2>2, <3>1
  <2>3. CASE delivery[p] # "sent"
    <3>1. JobGoes(p, c, "claim")
      BY <1>9, <2>3 DEF Load
    <3> QED
      BY <1>1, <1>4, <1>7, <2>1, <2>3, <3>1 DEF Running, Asking
  <2> QED
    BY <2>2, <2>3
<1>10. CASE Claim(p, c)
  <2>1. JobGoes(p, c, "call") /\ delivery'[p] = "processing" /\ sends' = sends
    BY <1>1, <1>10 DEF Claim
  <2> QED
    BY <1>1, <1>7, <2>1 DEF Running, Asking
<1>11. CASE Call(p, c)
  <2>1. CASE JobGoes(p, c, "accepted") /\ sends' = [sends EXCEPT ![p] = @ + 1]
    <3>1. sends'[p] = sends[p] + 1
      BY <1>1, <2>1
    <3> QED
      BY <1>1, <1>7, <2>1, <3>1 DEF Running
  <2>2. CASE JobGoes(p, c, "refused") /\ sends' = sends
    <3>1. delivery' = delivery
      BY <1>11 DEF Call
    <3> QED
      BY <1>1, <1>4, <1>7, <2>2, <3>1 DEF Running, Asking
  <2> QED
    BY <1>11, <2>1, <2>2 DEF Call
<1>12. CASE Record(p, c)
  <2>1. sends' = sends
    BY <1>12 DEF Record
  <2>2. CASE job[p][c].at = "accepted" /\ JobGoes(p, c, "finish")
    BY <1>1, <1>4, <1>7, <2>1, <2>2
  <2>3. CASE job[p][c].at = "refused"
    <3>1. delivery'[p] = "failed" /\ job[p][c].try \in 0..Tries /\ Tries \in Nat
      BY <1>1, <1>12, <2>3, QueueAssumption DEF Record, JobState
    <3>2. CASE job[p][c].try < Tries
      <4> DEFINE j == JobAt(job[p][c].try + 1)
      <4>1. job' = [job EXCEPT ![p][c] = j]
        BY <1>12, <2>3, <3>2 DEF Record
      <4>2. j.at = "queued" /\ j.held
        BY DEF JobAt
      <4>3. j \in JobState
        <5>1. job[p][c].try + 1 \in 0..Tries
          BY <3>1, <3>2
        <5> QED
          BY <5>1 DEF JobAt, JobState
      <4>4. job[p][c].try # Tries
        BY <3>1, <3>2
      <4> HIDE DEF j
      <4> QED
        BY <1>8, <2>1, <3>1, <4>1, <4>2, <4>3, <4>4
    <3>3. CASE ~(job[p][c].try < Tries)
      <4>1. job[p][c].try = Tries /\ JobGoes(p, c, "finish")
        BY <1>12, <2>3, <3>1, <3>3 DEF Record
      <4> QED
        BY <1>1, <1>7, <2>1, <3>1, <4>1
    <3> QED
      BY <3>2, <3>3
  <2> QED
    BY <1>12, <2>2, <2>3 DEF Record
<1>13. CASE Finish(p, c)
  <2>1. sends' = sends /\ delivery' = delivery /\ JobGoes(p, c, "done")
        /\ job[p][c].at = "finish"
    BY <1>13 DEF Finish
  <2> QED
    BY <1>1, <1>4, <1>7, <2>1 DEF Asking
<1>14. CASE DeliveryDies(p, c)
  <2>1. sends' = sends /\ delivery' = delivery
    BY <1>14 DEF DeliveryDies
  <2>2. CASE ~job[p][c].held
    <3>1. JobGoes(p, c, "done")
      BY <1>14, <2>2 DEF DeliveryDies
    <3> QED
      BY <1>1, <1>4, <1>7, <2>1, <2>2, <3>1
  <2>3. CASE job[p][c].held
    <3> DEFINE j == Redelivered(job[p][c].try)
    <3>1. job' = [job EXCEPT ![p][c] = j]
      BY <1>14, <2>3 DEF DeliveryDies
    <3>2. job[p][c].try \in 0..Tries /\ Tries \in Nat
      BY <1>1, QueueAssumption DEF JobState
    <3>3. j \in JobState /\ j.at \in {"queued", "failed"}
      BY <3>2, RedeliveredState
    <3>4. /\ j.at = "queued" => j.held
          /\ j.at = "failed" => j.try = Tries
          /\ job[p][c].try = Tries => j.at = "failed"
      BY <3>2 DEF Redelivered, JobAt
    <3> HIDE DEF j
    <3> QED
      BY <1>4, <1>8, <2>1, <3>1, <3>3, <3>4
  <2> QED
    BY <2>2, <2>3
<1> QED
  BY <1>9, <1>10, <1>11, <1>12, <1>13, <1>14 DEF DeliveryStep

\* The second worker's copy takes over the tries of the one that was overtaken.
LEMMA OvertakenPursues ==
    ASSUME NotifyInv, NEW p \in Senders, Pursued(p), NEW c \in Copies, NEW d \in Copies,
           Overtaken(p, c, d)
    PROVE  Pursued(p)'
<1>1. /\ job \in [Senders -> [Copies -> JobState]] /\ job[p] \in [Copies -> JobState]
      /\ job[p][c] \in JobState /\ job[p][c].try \in 0..Tries /\ Tries \in Nat /\ Tries # 0
  BY QueueAssumption DEF NotifyInv, NotifyTypeOK, JobState
<1>2. /\ UNCHANGED <<send, notes, delivery, sends>>
      /\ job[p][c].at \in Running /\ job[p][d].at = "none" /\ c # d
  BY DEF Overtaken, Running, senderVars
<1> DEFINE k == Redelivered(job[p][c].try)
           row == [job[p] EXCEPT ![c] = [job[p][c] EXCEPT !.held = FALSE]]
<1>3. job' = [job EXCEPT ![p] = [row EXCEPT ![d] = k]]
  BY <1>1, <1>2 DEF Overtaken
<1>4. /\ DOMAIN row = Copies /\ \A e \in Copies \ {c} : row[e] = job[p][e]
      /\ row[c].at = job[p][c].at /\ row[c].try = job[p][c].try
  BY <1>1 DEF JobState
<1> HIDE DEF row
<1>5. /\ job'[p][d] = k /\ \A e \in Copies \ {c, d} : job'[p][e] = job[p][e]
      /\ job'[p][c].at = job[p][c].at /\ job'[p][c].try = job[p][c].try
  BY <1>1, <1>2, <1>3, <1>4
<1>6. \/ k.at = "queued" /\ k.held
      \/ k.at = "failed" /\ k.try = Tries
  <2>1. CASE job[p][c].try < Tries
    BY <2>1 DEF Redelivered, JobAt
  <2>2. CASE ~(job[p][c].try < Tries)
    <3>1. job[p][c].try = Tries /\ k.at = "failed" /\ k.try = job[p][c].try
      BY <1>1, <2>2 DEF Redelivered
    <3> QED
      BY <3>1
  <2> QED
    BY <2>1, <2>2
<1> HIDE DEF k
<1>7. Spent(p)' \/ Held(p)'
  BY <1>5, <1>6 DEF Spent, Held, Asking
<1> QED
  BY <1>2, <1>5, <1>6, <1>7 DEF Pursued, Running

\* A sender commits a notification together with its job, or queues the job
\* first, or leaves the notification undelivered.
LEMMA SenderPursues ==
    ASSUME NotifyInv, NEW p \in Senders, Pursued(p), Start(p) \/ SenderStep(p) \/ SenderDies(p)
    PROVE  Pursued(p)'
<1>1. /\ NotifyTypeOK /\ SendersRight /\ JobsRight(p)
      /\ ListenerRight(p) /\ EvaluatorRight(p)
      /\ job \in [Senders -> [Copies -> JobState]]
      /\ send \in [Senders -> SenderState]
  BY DEF NotifyInv, SendersRight, NotifyTypeOK
<1>2. UNCHANGED <<queue, delivery, sends>>
  BY DEF SenderStep, Start, Alert, Lookup, Insert, Dispatch, Commit, Acknowledge,
         SenderDies, settings, jobVars
<1>3. PICK s \in SenderState : SenderMoves(p, s)
  BY <1>1, SenderEffect
<1>4. send'[p] = s /\ notes \subseteq notes'
  BY <1>1, <1>3, SenderEffect DEF SenderMoves, Adds
<1>5. p \in notes => Known(p)
  BY DEF Known
<1>6. \A at : Goes(p, at) => send'[p].at = at
  BY <1>1 DEF Goes, SenderState
<1>7. CASE job' = Queued(p)
  <2>1. FirstCopy \in Copies /\ JobMoves(p, FirstCopy, JobAt(1))
    BY <1>1, <1>7, QueuedMoves
  <2>2. JobAt(1).at = "queued" /\ JobAt(1).held
    BY DEF JobAt
  <2>3. Held(p)'
    BY <2>1, <2>2 DEF Held, JobMoves, Asking
  <2> QED
    BY <1>2, <2>1, <2>2, <2>3 DEF Pursued, JobMoves
<1>8. CASE job' = [job EXCEPT ![p] = [c \in Copies |-> NoJob]]
           /\ p \notin notes'
  <2>1. \A c \in Copies : job'[p][c].at = "none" /\ job'[p][c].try = 0
    BY <1>1, <1>8 DEF NoJob
  <2> QED
    BY <1>2, <1>8, <2>1 DEF Pursued
<1>9. CASE job' = job
  <2>1. SUFFICES ASSUME p \in notes', send'[p].at # "dispatch"
                 PROVE  sends'[p] > 0 \/ Undelivered(p)' \/ Spent(p)' \/ Held(p)'
    BY <1>2, <1>9 DEF Pursued
  <2>2. CASE p \in notes /\ send[p].at # "dispatch"
    BY <1>2, <1>9, <2>1, <2>2 DEF Pursued, Undelivered, Spent, Held
  <2>3. CASE NothingYet(p)
    BY <1>2, <1>9, <2>1, <2>3 DEF NothingYet, Waits, Undelivered
  <2>4. CASE send[p].at = "dispatch"
    BY <1>1, <2>3, <2>4 DEF JobsRight, NotQueuedYet
  <2>5. CASE p \notin notes
    <3>1. Waits(p)
      BY <1>1, <2>5 DEF JobsRight
    <3>2. CASE \E c \in Copies : job[p][c].at = "queued"
      BY <1>9, <3>2 DEF Pursued, Held, Asking
    <3>3. CASE \A c \in Copies : job[p][c].at # "queued"
      BY <1>2, <1>9, <2>1, <3>1, <3>3 DEF Waits, Undelivered
    <3> QED
      BY <3>2, <3>3
  <2> QED
    BY <2>2, <2>4, <2>5
<1>10. \/ job' = job \/ job' = Queued(p)
       \/ job' = [job EXCEPT ![p] = [c \in Copies |-> NoJob]] /\ p \notin notes'
  <2>1. CASE Start(p) \/ Alert(p) \/ Lookup(p) \/ Insert(p) \/ Dispatch(p) \/ Commit(p)
             \/ Acknowledge(p)
    BY <2>1 DEF Start, Alert, Lookup, Insert, Dispatch, Commit, Acknowledge, jobVars
  <2>2. CASE SenderDies(p)
    <3>1. send[p].made /\ p \in Evaluators => p \notin notes
      BY <1>1, <1>5 DEF EvaluatorRight
    <3>2. notes' = notes
      BY <2>2 DEF SenderDies
    <3> QED
      BY <2>2, <3>1, <3>2 DEF SenderDies, InTransaction
  <2> QED
    BY <2>1, <2>2 DEF SenderStep
<1> QED
  BY <1>7, <1>8, <1>9, <1>10

LEMMA StepPursues ==
    ASSUME NotifyInv, NEW p \in Senders, Pursued(p), [NotifyNext]_notifyVars
    PROVE  Pursued(p)'
<1>1. /\ NotifyTypeOK /\ SendersRight /\ job \in [Senders -> [Copies -> JobState]]
      /\ send \in [Senders -> SenderState] /\ sends \in [Senders -> Nat]
      /\ delivery \in [Senders -> {"none", "pending", "processing", "sent", "failed"}]
  BY DEF NotifyInv, NotifyTypeOK
<1>2. ASSUME NEW q \in Senders, Start(q) \/ SenderStep(q) \/ SenderDies(q)
      PROVE  Pursued(p)'
  <2>1. CASE q = p
    BY <1>2, <2>1, SenderPursues
  <2>2. CASE q # p
    <3>1. /\ send'[p] = send[p] /\ (p \in notes' <=> p \in notes)
      BY <1>1, <1>2, <2>2, SenderEffect DEF SenderMoves, Adds
    <3>2. UNCHANGED <<delivery, sends>>
      BY <1>2 DEF SenderStep, Start, Alert, Lookup, Insert, Dispatch, Commit, Acknowledge,
                  SenderDies, jobVars
    <3>3. job'[p] = job[p]
      <4>1. \/ job' = job \/ job' = Queued(q)
            \/ job' = [job EXCEPT ![q] = [c \in Copies |-> NoJob]]
        BY <1>2 DEF SenderStep, Start, Alert, Lookup, Insert, Dispatch, Commit, Acknowledge,
                    SenderDies, jobVars
      <4> QED
        BY <1>1, <2>2, <4>1 DEF Queued
    <3> QED
      BY <3>1, <3>2, <3>3, PursuedElsewhere
  <2> QED
    BY <2>1, <2>2
<1>3. ASSUME NEW k \in Keys, Invalidate(k)
      PROVE  Pursued(p)'
  BY <1>3, PursuedElsewhere DEF Invalidate, jobVars
<1>4. ASSUME NEW q \in Senders, NEW c \in Copies,
             DeliveryStep(q, c) \/ DeliveryDies(q, c) \/ \E d \in Copies : Overtaken(q, c, d)
      PROVE  Pursued(p)'
  <2>1. CASE q = p
    BY <1>4, <2>1, DeliveryPursues, OvertakenPursues
  <2>2. CASE q # p
    <3>1. job'[p] = job[p]
      BY <1>4, <2>2, DeliveryKeepsJobs, OvertakenKeepsJobs DEF JobMoves
    <3>2. UNCHANGED <<send, notes>> /\ delivery'[p] = delivery[p] /\ sends'[p] = sends[p]
      BY <1>1, <1>4, <2>2 DEF DeliveryStep, DeliveryDies, Overtaken, Load, Claim, Call, Record,
                              Finish, senderVars
    <3> QED
      BY <3>1, <3>2, PursuedElsewhere
  <2> QED
    BY <2>1, <2>2
<1>5. CASE UNCHANGED notifyVars
  BY <1>5, PursuedElsewhere DEF notifyVars, senderVars, jobVars
<1> QED
  BY <1>2, <1>3, <1>4, <1>5 DEF NotifyNext

\* DeliverNotificationJob: no crash and no overtaking worker makes a delivery
\* disappear between two tries.  This is the safety behind DeliverySettles, for
\* every number of tries and copies.
THEOREM NoDeliveryForgotten == NotifySpec => []NothingForgotten
<1> DEFINE All == \A p \in Senders : Pursued(p)
<1>1. NotifyInit => All
  <2> SUFFICES ASSUME NotifyInit, NEW p \in Senders PROVE Pursued(p)
    OBVIOUS
  <2> QED
    BY DEF NotifyInit, Pursued, NoJob
<1>2. NotifyInv /\ All /\ [NotifyNext]_notifyVars => All'
  <2> SUFFICES ASSUME NotifyInv, All, [NotifyNext]_notifyVars, NEW p \in Senders
               PROVE  Pursued(p)'
    OBVIOUS
  <2> QED
    BY StepPursues
<1>3. NotifyInv /\ All => NothingForgotten
  <2> SUFFICES ASSUME NotifyInv, All, NEW p \in notes, send[p].at # "dispatch", AtRest(p),
                      ~(sends[p] > 0), ~Undelivered(p)
               PROVE  TriesUsedUp(p)
    BY DEF NothingForgotten
  <2>1. Pursued(p) /\ p \in notes
    BY DEF NotifyInv, NotifyTypeOK
  <2>2. ~Held(p)
    BY DEF Held, Asking, AtRest, Running
  <2>3. PICK c \in Copies : job[p][c].try = Tries /\ job[p][c].at # "dropped"
    BY <2>1, <2>2 DEF Pursued, Spent
  <2>4. job[p][c].at # "none"
    BY <2>1, <2>3, QueueAssumption DEF Pursued
  <2> QED
    BY <2>3, <2>4 DEF AtRest, TriesUsedUp
<1> HIDE DEF All
<1> QED
  BY NotifyInvariant, <1>1, <1>2, <1>3, PTL DEF NotifySpec
==============================================================================
