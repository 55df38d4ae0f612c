--------------------------- MODULE Alerting_proofs ---------------------------
(***************************************************************************)
(* Safety of the detector, and of the detector and the dispatcher          *)
(* together, for every set of messages, any number of workers, detections  *)
(* and webhooks, every window and threshold, and every retry and           *)
(* redelivery bound.                                                       *)
(*                                                                         *)
(* The first half is about the detector alone (the Spec of                 *)
(* AnomalyDetection).  Joined with the dispatcher the detector does only   *)
(* what it does alone, so that the first half still holds of it; from      *)
(* that, the dispatcher joined with the detector does only what it does    *)
(* alone, and what AlertDispatch_proofs says of it holds too.              *)
(***************************************************************************)
EXTENDS Alerting, FiniteSetTheorems, TLAPS

(***************************************************************************)
(* The detector alone.                                                     *)
(***************************************************************************)
-----------------------------------------------------------------------------
\* Types.  The execution number stays within its type because every execution
\* beyond the first is paid for by a retry or a redelivery; a queued message has
\* already paid for its next one.
Accounting ==
  \A t \in Task :
    /\ task[t].exec <= 1 + task[t].retries + task[t].redelivered
    /\ task[t].state = "queued" =>
         task[t].exec <= task[t].retries + task[t].redelivered
    /\ task[t].state = "free" => task[t].exec = 0

TypeInv == TypeOK /\ Accounting /\ IsFiniteSet(events)

\* The bounds are natural numbers.
LEMMA Bounds ==
  /\ TaskRetries \in Nat /\ MaxRedeliveries \in Nat /\ MaxEvents \in Nat
  /\ MaxTime \in Nat /\ Workers \in Nat /\ DedupWindow \in Nat /\ MaxExec \in Nat
BY BoundsAssumption DEF BoundsAssumption, MaxExec

\* The counters of a message are natural numbers.
LEMMA TaskFields ==
  ASSUME NEW m \in TaskRecord
  PROVE  m.retries \in Nat /\ m.redelivered \in Nat /\ m.exec \in Nat
<1>1. /\ m.retries \in 0..TaskRetries /\ m.redelivered \in 0..MaxRedeliveries
      /\ m.exec \in 0..MaxExec
  BY DEF TaskRecord
<1>. QED
  BY <1>1

\* A step that changes one message within its type, and pays for its executions,
\* keeps the types of all.
LEMMA TaskStep ==
  ASSUME TypeInv, NEW t \in Task, NEW m \in TaskRecord,
         task' = [task EXCEPT ![t] = m],
         m.exec <= 1 + m.retries + m.redelivered,
         m.state = "queued" => m.exec <= m.retries + m.redelivered,
         m.state = "free" => m.exec = 0
  PROVE  task' \in [Task -> TaskRecord] /\ Accounting'
<1>1. task \in [Task -> TaskRecord] /\ Accounting
  BY DEF TypeInv, TypeOK
<1>2. task' \in [Task -> TaskRecord]
  BY <1>1
<1>3. \A u \in Task : task'[u] = IF u = t THEN m ELSE task[u]
  BY <1>1
<1>4. Accounting'
  BY <1>1, <1>3 DEF Accounting
<1>. QED
  BY <1>2, <1>4

\* A message that a worker takes has an execution left.
LEMMA BeginTyped ==
  ASSUME TypeInv, NEW t \in Task, task[t].state = "queued",
         NEW st \in {"sampled", "done"},
         task' = [task EXCEPT ![t].state = st, ![t].exec = @ + 1]
  PROVE  task' \in [Task -> TaskRecord] /\ Accounting'
<1> DEFINE m == [task[t] EXCEPT !.state = st, !.exec = @ + 1]
<1>1. task[t] \in TaskRecord
  BY DEF TypeInv, TypeOK
<1>2. task[t].exec <= task[t].retries + task[t].redelivered
  BY DEF TypeInv, Accounting
<1>3. task[t].exec + 1 \in 0..MaxExec
  <2>1. /\ task[t].retries \in 0..TaskRetries
        /\ task[t].redelivered \in 0..MaxRedeliveries /\ task[t].exec \in Nat
    BY <1>1, TaskFields DEF TaskRecord
  <2>. QED
    BY <2>1, <1>2, Bounds DEF MaxExec
<1>4. m \in TaskRecord
  BY <1>1, <1>3 DEF TaskRecord
<1>5. /\ m.exec = task[t].exec + 1 /\ m.state = st
      /\ m.retries = task[t].retries /\ m.redelivered = task[t].redelivered
  BY <1>1 DEF TaskRecord
<1>6. task' = [task EXCEPT ![t] = m]
  BY <1>1 DEF TypeInv, TypeOK
<1>7. m.exec <= 1 + m.retries + m.redelivered
  BY <1>1, <1>2, <1>5, TaskFields
<1> HIDE DEF m
<1>. QED
  BY <1>4, <1>5, <1>6, <1>7, TaskStep

\* A running execution goes on or ends.
LEMMA GoOnTyped ==
  ASSUME TypeInv, NEW t \in Task, Running(t),
         NEW st \in {"checked", "committed", "done", "failed", "lost"},
         task' = [task EXCEPT ![t].state = st]
  PROVE  task' \in [Task -> TaskRecord] /\ Accounting'
<1> DEFINE m == [task[t] EXCEPT !.state = st]
<1>1. task[t] \in TaskRecord /\ task[t].exec <= 1 + task[t].retries + task[t].redelivered
  BY DEF TypeInv, TypeOK, Accounting
<1>2. m \in TaskRecord /\ m.state = st /\ task' = [task EXCEPT ![t] = m]
  BY <1>1 DEF TaskRecord
<1>3. m.exec <= 1 + m.retries + m.redelivered
  BY <1>1 DEF TaskRecord
<1> HIDE DEF m
<1>. QED
  BY <1>2, <1>3, TaskStep

\* A message goes back to the queue with its retry or redelivery counted.
LEMMA RequeueTyped ==
  ASSUME TypeInv, NEW t \in Task, RetryTask(t) \/ HostDies(t)
  PROVE  task' \in [Task -> TaskRecord] /\ Accounting'
<1>1. /\ task[t] \in TaskRecord
      /\ task[t].exec <= 1 + task[t].retries + task[t].redelivered
  BY DEF TypeInv, TypeOK, Accounting
<1>2. ASSUME RetryTask(t) PROVE task' \in [Task -> TaskRecord] /\ Accounting'
  <2> DEFINE m == [task[t] EXCEPT !.state = "queued", !.retries = @ + 1]
  <2>1. task[t].retries + 1 \in 0..TaskRetries
    BY <1>1, <1>2, Bounds DEF RetryTask, TaskRecord
  <2>2. m \in TaskRecord /\ m.state = "queued" /\ task' = [task EXCEPT ![t] = m]
    BY <1>1, <1>2, <2>1 DEF RetryTask, TaskRecord
  <2>3. /\ m.exec = task[t].exec /\ m.retries = task[t].retries + 1
        /\ m.redelivered = task[t].redelivered
    BY <1>1 DEF TaskRecord
  <2>4. m.exec <= m.retries + m.redelivered /\ m.exec <= 1 + m.retries + m.redelivered
    BY <1>1, <2>3, TaskFields
  <2> HIDE DEF m
  <2>. QED
    BY <2>2, <2>4, TaskStep
<1>3. ASSUME HostDies(t) PROVE task' \in [Task -> TaskRecord] /\ Accounting'
  <2> DEFINE m == [task[t] EXCEPT !.state = "queued", !.redelivered = @ + 1]
  <2>1. task[t].redelivered + 1 \in 0..MaxRedeliveries
    BY <1>1, <1>3, Bounds DEF HostDies, TaskRecord
  <2>2. m \in TaskRecord /\ m.state = "queued" /\ task' = [task EXCEPT ![t] = m]
    BY <1>1, <1>3, <2>1 DEF HostDies, TaskRecord
  <2>3. /\ m.exec = task[t].exec /\ m.retries = task[t].retries
        /\ m.redelivered = task[t].redelivered + 1
    BY <1>1 DEF TaskRecord
  <2>4. m.exec <= m.retries + m.redelivered /\ m.exec <= 1 + m.retries + m.redelivered
    BY <1>1, <2>3, TaskFields
  <2> HIDE DEF m
  <2>. QED
    BY <2>2, <2>4, TaskStep
<1>. QED
  BY <1>2, <1>3

\* The locals of an ended execution are typed.
LEMMA EndRunTyped ==
  ASSUME TypeInv, NEW t \in Task, EndRun(t)
  PROVE  run' \in [Task -> RunRecord]
<1>1. NoRun \in RunRecord
  BY Bounds DEF NoRun, RunRecord, Time
<1>. QED
  BY <1>1 DEF TypeInv, TypeOK, EndRun

\* The row of a detector's candidate has its place in the table.
LEMMA RowHasId ==
  ASSUME TypeInv, NEW t \in Task, NEW src \in Source
  PROVE  RowOf(t, src) \in Id
<1>1. task[t].exec \in 0..MaxExec
  BY DEF TypeInv, TypeOK, TaskRecord
<1>. QED
  BY <1>1 DEF RowOf, Id

\* The types and the accounting of executions are kept together.
THEOREM TypeInvariance == Spec => []TypeInv
<1>1. Init => TypeInv
  <2> SUFFICES ASSUME Init PROVE TypeInv
    OBVIOUS
  <2>1. NoRow \in Row /\ FreeTask \in TaskRecord /\ NoRun \in RunRecord /\ 0 \in Time
    BY Bounds DEF NoRow, Row, FreeTask, TaskRecord, NoRun, RunRecord, Time
  <2>2. TypeOK
    BY <2>1 DEF Init, TypeOK
  <2>3. Accounting
    BY DEF Init, FreeTask, Accounting
  <2>. QED
    BY <2>2, <2>3, FS_EmptySet DEF Init, TypeInv
<1>2. TypeInv /\ [Next]_vars => TypeInv'
  <2> SUFFICES ASSUME TypeInv, [Next]_vars PROVE TypeInv'
    OBVIOUS
  <2>a. TypeOK /\ Accounting /\ IsFiniteSet(events)
    BY DEF TypeInv
  <2>1. CASE Tick
    <3>1. now + 1 \in Time
      BY <2>a, <2>1, Bounds DEF Tick, TypeOK, Time
    <3>. QED
      BY <2>a, <2>1, <3>1 DEF Tick, TypeInv, TypeOK, Accounting
  <2>2. CASE Withdraw
    <3>1. Cardinality(events) + 1 \in 1..MaxEvents
      BY <2>a, <2>2, Bounds, FS_CardinalityType DEF Withdraw
    <3>2. IsFiniteSet(events')
      BY <2>a, <2>2, FS_AddElement DEF Withdraw
    <3>. QED
      BY <2>a, <2>2, <3>1, <3>2 DEF Withdraw, TypeInv, TypeOK, Accounting
  <2>3. ASSUME NEW t \in Task, Submit(t) PROVE TypeInv'
    <3> DEFINE m == [task[t] EXCEPT !.state = "queued"]
    <3>1. task[t] \in TaskRecord /\ task[t].exec = 0
      BY <2>a, <2>3 DEF TypeOK, Accounting, Submit
    <3>2. m \in TaskRecord /\ m.exec = 0 /\ m.state = "queued" /\ task' = [task EXCEPT ![t] = m]
      BY <2>3, <3>1 DEF TaskRecord, Submit
    <3> HIDE DEF m
    <3>3. m.exec <= m.retries + m.redelivered /\ m.exec <= 1 + m.retries + m.redelivered
      BY <3>2, TaskFields
    <3>4. task' \in [Task -> TaskRecord] /\ Accounting'
      BY <3>2, <3>3, TaskStep
    <3>. QED
      BY <2>a, <2>3, <3>4 DEF Submit, TypeInv, TypeOK
  <2>4. ASSUME NEW id \in Id, Resolve(id) PROVE TypeInv'
    BY <2>a, <2>4 DEF Resolve, TypeInv, TypeOK, Accounting, Row
  <2>5. ASSUME NEW t \in Task, NoHistory(t) PROVE TypeInv'
    <3>1. task' \in [Task -> TaskRecord] /\ Accounting'
      BY <2>5, BeginTyped DEF NoHistory
    <3>. QED
      BY <2>a, <2>5, <3>1 DEF NoHistory, TypeInv, TypeOK
  <2>6. ASSUME NEW t \in Task, NEW churn \in Churn, Sample(t, churn) PROVE TypeInv'
    <3>1. task' \in [Task -> TaskRecord] /\ Accounting'
      BY <2>6, BeginTyped DEF Sample
    <3>2. churn \subseteq Source
      BY BoundsAssumption DEF BoundsAssumption, Source
    <3>3. churn \cup (IF Correlated(now) THEN {"correlation"} ELSE {}) \subseteq Source
      BY <3>2 DEF Source
    <3>4. run' \in [Task -> RunRecord]
      BY <2>a, <2>6, <3>3 DEF Sample, TypeOK, RunRecord
    <3>. QED
      BY <2>a, <2>6, <3>1, <3>4 DEF Sample, TypeInv, TypeOK
  <2>7. ASSUME NEW t \in Task, Check(t) PROVE TypeInv'
    <3>1. task' \in [Task -> TaskRecord] /\ Accounting'
      BY <2>7, GoOnTyped DEF Check, Running
    <3>2. run[t] \in RunRecord /\ Deduplicate(run[t].work) \subseteq Source
      BY <2>a DEF TypeOK, RunRecord, Deduplicate
    <3>3. run' \in [Task -> RunRecord]
      BY <2>a, <2>7, <3>2 DEF Check, TypeOK, RunRecord
    <3>. QED
      BY <2>a, <2>7, <3>1, <3>3 DEF Check, TypeInv, TypeOK
  <2>8. ASSUME NEW t \in Task, CommitRows(t) PROVE TypeInv'
    <3>1. task' \in [Task -> TaskRecord] /\ Accounting'
      BY <2>8, GoOnTyped DEF CommitRows, Running
    <3>2. [state |-> "open", detected |-> run[t].now, alerts |-> 0] \in Row
      BY <2>a DEF TypeOK, RunRecord, Row
    <3>3. anomaly' \in [Id -> Row]
      BY <2>a, <2>8, <3>2 DEF CommitRows, TypeOK
    <3>. QED
      BY <2>a, <2>8, <3>1, <3>3 DEF CommitRows, TypeInv, TypeOK
  <2>9. ASSUME NEW t \in Task, NEW src \in Source, SendAlert(t, src) PROVE TypeInv'
    <3>1. RowOf(t, src) \in Id
      BY RowHasId
    <3>2. anomaly' \in [Id -> Row]
      BY <2>a, <2>9, <3>1 DEF SendAlert, TypeOK, Row
    <3>3. run' \in [Task -> RunRecord]
      BY <2>a, <2>9 DEF SendAlert, TypeOK, RunRecord
    <3>. QED
      BY <2>a, <2>9, <3>2, <3>3 DEF SendAlert, TypeInv, TypeOK, Accounting
  <2>10. ASSUME NEW t \in Task, Finish(t) \/ GiveUp(t) \/ ChildDies(t) PROVE TypeInv'
    <3>1. task' \in [Task -> TaskRecord] /\ Accounting'
      BY <2>10, GoOnTyped DEF Finish, GiveUp, ChildDies, Running
    <3>2. run' \in [Task -> RunRecord]
      BY <2>10, EndRunTyped DEF Finish, GiveUp, ChildDies
    <3>. QED
      BY <2>a, <2>10, <3>1, <3>2 DEF Finish, GiveUp, ChildDies, TypeInv, TypeOK
  <2>11. ASSUME NEW t \in Task, RetryTask(t) \/ HostDies(t) PROVE TypeInv'
    <3>1. task' \in [Task -> TaskRecord] /\ Accounting'
      BY <2>11, RequeueTyped
    <3>2. run' \in [Task -> RunRecord]
      BY <2>11, EndRunTyped DEF RetryTask, HostDies
    <3>. QED
      BY <2>a, <2>11, <3>1, <3>2 DEF RetryTask, HostDies, TypeInv, TypeOK
  <2>12. CASE UNCHANGED vars
    BY <2>a, <2>12 DEF vars, TypeInv, TypeOK, Accounting
  <2>. QED
    BY <2>1, <2>2, <2>3, <2>4, <2>5, <2>6, <2>7, <2>8, <2>9, <2>10, <2>11, <2>12
       DEF Next, Environment, Advance, Detect, Failure
<1>. QED
  BY <1>1, <1>2, PTL DEF Spec

\* Every reachable state is well typed: no execution is numbered beyond the bound
\* that retries and redeliveries give (detect_anomalies_task).
THEOREM TypeCorrect == Spec => []TypeOK
<1>1. TypeInv => TypeOK
  BY DEF TypeInv
<1>. QED
  BY <1>1, TypeInvariance, PTL
-----------------------------------------------------------------------------
\* One dispatch for each row.

\* What the state of a message says about the row of one of its executions.
RowTruth(t, e, src) ==
  LET row == anomaly[<<t, e, src>>] IN
  /\ row.state = "none" => row.alerts = 0
  /\ row.alerts \in {0, 1}
  /\ e > task[t].exec => row.state = "none"
  /\ e = task[t].exec =>
       /\ task[t].state \in {"free", "sampled", "checked"} => row.state = "none"
       /\ task[t].state = "committed" =>
            (src \in run[t].work <=> row.state # "none" /\ row.alerts = 0)
       /\ task[t].state = "done" /\ row.state # "none" => row.alerts = 1

RowInv == \A t \in Task : \A e \in 0..MaxExec : \A src \in Source : RowTruth(t, e, src)

\* A step that leaves the table alone keeps what is true of the rows of every
\* message it does not touch.
LEMMA RowQuiet ==
  ASSUME TypeInv, RowInv, NEW t \in Task, UNCHANGED anomaly,
         \A u \in Task \ {t} : task'[u] = task[u] /\ run'[u].work = run[u].work,
         \A e \in 0..MaxExec : \A src \in Source : RowTruth(t, e, src)'
  PROVE  RowInv'
<1> SUFFICES ASSUME NEW u \in Task \ {t}, NEW e \in 0..MaxExec, NEW src \in Source
             PROVE  RowTruth(u, e, src)'
  BY DEF RowInv
<1>1. RowTruth(u, e, src) /\ task'[u] = task[u] /\ run'[u].work = run[u].work
  BY DEF RowInv
<1>. QED
  BY <1>1 DEF RowTruth

\* The rows of a message stay as they were, and say the same, when it begins an
\* execution, goes on or ends one.
LEMMA RowTaskStep ==
  ASSUME TypeInv, RowInv, NEW t \in Task, UNCHANGED anomaly,
         \/ Submit(t) \/ NoHistory(t) \/ \E churn \in Churn : Sample(t, churn)
         \/ Check(t) \/ Finish(t) \/ RetryTask(t) \/ GiveUp(t) \/ ChildDies(t)
         \/ HostDies(t)
  PROVE  RowInv'
<1> USE DEF Submit, NoHistory, Sample, Check, Finish, RetryTask, GiveUp, ChildDies,
            HostDies, EndRun
<1>1. task \in [Task -> TaskRecord] /\ task[t] \in TaskRecord /\ task[t].exec \in Nat
  BY TaskFields DEF TypeInv, TypeOK
<1>2. run \in [Task -> RunRecord]
  BY DEF TypeInv, TypeOK
<1>3. \A u \in Task \ {t} : task'[u] = task[u] /\ run'[u].work = run[u].work
  BY <1>1, <1>2
<1>4. ASSUME NEW e \in 0..MaxExec, NEW src \in Source PROVE RowTruth(t, e, src)'
  <2>1. RowTruth(t, e, src) /\ e \in Nat
    BY DEF RowInv
  <2>2. CASE NoHistory(t) \/ \E churn \in Churn : Sample(t, churn)
    <3>1. task'[t].exec = task[t].exec + 1 /\ task'[t].state \in {"sampled", "done"}
      BY <1>1, <2>2 DEF TaskRecord
    <3>2. e >= task'[t].exec => anomaly[<<t, e, src>>].state = "none"
      BY <1>1, <2>1, <3>1 DEF RowTruth
    <3>. QED
      BY <1>1, <2>1, <3>1, <3>2 DEF RowTruth
  <2>3. CASE Submit(t) \/ Check(t) \/ Finish(t) \/ RetryTask(t) \/ GiveUp(t) \/ ChildDies(t)
             \/ HostDies(t)
    <3>1. task'[t].exec = task[t].exec
      BY <1>1, <2>3 DEF TaskRecord
    <3>2. \/ task[t].state = "sampled" /\ task'[t].state = "checked"
          \/ task[t].state = "committed" /\ run[t].work = {} /\ task'[t].state = "done"
          \/ task'[t].state \in {"queued", "failed", "lost"}
      BY <1>1, <2>3 DEF TaskRecord
    <3>. QED
      BY <2>1, <3>1, <3>2 DEF RowTruth
  <2>. QED
    BY <2>2, <2>3
<1>. QED
  BY <1>3, <1>4, RowQuiet

\* The rows are there after the commit, and no other row has changed.
LEMMA RowCommitStep ==
  ASSUME TypeInv, RowInv, NEW t \in Task, CommitRows(t)
  PROVE  RowInv'
<1>1. task \in [Task -> TaskRecord] /\ task[t] \in TaskRecord
  BY DEF TypeInv, TypeOK
<1>2. /\ task[t].state = "checked" /\ task'[t].state = "committed"
      /\ task'[t].exec = task[t].exec /\ UNCHANGED run
      /\ \A u \in Task \ {t} : task'[u] = task[u]
  BY <1>1 DEF CommitRows, TaskRecord
<1> SUFFICES ASSUME NEW u \in Task, NEW e \in 0..MaxExec, NEW src \in Source
             PROVE  RowTruth(u, e, src)'
  BY DEF RowInv
<1>3. RowTruth(u, e, src) /\ <<u, e, src>> \in Id
  BY DEF RowInv, Id
<1>4. anomaly'[<<u, e, src>>] =
        IF u = t /\ e = task[t].exec /\ src \in run[t].work
        THEN [state |-> "open", detected |-> run[t].now, alerts |-> 0]
        ELSE anomaly[<<u, e, src>>]
  BY <1>3 DEF CommitRows, RowOf
<1>5. CASE u = t /\ e = task[t].exec
  BY <1>2, <1>3, <1>4, <1>5 DEF RowTruth
<1>6. CASE u # t
  BY <1>2, <1>3, <1>4, <1>6 DEF RowTruth
<1>7. CASE u = t /\ e # task[t].exec
  BY <1>2, <1>3, <1>4, <1>7 DEF RowTruth
<1>. QED
  BY <1>5, <1>6, <1>7

\* The row just submitted has its one dispatch.
LEMMA RowSendStep ==
  ASSUME TypeInv, RowInv, NEW t \in Task, NEW s \in Source, SendAlert(t, s)
  PROVE  RowInv'
<1>1. RowOf(t, s) \in Id /\ task[t].exec \in 0..MaxExec
  BY RowHasId DEF TypeInv, TypeOK, TaskRecord
<1>2. run \in [Task -> RunRecord] /\ run[t] \in RunRecord /\ anomaly \in [Id -> Row]
  BY DEF TypeInv, TypeOK
<1>3. UNCHANGED task /\ run'[t].work = run[t].work \ {s}
      /\ \A u \in Task \ {t} : run'[u] = run[u]
  BY <1>2 DEF SendAlert, RunRecord
<1>4. task[t].state = "committed" /\ s \in run[t].work
  BY DEF SendAlert
<1> SUFFICES ASSUME NEW u \in Task, NEW e \in 0..MaxExec, NEW src \in Source
             PROVE  RowTruth(u, e, src)'
  BY DEF RowInv
<1>5. RowTruth(u, e, src) /\ <<u, e, src>> \in Id
  BY DEF RowInv, Id
<1>6. CASE u = t /\ e = task[t].exec /\ src = s
  <2>1. anomaly[<<u, e, src>>].alerts = 0 /\ anomaly[<<u, e, src>>].state # "none"
    BY <1>4, <1>5, <1>6 DEF RowTruth
  <2>2. /\ anomaly'[<<u, e, src>>].alerts = 1
        /\ anomaly'[<<u, e, src>>].state = anomaly[<<u, e, src>>].state
    BY <1>1, <1>2, <1>6, <2>1 DEF SendAlert, RowOf, Row
  <2>. QED
    BY <1>3, <1>4, <1>5, <1>6, <2>1, <2>2 DEF RowTruth
<1>7. CASE ~(u = t /\ e = task[t].exec /\ src = s)
  <2>1. anomaly'[<<u, e, src>>] = anomaly[<<u, e, src>>]
    BY <1>1, <1>2, <1>5, <1>7 DEF SendAlert, RowOf
  <2>2. u = t /\ e = task[t].exec => (src \in run'[u].work <=> src \in run[u].work)
    BY <1>3, <1>7
  <2>3. u # t => run'[u] = run[u]
    BY <1>3
  <2>. QED
    BY <1>3, <1>4, <1>5, <2>1, <2>2, <2>3 DEF RowTruth
<1>. QED
  BY <1>6, <1>7

\* What the messages say about the rows is always true.
THEOREM RowsAreTrue == Spec => []RowInv
<1>1. Init => RowInv
  BY DEF Init, RowInv, RowTruth, Id, NoRow, FreeTask
<1>2. TypeInv /\ RowInv /\ [Next]_vars => RowInv'
  <2> SUFFICES ASSUME TypeInv, RowInv, [Next]_vars PROVE RowInv'
    OBVIOUS
  <2>1. CASE Tick \/ Withdraw \/ UNCHANGED vars
    <3>1. UNCHANGED <<anomaly, task, run>>
      BY <2>1 DEF Tick, Withdraw, vars
    <3>2. ASSUME NEW t \in Task, NEW e \in 0..MaxExec, NEW src \in Source
          PROVE  RowTruth(t, e, src)'
      <4>1. RowTruth(t, e, src)
        BY DEF RowInv
      <4>. QED
        BY <3>1, <4>1 DEF RowTruth
    <3>. QED
      BY <3>2 DEF RowInv
  <2>2. ASSUME NEW id \in Id, Resolve(id) PROVE RowInv'
    <3>1. /\ \A i \in Id : /\ anomaly'[i].alerts = anomaly[i].alerts
                           /\ anomaly'[i].state = "none" <=> anomaly[i].state = "none"
          /\ UNCHANGED <<task, run>>
      BY <2>2 DEF Resolve, TypeInv, TypeOK, Row
    <3>2. ASSUME NEW t \in Task, NEW e \in 0..MaxExec, NEW src \in Source
          PROVE  RowTruth(t, e, src)'
      <4>1. RowTruth(t, e, src) /\ <<t, e, src>> \in Id
        BY DEF RowInv, Id
      <4>2. /\ anomaly'[<<t, e, src>>].alerts = anomaly[<<t, e, src>>].alerts
            /\ anomaly'[<<t, e, src>>].state = "none" <=> anomaly[<<t, e, src>>].state = "none"
            /\ task' = task /\ run' = run
        BY <3>1, <4>1
      <4>. QED
        BY <4>1, <4>2 DEF RowTruth
    <3>. QED
      BY <3>2 DEF RowInv
  <2>3. ASSUME NEW t \in Task,
               \/ Submit(t) \/ NoHistory(t) \/ \E churn \in Churn : Sample(t, churn)
               \/ Check(t) \/ Finish(t) \/ RetryTask(t) \/ GiveUp(t) \/ ChildDies(t)
               \/ HostDies(t)
        PROVE  RowInv'
    <3>1. UNCHANGED anomaly
      BY <2>3 DEF Submit, NoHistory, Sample, Check, Finish, RetryTask, GiveUp, ChildDies,
                  HostDies
    <3>. QED
      BY <2>3, <3>1, RowTaskStep
  <2>4. ASSUME NEW t \in Task, CommitRows(t) PROVE RowInv'
    BY <2>4, RowCommitStep
  <2>5. ASSUME NEW t \in Task, NEW src \in Source, SendAlert(t, src) PROVE RowInv'
    BY <2>5, RowSendStep
  <2>. QED
    BY <2>1, <2>2, <2>3, <2>4, <2>5 DEF Next, Environment, Advance, Detect, Failure
<1>. QED
  BY <1>1, <1>2, TypeInvariance, PTL DEF Spec

\* Each committed row is submitted for dispatch exactly once, after its commit,
\* and missed only by an execution that failed or is still at it, whatever the
\* retries and redeliveries (detect_anomalies and detect_anomalies_task).
THEOREM AlertsOncePerRow == Spec => []OneAlertPerRow
<1>1. TypeInv /\ RowInv => OneAlertPerRow
  <2> SUFFICES ASSUME TypeInv, RowInv, NEW t \in Task, NEW e \in 0..MaxExec,
                      NEW src \in Source
               PROVE  LET row == anomaly[<<t, e, src>>] IN
                      \/ row.state # "none" /\ row.alerts = 1
                      \/ row.alerts = 0 /\ \/ row.state = "none"
                                           \/ e < task[t].exec
                                           \/ task[t].state \in {"queued", "failed", "lost"}
                                           \/ task[t].state = "committed" /\ src \in run[t].work
    BY DEF OneAlertPerRow
  <2>1. RowTruth(t, e, src) /\ e \in Nat
    BY DEF RowInv
  <2>2. task[t] \in TaskRecord /\ task[t].exec \in Nat
    BY TaskFields DEF TypeInv, TypeOK
  <2>3. task[t].state \in {"free", "queued", "sampled", "checked", "committed", "done",
                          "failed", "lost"}
    BY <2>2 DEF TaskRecord
  <2>. QED
    BY <2>1, <2>2, <2>3 DEF RowTruth
<1>. QED
  BY <1>1, RowsAreTrue, TypeInvariance, PTL
-----------------------------------------------------------------------------
\* Duplicates.

AllKeys == {Key(src) : src \in Source}

\* The rows that make a key a duplicate, and the executions that have looked for
\* such rows, found none, and have yet to commit theirs.
RecentRows(key) ==
  {id \in Open : Key(id[3]) = key /\ now - anomaly[id].detected <= DedupWindow}
Holders(key) ==
  {t \in Task : task[t].state = "checked" /\ \E src \in run[t].work : Key(src) = key}
RunningTasks == {t \in Task : Running(t)}

\* An execution holds one candidate of a key.
OnePerKey ==
  \A t \in Task : task[t].state = "checked" =>
    \A a, b \in run[t].work : Key(a) = Key(b) => a = b

PoolInv == IsFiniteSet(RunningTasks) /\ Cardinality(RunningTasks) <= Workers

\* Who holds a key will add one row of it at most, and nobody begins to hold one
\* that has a recent row: rows and holders together never exceed the workers.
Shares ==
  \A key \in AllKeys :
    /\ IsFiniteSet(RecentRows(key))
    /\ Cardinality(RecentRows(key)) + Cardinality(Holders(key)) <= Workers

DupInv == PoolInv /\ OnePerKey /\ Shares

\* Smaller sets have a smaller sum.
LEMMA SumShrinks ==
  ASSUME NEW A, IsFiniteSet(A), NEW B, IsFiniteSet(B), NEW C \in SUBSET A,
         NEW D \in SUBSET B, Cardinality(A) + Cardinality(B) <= Workers
  PROVE  IsFiniteSet(C) /\ Cardinality(C) + Cardinality(D) <= Workers
<1>1. /\ IsFiniteSet(C) /\ IsFiniteSet(D)
      /\ Cardinality(C) <= Cardinality(A) /\ Cardinality(D) <= Cardinality(B)
  BY FS_Subset
<1>2. /\ Cardinality(A) \in Nat /\ Cardinality(B) \in Nat
      /\ Cardinality(C) \in Nat /\ Cardinality(D) \in Nat
  BY <1>1, FS_CardinalityType
<1>. QED
  BY <1>1, <1>2, Bounds

\* The holders of a key are running.
LEMMA HoldersRun ==
  ASSUME PoolInv, NEW key
  PROVE  /\ Holders(key) \subseteq RunningTasks /\ IsFiniteSet(Holders(key))
         /\ Cardinality(Holders(key)) \in Nat /\ Cardinality(Holders(key)) <= Workers
<1>1. Holders(key) \subseteq RunningTasks
  BY DEF Holders, RunningTasks, Running
<1>2. /\ IsFiniteSet(Holders(key)) /\ Cardinality(Holders(key)) \in Nat
      /\ Cardinality(Holders(key)) <= Cardinality(RunningTasks)
  BY <1>1, FS_Subset, FS_CardinalityType DEF PoolInv
<1>. QED
  BY <1>1, <1>2, Bounds, FS_CardinalityType DEF PoolInv

\* A step that starts no execution leaves the pool within its bound.
LEMMA PoolShrinks ==
  ASSUME PoolInv, \A t \in Task : Running(t)' => Running(t)
  PROVE  PoolInv'
<1>1. RunningTasks' \subseteq RunningTasks
  BY DEF RunningTasks
<1>2. /\ IsFiniteSet(RunningTasks') /\ Cardinality(RunningTasks') \in Nat
      /\ Cardinality(RunningTasks') <= Cardinality(RunningTasks)
  BY <1>1, FS_Subset, FS_CardinalityType DEF PoolInv
<1>. QED
  BY <1>2, Bounds, FS_CardinalityType DEF PoolInv

\* A worker that takes a message was free.
LEMMA PoolGrows ==
  ASSUME PoolInv, FreeWorker, NEW t \in Task, \A u \in Task \ {t} : Running(u)' => Running(u)
  PROVE  PoolInv'
<1>1. RunningTasks' \subseteq RunningTasks \cup {t}
  BY DEF RunningTasks
<1>2. Cardinality(RunningTasks) < Workers
  BY DEF FreeWorker, RunningTasks
<1>3. /\ IsFiniteSet(RunningTasks \cup {t})
      /\ Cardinality(RunningTasks \cup {t}) <= Cardinality(RunningTasks) + 1
      /\ Cardinality(RunningTasks) \in Nat
  BY FS_AddElement, FS_CardinalityType DEF PoolInv
<1>4. /\ IsFiniteSet(RunningTasks') /\ Cardinality(RunningTasks') \in Nat
      /\ Cardinality(RunningTasks') <= Cardinality(RunningTasks \cup {t})
      /\ Cardinality(RunningTasks \cup {t}) \in Nat
  BY <1>1, <1>3, FS_Subset, FS_CardinalityType
<1>. QED
  BY <1>2, <1>3, <1>4, Bounds DEF PoolInv

\* A step adds no open row, no holder and no time to live.
LEMMA SharesShrink ==
  ASSUME DupInv, TypeInv, TypeInv', now' >= now,
         \A id \in Id : anomaly'[id].state = "open" =>
           anomaly[id].state = "open" /\ anomaly'[id].detected = anomaly[id].detected,
         \A t \in Task : task'[t].state = "checked" =>
           task[t].state = "checked" /\ run'[t].work = run[t].work
  PROVE  OnePerKey' /\ Shares'
<1>1. OnePerKey'
  BY DEF DupInv, OnePerKey
<1>2. ASSUME NEW key \in AllKeys
      PROVE  RecentRows(key)' \subseteq RecentRows(key) /\ Holders(key)' \subseteq Holders(key)
  <2>1. Holders(key)' \subseteq Holders(key)
    BY DEF Holders
  <2>2. ASSUME NEW id \in RecentRows(key)' PROVE id \in RecentRows(key)
    <3>1. /\ id \in Id /\ anomaly'[id].state = "open" /\ Key(id[3]) = key
          /\ now' - anomaly'[id].detected <= DedupWindow
      BY DEF RecentRows, Open
    <3>2. now \in Nat /\ now' \in Nat /\ anomaly[id].detected \in Nat
      BY <3>1 DEF TypeInv, TypeOK, Row, Time
    <3>3. now - anomaly[id].detected <= DedupWindow
      BY <3>1, <3>2, Bounds
    <3>. QED
      BY <3>1, <3>3 DEF RecentRows, Open
  <2>. QED
    BY <2>1, <2>2
<1>3. Shares'
  <2> SUFFICES ASSUME NEW key \in AllKeys
               PROVE  /\ IsFiniteSet(RecentRows(key)')
                      /\ Cardinality(RecentRows(key)') + Cardinality(Holders(key)') <= Workers
    BY DEF Shares
  <2>1. /\ IsFiniteSet(RecentRows(key)) /\ IsFiniteSet(Holders(key))
        /\ Cardinality(RecentRows(key)) + Cardinality(Holders(key)) <= Workers
    BY HoldersRun DEF DupInv, Shares
  <2>2. RecentRows(key)' \in SUBSET RecentRows(key) /\ Holders(key)' \in SUBSET Holders(key)
    BY <1>2
  <2>. QED
    BY <2>1, <2>2, SumShrinks
<1>. QED
  BY <1>1, <1>3

\* An execution that looks for duplicates holds no key that has a recent row.
LEMMA CheckShares ==
  ASSUME TypeInv, DupInv, PoolInv', NEW t \in Task, Check(t)
  PROVE  OnePerKey' /\ Shares'
<1>1. /\ task[t].state = "sampled" /\ task'[t].state = "checked"
      /\ run'[t].work = Deduplicate(run[t].work)
      /\ \A u \in Task \ {t} : task'[u] = task[u] /\ run'[u] = run[u]
      /\ UNCHANGED <<now, anomaly>>
  BY DEF Check, TypeInv, TypeOK, TaskRecord, RunRecord
<1>2. run[t].work \subseteq Source
  BY DEF TypeInv, TypeOK, RunRecord
<1>3. OnePerKey'
  <2>1. ASSUME NEW a \in Deduplicate(run[t].work), NEW b \in Deduplicate(run[t].work),
               Key(a) = Key(b)
        PROVE  a = b
    <3>1. /\ a \in Source /\ b \in Source /\ a \in run[t].work /\ b \in run[t].work
          /\ ~Precedes(a, b) /\ ~Precedes(b, a)
      BY <1>2, <2>1 DEF Deduplicate
    <3>2. a = b \/ Precedes(a, b) \/ Precedes(b, a)
      BY <3>1 DEF Source, Precedes
    <3>. QED
      BY <3>1, <3>2
  <2>. QED
    BY <1>1, <2>1 DEF DupInv, OnePerKey
<1>4. ASSUME NEW key \in AllKeys
      PROVE  /\ IsFiniteSet(RecentRows(key)')
             /\ Cardinality(RecentRows(key)') + Cardinality(Holders(key)') <= Workers
  <2>1. RecentRows(key)' = RecentRows(key) /\ IsFiniteSet(RecentRows(key))
    BY <1>1 DEF RecentRows, Open, DupInv, Shares
  <2>2. CASE RecentRows(key) = {}
    <3>1. /\ Cardinality(Holders(key)') \in Nat /\ Cardinality(Holders(key)') <= Workers
      <4>1. (PoolInv => /\ Cardinality(Holders(key)) \in Nat
                        /\ Cardinality(Holders(key)) <= Workers)'
        BY HoldersRun, PTL
      <4>. QED
        BY <4>1
    <3>. QED
      BY <2>1, <2>2, <3>1, FS_EmptySet
  <2>3. CASE RecentRows(key) # {}
    <3>1. key \in RecentKeys
      BY <2>3 DEF RecentKeys, RecentRows
    <3>2. t \notin Holders(key)'
      BY <1>1, <3>1 DEF Holders, Deduplicate
    <3>3. Holders(key)' \in SUBSET Holders(key)
      BY <1>1, <3>2 DEF Holders
    <3>4. IsFiniteSet(Holders(key)) /\ RecentRows(key)' \in SUBSET RecentRows(key)
      BY <2>1, HoldersRun DEF DupInv
    <3>. QED
      BY <2>1, <3>3, <3>4, SumShrinks DEF DupInv, Shares
  <2>. QED
    BY <2>2, <2>3
<1>. QED
  BY <1>3, <1>4 DEF Shares

\* The commit turns what an execution holds of a key into one row of it.
LEMMA CommitShares ==
  ASSUME TypeInv, DupInv, NEW t \in Task, CommitRows(t)
  PROVE  OnePerKey' /\ Shares'
<1>1. /\ task[t].state = "checked" /\ task'[t].state = "committed"
      /\ \A u \in Task \ {t} : task'[u] = task[u]
      /\ UNCHANGED <<now, run>>
  BY DEF CommitRows, TypeInv, TypeOK, TaskRecord
<1>2. \A id \in Id : anomaly'[id].state = "open" =>
        \/ anomaly'[id] = anomaly[id]
        \/ \E src \in run[t].work : id = RowOf(t, src)
  BY DEF CommitRows
<1>3. OnePerKey'
  BY <1>1 DEF DupInv, OnePerKey
<1>4. ASSUME NEW key \in AllKeys
      PROVE  /\ IsFiniteSet(RecentRows(key)')
             /\ Cardinality(RecentRows(key)') + Cardinality(Holders(key)') <= Workers
  <2>1. /\ IsFiniteSet(RecentRows(key)) /\ IsFiniteSet(Holders(key))
        /\ Cardinality(RecentRows(key)) + Cardinality(Holders(key)) <= Workers
    BY HoldersRun DEF DupInv, Shares
  <2>2. Holders(key)' = Holders(key) \ {t}
    BY <1>1 DEF Holders
  <2>3. \A id \in RecentRows(key)' :
          \/ id \in RecentRows(key)
          \/ \E src \in run[t].work : Key(src) = key /\ id = RowOf(t, src)
    <3> SUFFICES ASSUME NEW id \in RecentRows(key)', id \notin RecentRows(key)
                 PROVE  \E src \in run[t].work : Key(src) = key /\ id = RowOf(t, src)
      OBVIOUS
    <3>1. /\ id \in Id /\ anomaly'[id].state = "open" /\ Key(id[3]) = key
          /\ now' - anomaly'[id].detected <= DedupWindow
      BY DEF RecentRows, Open
    <3>2. anomaly'[id] # anomaly[id]
      BY <1>1, <3>1 DEF RecentRows, Open
    <3>3. PICK src \in run[t].work : id = RowOf(t, src)
      BY <1>2, <3>1, <3>2
    <3>4. id[3] = src
      BY <3>3 DEF RowOf
    <3>. QED
      BY <3>1, <3>3, <3>4
  <2>4. CASE t \notin Holders(key)
    <3>1. \A src \in run[t].work : Key(src) # key
      BY <1>1, <2>4 DEF Holders
    <3>2. RecentRows(key)' \in SUBSET RecentRows(key) /\ Holders(key)' \in SUBSET Holders(key)
      BY <2>2, <2>3, <3>1
    <3>. QED
      BY <2>1, <3>2, SumShrinks
  <2>5. CASE t \in Holders(key)
    <3>1. PICK src \in run[t].work : Key(src) = key
      BY <2>5 DEF Holders
    <3>2. \A s \in run[t].work : Key(s) = key => s = src
      BY <1>1, <3>1 DEF DupInv, OnePerKey
    <3> DEFINE more == RecentRows(key) \cup {RowOf(t, src)}
    <3>3. RecentRows(key)' \subseteq more
      BY <2>3, <3>2
    <3>4. IsFiniteSet(more) /\ Cardinality(more) <= Cardinality(RecentRows(key)) + 1
      <4>1. Cardinality(RecentRows(key)) \in Nat
        BY <2>1, FS_CardinalityType
      <4>2. /\ IsFiniteSet(more)
            /\ \/ Cardinality(more) = Cardinality(RecentRows(key))
               \/ Cardinality(more) = Cardinality(RecentRows(key)) + 1
        BY <2>1, FS_AddElement
      <4>. QED
        BY <4>1, <4>2
    <3> HIDE DEF more
    <3>5. IsFiniteSet(RecentRows(key)') /\ Cardinality(RecentRows(key)') <= Cardinality(more)
      BY <3>3, <3>4, FS_Subset
    <3>6. /\ Cardinality(Holders(key)') = Cardinality(Holders(key)) - 1
          /\ IsFiniteSet(Holders(key)')
      BY <2>1, <2>2, <2>5, FS_RemoveElement
    <3>7. /\ Cardinality(RecentRows(key)) \in Nat /\ Cardinality(RecentRows(key)') \in Nat
          /\ Cardinality(Holders(key)) \in Nat /\ Cardinality(Holders(key)') \in Nat
          /\ Cardinality(more) \in Nat
      BY <2>1, <3>4, <3>5, <3>6, FS_CardinalityType
    <3>. QED
      BY <2>1, <3>4, <3>5, <3>6, <3>7, Bounds
  <2>. QED
    BY <2>4, <2>5
<1>. QED
  BY <1>3, <1>4 DEF Shares

\* Rows and holders of a key never exceed the workers.
THEOREM SharesInvariance == Spec => []DupInv
<1>1. Init => DupInv
  <2> SUFFICES ASSUME Init PROVE DupInv
    OBVIOUS
  <2>1. RunningTasks = {} /\ \A key : Holders(key) = {} /\ RecentRows(key) = {}
    BY DEF Init, RunningTasks, Running, Holders, RecentRows, Open, FreeTask, NoRow
  <2>2. OnePerKey
    BY DEF Init, OnePerKey, FreeTask
  <2>. QED
    BY <2>1, <2>2, Bounds, FS_EmptySet DEF DupInv, PoolInv, Shares
<1>2. TypeInv /\ TypeInv' /\ DupInv /\ [Next]_vars => DupInv'
  <2> SUFFICES ASSUME TypeInv, TypeInv', DupInv, [Next]_vars PROVE DupInv'
    OBVIOUS
  <2>a. /\ now \in Nat /\ anomaly \in [Id -> Row] /\ task \in [Task -> TaskRecord]
        /\ run \in [Task -> RunRecord]
    BY DEF TypeInv, TypeOK, Time
  <2>1. CASE Tick \/ Withdraw \/ (\E id \in Id : Resolve(id)) \/ UNCHANGED vars
    <3>1. /\ now' >= now /\ UNCHANGED <<task, run>>
          /\ \A id \in Id : anomaly'[id].state = "open" =>
               anomaly[id].state = "open" /\ anomaly'[id].detected = anomaly[id].detected
      BY <2>a, <2>1 DEF Tick, Withdraw, Resolve, vars, Row
    <3>2. PoolInv'
      BY <3>1, PoolShrinks DEF DupInv, Running
    <3>. QED
      BY <3>1, <3>2, SharesShrink DEF DupInv
  <2>2. ASSUME NEW t \in Task, NoHistory(t) \/ \E churn \in Churn : Sample(t, churn)
        PROVE  DupInv'
    <3>1. /\ UNCHANGED <<now, anomaly>> /\ FreeWorker
          /\ task'[t].state \in {"sampled", "done"}
          /\ \A u \in Task \ {t} : task'[u] = task[u] /\ run'[u] = run[u]
      BY <2>a, <2>2 DEF Sample, NoHistory, TaskRecord
    <3>2. PoolInv'
      BY <3>1, PoolGrows DEF DupInv, Running
    <3>. QED
      BY <2>a, <3>1, <3>2, SharesShrink DEF DupInv
  <2>3. ASSUME NEW t \in Task, Check(t) PROVE DupInv'
    <3>1. PoolInv'
      BY <2>a, <2>3, PoolShrinks DEF Check, DupInv, Running, TaskRecord
    <3>. QED
      BY <2>3, <3>1, CheckShares DEF DupInv
  <2>4. ASSUME NEW t \in Task, CommitRows(t) PROVE DupInv'
    <3>1. PoolInv'
      BY <2>a, <2>4, PoolShrinks DEF CommitRows, DupInv, Running, TaskRecord
    <3>. QED
      BY <2>4, <3>1, CommitShares DEF DupInv
  <2>5. ASSUME NEW t \in Task, NEW src \in Source, SendAlert(t, src) PROVE DupInv'
    <3>1. RowOf(t, src) \in Id
      BY RowHasId
    <3>2. /\ UNCHANGED <<now, task>>
          /\ \A id \in Id : /\ anomaly'[id].state = anomaly[id].state
                            /\ anomaly'[id].detected = anomaly[id].detected
          /\ \A u \in Task : task[u].state = "checked" => run'[u] = run[u]
      BY <2>a, <2>5, <3>1 DEF SendAlert, Row
    <3>3. PoolInv'
      BY <3>2, PoolShrinks DEF DupInv, Running
    <3>. QED
      BY <2>a, <3>2, <3>3, SharesShrink DEF DupInv
  <2>6. ASSUME NEW t \in Task, \/ Submit(t) \/ Finish(t) \/ RetryTask(t) \/ GiveUp(t)
                               \/ ChildDies(t) \/ HostDies(t)
        PROVE  DupInv'
    <3>1. /\ UNCHANGED <<now, anomaly>>
          /\ task'[t].state \in {"queued", "done", "failed", "lost"}
          /\ \A u \in Task \ {t} : task'[u] = task[u] /\ run'[u] = run[u]
      BY <2>a, <2>6 DEF Submit, Finish, RetryTask, GiveUp, ChildDies, HostDies,
                        EndRun, TaskRecord
    <3>2. PoolInv'
      BY <3>1, PoolShrinks DEF DupInv, Running
    <3>. QED
      BY <2>a, <3>1, <3>2, SharesShrink DEF DupInv
  <2>. QED
    BY <2>1, <2>2, <2>3, <2>4, <2>5, <2>6
       DEF Next, Environment, Advance, Detect, Failure
<1>. QED
  BY <1>1, <1>2, TypeInvariance, PTL DEF Spec

\* Operators are told of one trouble at most as often as there are workers,
\* whatever was retried, delivered again or resolved meanwhile (_deduplicate and
\* the commit after it are two steps).
THEOREM DuplicatesAreBounded == Spec => []DuplicatesOnlyByOverlap
<1>1. DupInv => DuplicatesOnlyByOverlap
  <2> SUFFICES ASSUME DupInv, NEW key \in AllKeys
               PROVE  Cardinality(RecentRows(key)) <= Workers
    BY DEF DuplicatesOnlyByOverlap, RecentRows, AllKeys
  <2>1. /\ IsFiniteSet(RecentRows(key))
        /\ Cardinality(RecentRows(key)) + Cardinality(Holders(key)) <= Workers
        /\ Cardinality(Holders(key)) \in Nat
    BY HoldersRun DEF DupInv, Shares
  <2>2. Cardinality(RecentRows(key)) \in Nat
    BY <2>1, FS_CardinalityType
  <2>. QED
    BY <2>1, <2>2, Bounds
<1>. QED
  BY <1>1, SharesInvariance, PTL

(***************************************************************************)
(* The detector and the dispatcher.                                        *)
(***************************************************************************)
-----------------------------------------------------------------------------
\* The inductive invariant.  The shape of the dispatcher's state, whose counters
\* need no bounds here.
MessageRecord ==
  [state : {"free", "queued", "running", "committed", "succeeded", "failed", "lost"},
   origin : {"detector", "operator"}, anomaly : Id \cup {NoAnomaly},
   retries : Nat, late : Nat, redelivered : Nat, exec : Nat]

RowStates == Dispatcher!Status \cup {"none"}
SendingRecord == [matched : SUBSET Sub, row : [Sub -> RowStates], tries : Nat]
PostShape == [task : Message, exec : Nat, sub : Sub, no : Nat, ok : BOOLEAN]

Shapes ==
  /\ subs \subseteq Sub
  /\ message \in [Message -> MessageRecord]
  /\ sending \in [Message -> SendingRecord]
  /\ posts \subseteq PostShape

\* Messages in use are about a row of the table, and only they have executions,
\* POSTs and alerts.
Used(m) == message[m].state # "free"

InUse ==
  /\ \A m \in Message :
       /\ Used(m) <=> message[m].anomaly \in Id
       /\ message[m].state = "running" => message[m].exec > 0
  /\ \A p \in posts : Used(p.task)
  /\ \A al \in alerts : al.task \in Message /\ Used(al.task)

\* A message of the detector is about a row that counts its submission, and no
\* other message of the detector is.
OfDetector(m) == Used(m) /\ message[m].origin = "detector"

Submitted ==
  /\ \A m \in Message : OfDetector(m) => anomaly[message[m].anomaly].alerts > 0
  /\ \A m, n \in Message :
       /\ OfDetector(m) /\ OfDetector(n) /\ message[m].anomaly = message[n].anomaly
       => m = n

\* What was accepted in an execution that is still running has its row settled,
\* and so nothing is accepted twice in one execution.
Accepted ==
  /\ \A p \in posts :
       /\ 0 < p.exec /\ p.exec <= message[p.task].exec
       /\ p.ok /\ p.exec = message[p.task].exec /\ message[p.task].state = "running"
          => sending[p.task].row[p.sub] = "DELIVERED"
  /\ \A p, q \in posts :
       /\ p.ok /\ q.ok /\ p.task = q.task /\ p.exec = q.exec /\ p.sub = q.sub
       => p = q

JointInv == Shapes /\ InUse /\ Submitted /\ Accepted

-----------------------------------------------------------------------------
\* The detector.

\* Joined with the dispatcher the detector takes no step that it could not take
\* alone: what AnomalyDetection promises holds of the two together.
THEOREM DetectsAsAlone == AlertingSpec => Spec
<1>1. AlertingInit => Init
  BY DEF AlertingInit
<1>2. [AlertingNext]_allVars => [Next]_vars
  BY DEF AlertingNext, DetectionWorker, SubmitAlert, RequestRetry, DispatchWorker, allVars,
         Next, Advance
<1>. QED
  BY <1>1, <1>2, PTL DEF AlertingSpec, Spec

DetectorInv == TypeInv /\ RowInv /\ DupInv

\* Its invariants are kept.
LEMMA DetectorInvariance == AlertingSpec => []DetectorInv
BY DetectsAsAlone, TypeInvariance, RowsAreTrue, SharesInvariance, PTL DEF DetectorInv

\* A submission that a row has counted is never forgotten: only fresh rows are
\* committed.
LEMMA SubmissionsStay ==
  ASSUME TypeInv, RowInv, [Next]_vars, NEW id \in Id, anomaly[id].alerts > 0
  PROVE  anomaly'[id].alerts > 0
<1>1. /\ anomaly \in [Id -> Row] /\ anomaly[id].alerts \in Nat
      /\ task \in [Task -> TaskRecord] /\ run \in [Task -> RunRecord]
  BY DEF TypeInv, TypeOK, Row
<1>2. CASE UNCHANGED anomaly
  BY <1>2
<1>3. ASSUME NEW i \in Id, Resolve(i) PROVE anomaly'[id].alerts > 0
  <2>1. anomaly'[id].alerts = anomaly[id].alerts
    BY <1>1, <1>3 DEF Resolve, Row
  <2>. QED
    BY <2>1
<1>4. ASSUME NEW t \in Task, CommitRows(t) PROVE anomaly'[id].alerts > 0
  <2>1. ASSUME NEW src \in run[t].work, id = RowOf(t, src) PROVE FALSE
    <3>1. src \in Source /\ task[t].exec \in 0..MaxExec
      BY <1>1 DEF RunRecord, TaskRecord
    <3>2. RowTruth(t, task[t].exec, src)
      BY <3>1 DEF RowInv
    <3>3. task[t].state = "checked"
      BY <1>4 DEF CommitRows
    <3>. QED
      BY <1>1, <2>1, <3>2, <3>3 DEF RowTruth, RowOf
  <2>2. anomaly'[id] = anomaly[id]
    BY <1>4, <2>1 DEF CommitRows
  <2>. QED
    BY <2>2
<1>5. ASSUME NEW t \in Task, NEW src \in Source, SendAlert(t, src)
      PROVE  anomaly'[id].alerts > 0
  <2>1. anomaly'[id].alerts \in {anomaly[id].alerts, anomaly[id].alerts + 1}
    BY <1>1, <1>5 DEF SendAlert, Row
  <2>. QED
    BY <1>1, <2>1
<1>6. \/ UNCHANGED anomaly \/ \E i \in Id : Resolve(i) \/ \E t \in Task : CommitRows(t)
      \/ \E t \in Task, src \in Source : SendAlert(t, src)
  BY DEF Next, Environment, Advance, Detect, Failure, vars, Tick, Withdraw, Submit, NoHistory,
         Sample, Check, Finish, RetryTask, GiveUp, ChildDies, HostDies
<1>. QED
  BY <1>2, <1>3, <1>4, <1>5, <1>6

\* A row is submitted when it has its place in the table and has not been
\* submitted before, and counts the submission from then on.
LEMMA SubmitsFresh ==
  ASSUME TypeInv, RowInv, NEW t \in Task, NEW src \in Source, SendAlert(t, src)
  PROVE  /\ RowOf(t, src) \in Id
         /\ anomaly[RowOf(t, src)].alerts = 0 /\ anomaly'[RowOf(t, src)].alerts > 0
<1>1. RowOf(t, src) \in Id /\ task[t].exec \in 0..MaxExec /\ anomaly \in [Id -> Row]
  BY RowHasId DEF TypeInv, TypeOK, TaskRecord
<1>2. RowTruth(t, task[t].exec, src)
  BY <1>1 DEF RowInv
<1>3. anomaly[RowOf(t, src)].alerts = 0
  BY <1>2 DEF RowTruth, RowOf, SendAlert
<1>4. anomaly'[RowOf(t, src)].alerts = 1
  BY <1>1, <1>3 DEF SendAlert, Row
<1>. QED
  BY <1>1, <1>3, <1>4

-----------------------------------------------------------------------------
\* The steps of the two.

\* No row's submission is forgotten in a step.
RowsRemember == \A id \in Id : anomaly[id].alerts > 0 => anomaly'[id].alerts > 0

\* A step of the detector alone.
LEMMA DetectorStep ==
  ASSUME JointInv, RowsRemember, UNCHANGED dispatcherVars
  PROVE  JointInv'
<1>1. Shapes' /\ InUse' /\ Accepted'
  BY DEF JointInv, Shapes, InUse, Accepted, Used, dispatcherVars
<1>2. \A m \in Message : OfDetector(m) => message[m].anomaly \in Id
  BY DEF JointInv, InUse, OfDetector
<1>3. Submitted'
  BY <1>2 DEF JointInv, Submitted, OfDetector, Used, RowsRemember, dispatcherVars
<1>. QED
  BY <1>1, <1>3 DEF JointInv

\* A webhook is registered.
LEMMA RegisterStep ==
  ASSUME JointInv, UNCHANGED anomaly, NEW s \in Sub, Dispatcher!RegisterWebhook(s)
  PROVE  JointInv'
BY DEF JointInv, Shapes, InUse, Submitted, Accepted, Used, OfDetector,
       Dispatcher!RegisterWebhook

\* A message is put into the queue, by the operator or by the detector for a row
\* that it has not submitted before.
LEMMA EnqueueStep ==
  ASSUME JointInv, RowsRemember, NEW m \in Message, NEW id \in Id,
         NEW origin \in {"detector", "operator"}, Dispatcher!Enqueue(m, id, origin),
         origin = "detector" => anomaly[id].alerts = 0 /\ anomaly'[id].alerts > 0
  PROVE  JointInv'
<1> DEFINE r == [message[m] EXCEPT !.state = "queued", !.origin = origin, !.anomaly = id]
<1>1. message \in [Message -> MessageRecord] /\ message[m] \in MessageRecord
  BY DEF JointInv, Shapes
<1>2. message[m].state = "free" /\ message' = [message EXCEPT ![m] = r]
      /\ UNCHANGED <<subs, sending, alerts, posts>>
  BY <1>1 DEF Dispatcher!Enqueue
<1>3. r \in MessageRecord /\ r.state = "queued" /\ r.origin = origin /\ r.anomaly = id
  BY <1>1 DEF MessageRecord
<1> HIDE DEF r
<1>4. \A n \in Message : message'[n] = IF n = m THEN r ELSE message[n]
  BY <1>1, <1>2
<1>5. Shapes'
  BY <1>1, <1>2, <1>3 DEF JointInv, Shapes
<1>6. \A p \in posts : p.task \in Message /\ p.task # m
  BY <1>2 DEF JointInv, Shapes, PostShape, InUse, Used
<1>7. \A al \in alerts : al.task \in Message /\ al.task # m
  BY <1>2 DEF JointInv, InUse, Used
<1>8. InUse'
  BY <1>2, <1>3, <1>4, <1>6, <1>7 DEF JointInv, InUse, Used
<1>9. Accepted'
  BY <1>2, <1>4, <1>6 DEF JointInv, Accepted
<1>10. \A n \in Message : n # m => (OfDetector(n)' <=> OfDetector(n))
  BY <1>4 DEF OfDetector, Used
<1>11. \A n \in Message : OfDetector(n) =>
         message[n].anomaly \in Id /\ anomaly[message[n].anomaly].alerts > 0
  BY DEF JointInv, InUse, Submitted, OfDetector
<1>12. ASSUME NEW n \in Message, OfDetector(n)'
       PROVE  anomaly'[message'[n].anomaly].alerts > 0
  <2>1. CASE n = m
    BY <1>3, <1>4, <1>12, <2>1 DEF OfDetector
  <2>2. CASE n # m
    BY <1>4, <1>10, <1>11, <1>12, <2>2 DEF RowsRemember
  <2>. QED
    BY <2>1, <2>2
<1>13. ASSUME NEW n \in Message, OfDetector(n)', OfDetector(m)', n # m,
              message'[n].anomaly = message'[m].anomaly
       PROVE  FALSE
  BY <1>3, <1>4, <1>10, <1>11, <1>13 DEF OfDetector
<1>14. ASSUME NEW n \in Message, NEW k \in Message, OfDetector(n)', OfDetector(k)',
              message'[n].anomaly = message'[k].anomaly
       PROVE  n = k
  BY <1>4, <1>10, <1>13, <1>14 DEF JointInv, Submitted
<1>15. Submitted'
  BY <1>12, <1>14 DEF Submitted
<1>. QED
  BY <1>5, <1>8, <1>9, <1>15 DEF JointInv

\* A message in use goes on, ends or goes back to the queue, and may leave alerts.
LEMMA MessageStep ==
  ASSUME JointInv, UNCHANGED <<anomaly, subs, sending, posts>>,
         NEW m \in Message, Used(m), NEW r \in MessageRecord,
         message' = [message EXCEPT ![m] = r], r.state \notin {"free", "running"},
         r.origin = message[m].origin, r.anomaly = message[m].anomaly,
         r.exec = message[m].exec,
         \A al \in alerts' : al \in alerts \/ al.task = m
  PROVE  JointInv'
<1>1. message \in [Message -> MessageRecord]
  BY DEF JointInv, Shapes
<1>2. \A n \in Message : message'[n] = IF n = m THEN r ELSE message[n]
  BY <1>1
<1>3. \A n \in Message : /\ Used(n)' <=> Used(n)
                         /\ OfDetector(n)' <=> OfDetector(n)
                         /\ message'[n].anomaly = message[n].anomaly
                         /\ message'[n].exec = message[n].exec
                         /\ message'[n].state = "running" => message[n].state = "running"
  BY <1>2 DEF Used, OfDetector
<1>4. \A p \in posts : p.task \in Message
  BY DEF JointInv, Shapes, PostShape
<1>5. Shapes'
  BY <1>1 DEF JointInv, Shapes
<1>6. InUse'
  BY <1>3, <1>4 DEF JointInv, InUse
<1>7. Submitted'
  BY <1>3 DEF JointInv, Submitted
<1>8. Accepted'
  BY <1>3, <1>4 DEF JointInv, Accepted
<1>. QED
  BY <1>5, <1>6, <1>7, <1>8 DEF JointInv

\* A worker begins an execution, of which nothing has been recorded.
LEMMA BeginStep ==
  ASSUME JointInv, UNCHANGED anomaly, NEW m \in Message, Dispatcher!Begin(m)
  PROVE  JointInv'
<1> DEFINE r == [message[m] EXCEPT !.state = "running", !.exec = @ + 1]
           w == [Dispatcher!EmptyRun EXCEPT !.matched = Dispatcher!Matching(message[m].anomaly)]
<1>1. /\ message \in [Message -> MessageRecord] /\ message[m] \in MessageRecord
      /\ sending \in [Message -> SendingRecord] /\ subs \subseteq Sub
      /\ message[m].exec \in Nat
  BY DEF JointInv, Shapes, MessageRecord
<1>2. /\ message[m].state = "queued" /\ message' = [message EXCEPT ![m] = r]
      /\ sending' = [sending EXCEPT ![m] = w] /\ UNCHANGED <<subs, alerts, posts>>
  BY <1>1 DEF Dispatcher!Begin
<1>3. /\ r \in MessageRecord /\ r.state = "running" /\ r.origin = message[m].origin
      /\ r.anomaly = message[m].anomaly /\ r.exec = message[m].exec + 1
  <2>1. message[m].exec + 1 \in Nat
    BY <1>1
  <2> DEFINE next == message[m].exec + 1
             u == [message[m] EXCEPT !.state = "running", !.exec = next]
  <2>2. next \in Nat /\ r = u
    BY <2>1
  <2> HIDE DEF next
  <2>3. /\ u \in MessageRecord /\ u.state = "running" /\ u.origin = message[m].origin
        /\ u.anomaly = message[m].anomaly /\ u.exec = next
    BY <1>1, <2>2 DEF MessageRecord
  <2>. QED
    BY <2>2, <2>3 DEF next
<1>4. w \in SendingRecord
  <2>1. [s \in Sub |-> "none"] \in [Sub -> RowStates]
    BY DEF RowStates
  <2>2. Dispatcher!Matching(message[m].anomaly) \subseteq Sub
    BY <1>1 DEF Dispatcher!Matching
  <2>. QED
    BY <2>1, <2>2 DEF Dispatcher!EmptyRun, SendingRecord
<1> HIDE DEF r, w
<1>5. \A n \in Message : /\ message'[n] = IF n = m THEN r ELSE message[n]
                         /\ n # m => sending'[n] = sending[n]
  BY <1>1, <1>2
<1>6. \A n \in Message : /\ Used(n)' <=> Used(n)
                         /\ OfDetector(n)' <=> OfDetector(n)
                         /\ message'[n].anomaly = message[n].anomaly
  BY <1>2, <1>3, <1>5 DEF Used, OfDetector
<1>7. Shapes'
  BY <1>1, <1>2, <1>3, <1>4 DEF JointInv, Shapes
<1>8. \A p \in posts : p.task \in Message /\ p.exec \in Nat
  BY DEF JointInv, Shapes, PostShape
<1>9. \A al \in alerts : al.task \in Message
  BY DEF JointInv, InUse
<1>10. \A n \in Message : message'[n].state = "running" => message'[n].exec > 0
  BY <1>1, <1>3, <1>5 DEF JointInv, InUse
<1>11. InUse'
  BY <1>2, <1>6, <1>8, <1>9, <1>10 DEF JointInv, InUse
<1>12. Submitted'
  BY <1>6 DEF JointInv, Submitted
<1>13. ASSUME NEW p \in posts
       PROVE  /\ 0 < p.exec /\ p.exec <= message'[p.task].exec
              /\ p.ok /\ p.exec = message'[p.task].exec /\ message'[p.task].state = "running"
                 => sending'[p.task].row[p.sub] = "DELIVERED"
  <2>1. /\ 0 < p.exec /\ p.exec <= message[p.task].exec
        /\ p.ok /\ p.exec = message[p.task].exec /\ message[p.task].state = "running"
           => sending[p.task].row[p.sub] = "DELIVERED"
    BY DEF JointInv, Accepted
  <2>2. CASE p.task = m
    <3>1. p.exec < message'[p.task].exec
      BY <1>1, <1>3, <1>5, <1>8, <2>1, <2>2
    <3>. QED
      BY <1>1, <1>3, <1>5, <1>8, <2>1, <2>2, <3>1
  <2>3. CASE p.task # m
    BY <1>5, <1>8, <2>1, <2>3
  <2>. QED
    BY <2>2, <2>3
<1>14. Accepted'
  BY <1>2, <1>13 DEF JointInv, Accepted
<1>. QED
  BY <1>7, <1>11, <1>12, <1>14 DEF JointInv

\* The loop goes to the next webhook: none of its POSTs has been accepted.
LEMMA AddAlertStep ==
  ASSUME JointInv, UNCHANGED anomaly, NEW m \in Message, NEW s \in Sub,
         Dispatcher!AddAlert(m, s)
  PROVE  JointInv'
<1> DEFINE w == [matched |-> sending[m].matched,
                 row |-> [sending[m].row EXCEPT ![s] = "PENDING"], tries |-> 0]
<1>1. sending \in [Message -> SendingRecord] /\ sending[m] \in SendingRecord
  BY DEF JointInv, Shapes
<1>2. /\ sending[m].matched \subseteq Sub /\ sending[m].row \in [Sub -> RowStates]
  BY <1>1 DEF SendingRecord
<1>3. /\ sending' = [sending EXCEPT ![m] = w] /\ UNCHANGED <<subs, message, alerts, posts>>
      /\ sending[m].row[s] = "none"
  BY DEF Dispatcher!AddAlert, Dispatcher!SetRow, Dispatcher!Waiting
<1>4. w \in SendingRecord /\ \A z \in Sub : z # s => w.row[z] = sending[m].row[z]
  BY <1>2 DEF SendingRecord, RowStates, Dispatcher!Status
<1> HIDE DEF w
<1>5. \A n \in Message : sending'[n] = IF n = m THEN w ELSE sending[n]
  BY <1>1, <1>3
<1>6. \A p \in posts : p.task \in Message /\ p.sub \in Sub
  BY DEF JointInv, Shapes, PostShape
<1>7. Shapes' /\ InUse' /\ Submitted'
  BY <1>1, <1>3, <1>4 DEF JointInv, Shapes, InUse, Submitted, Used, OfDetector
<1>8. Accepted'
  BY <1>3, <1>4, <1>5, <1>6 DEF JointInv, Accepted
<1>. QED
  BY <1>7, <1>8 DEF JointInv

\* A webhook in flight is sent a POST: none before it has been accepted in this
\* execution, and if this one is, its row is settled.
LEMMA PostStep ==
  ASSUME JointInv, UNCHANGED anomaly, NEW m \in Message, NEW s \in Sub, NEW ok \in BOOLEAN,
         Dispatcher!PostWebhook(m, s, ok)
  PROVE  JointInv'
<1> DEFINE no == sending[m].tries + 1
           p0 == [task |-> m, exec |-> message[m].exec, sub |-> s, no |-> no, ok |-> ok]
           w == [matched |-> sending[m].matched,
                 row |-> [sending[m].row EXCEPT ![s] = Dispatcher!Outcome(no, ok)],
                 tries |-> no]
<1>1. /\ message \in [Message -> MessageRecord] /\ message[m].exec \in Nat
      /\ sending \in [Message -> SendingRecord] /\ sending[m] \in SendingRecord
  BY DEF JointInv, Shapes, MessageRecord
<1>2. /\ sending[m].matched \subseteq Sub /\ sending[m].row \in [Sub -> RowStates]
      /\ no \in Nat
  BY <1>1 DEF SendingRecord
<1>3. /\ sending' = [sending EXCEPT ![m] = w] /\ posts' = posts \cup {p0}
      /\ UNCHANGED <<subs, message, alerts>>
      /\ message[m].state = "running" /\ sending[m].row[s] = "PENDING"
  BY DEF Dispatcher!PostWebhook, Dispatcher!SetRow, Dispatcher!InFlight
<1>4. Dispatcher!Outcome(no, ok) \in RowStates /\ (ok => Dispatcher!Outcome(no, ok) = "DELIVERED")
  BY DEF Dispatcher!Outcome, RowStates, Dispatcher!Status
<1>5. /\ w \in SendingRecord /\ \A z \in Sub : z # s => w.row[z] = sending[m].row[z]
      /\ ok => w.row[s] = "DELIVERED"
  BY <1>2, <1>4 DEF SendingRecord
<1>6. p0 \in PostShape
  BY <1>1, <1>2 DEF PostShape
<1>7. /\ p0.task = m /\ p0.exec = message[m].exec /\ p0.sub = s /\ p0.ok = ok
      /\ message[m].exec > 0
  BY <1>3 DEF JointInv, InUse
<1> HIDE DEF w, p0, no
<1>8. \A n \in Message : sending'[n] = IF n = m THEN w ELSE sending[n]
  BY <1>1, <1>3
<1>9. \A p \in posts : p.task \in Message /\ p.sub \in Sub
  BY DEF JointInv, Shapes, PostShape
<1>10. Shapes'
  BY <1>1, <1>3, <1>5, <1>6 DEF JointInv, Shapes
<1>11. InUse' /\ Submitted'
  BY <1>3, <1>7 DEF JointInv, InUse, Submitted, Used, OfDetector
<1>12. \A p \in posts :
         /\ 0 < p.exec /\ p.exec <= message[p.task].exec
         /\ p.ok /\ p.exec = message[p.task].exec /\ message[p.task].state = "running"
            => sending[p.task].row[p.sub] = "DELIVERED"
  BY DEF JointInv, Accepted
<1>13. \A p \in posts :
         p.task = m /\ p.exec = message[m].exec /\ p.sub = s => ~p.ok
  BY <1>3, <1>12
<1>14. \A p, q \in posts' :
         /\ p.ok /\ q.ok /\ p.task = q.task /\ p.exec = q.exec /\ p.sub = q.sub
         => p = q
  BY <1>3, <1>7, <1>13 DEF JointInv, Accepted
<1>15. \A p \in posts' :
         /\ 0 < p.exec /\ p.exec <= message[p.task].exec
         /\ p.ok /\ p.exec = message[p.task].exec /\ message[p.task].state = "running"
            => sending'[p.task].row[p.sub] = "DELIVERED"
  <2>1. ASSUME NEW p \in posts, p.ok, p.exec = message[p.task].exec,
               message[p.task].state = "running"
        PROVE  sending'[p.task].row[p.sub] = "DELIVERED"
    BY <1>5, <1>8, <1>9, <1>12, <1>13, <2>1
  <2>2. 0 < p0.exec /\ p0.exec <= message[p0.task].exec
    BY <1>1, <1>7
  <2>3. p0.ok => sending'[p0.task].row[p0.sub] = "DELIVERED"
    BY <1>5, <1>7, <1>8
  <2>. QED
    BY <1>3, <1>12, <2>1, <2>2, <2>3
<1>16. Accepted'
  BY <1>3, <1>14, <1>15 DEF Accepted
<1>. QED
  BY <1>10, <1>11, <1>16 DEF JointInv

\* The other steps of a worker and its failures.
LEMMA EndStep ==
  ASSUME JointInv, UNCHANGED anomaly, NEW m \in Message,
         Dispatcher!Commit(m) \/ Dispatcher!Ack(m) \/ Dispatcher!Failure(m)
  PROVE  JointInv'
<1> USE DEF Dispatcher!Commit, Dispatcher!Ack, Dispatcher!Failure, Dispatcher!RetryTask,
            Dispatcher!GiveUp, Dispatcher!ChildDies, Dispatcher!HostDies
<1>1. /\ message \in [Message -> MessageRecord] /\ message[m] \in MessageRecord
      /\ message[m].retries \in Nat /\ message[m].redelivered \in Nat
      /\ message[m].late \in Nat
  BY DEF JointInv, Shapes, MessageRecord
<1>2. Used(m) /\ UNCHANGED <<subs, sending, posts>>
  BY DEF Used, Dispatcher!Commit
<1>3. \A al \in alerts' : al \in alerts \/ al.task = m
  BY DEF Dispatcher!Staged
<1> DEFINE With(st, rt, lt, rd) ==
      message' = [message EXCEPT ![m] =
                    [message[m] EXCEPT !.state = st, !.retries = rt, !.late = lt,
                                       !.redelivered = rd]]
<1>4. \E st \in {"queued", "committed", "succeeded", "failed", "lost"} :
        \E rt, lt, rd \in Nat : With(st, rt, lt, rd)
  <2>1. CASE Dispatcher!RetryTask(m)
    <3> DEFINE lt == IF message[m].state = "committed" THEN message[m].late + 1
                    ELSE message[m].late
    <3>1. With("queued", message[m].retries + 1, lt, message[m].redelivered)
      BY <1>1, <2>1 DEF MessageRecord
    <3>2. message[m].retries + 1 \in Nat /\ lt \in Nat
      BY <1>1
    <3> HIDE DEF lt
    <3> HIDE DEF With
    <3>. QED
      BY <1>1, <3>1, <3>2
  <2>2. CASE Dispatcher!HostDies(m)
    <3>1. With("queued", message[m].retries, message[m].late, message[m].redelivered + 1)
      BY <1>1, <2>2 DEF MessageRecord
    <3>2. message[m].redelivered + 1 \in Nat
      BY <1>1
    <3> HIDE DEF With
    <3>. QED
      BY <1>1, <3>1, <3>2
  <2>3. CASE Dispatcher!Commit(m) \/ Dispatcher!Ack(m) \/ Dispatcher!GiveUp(m)
             \/ Dispatcher!ChildDies(m)
    <3>1. PICK st \in {"committed", "succeeded", "failed", "lost"} :
            message' = [message EXCEPT ![m].state = st]
      BY <2>3
    <3>2. With(st, message[m].retries, message[m].late, message[m].redelivered)
      BY <1>1, <3>1 DEF MessageRecord
    <3> HIDE DEF With
    <3>. QED
      BY <1>1, <3>2
  <2>. QED
    BY <2>1, <2>2, <2>3
<1>5. PICK st \in {"queued", "committed", "succeeded", "failed", "lost"},
           rt \in Nat, lt \in Nat, rd \in Nat : With(st, rt, lt, rd)
  <2> HIDE DEF With
  <2>. QED
    BY <1>4
<1> DEFINE r == [message[m] EXCEPT !.state = st, !.retries = rt, !.late = lt,
                                !.redelivered = rd]
<1>6. /\ r \in MessageRecord /\ r.state \notin {"free", "running"}
      /\ r.origin = message[m].origin /\ r.anomaly = message[m].anomaly
      /\ r.exec = message[m].exec /\ message' = [message EXCEPT ![m] = r]
  BY <1>1, <1>5 DEF MessageRecord
<1> HIDE DEF r
<1>. QED
  BY <1>2, <1>3, <1>6, MessageStep

\* A free message is at hand when there is one.
LEMMA NextIsFree ==
  ASSUME FreeMessages # {}
  PROVE  NextMessage \in Message /\ message[NextMessage].state = "free"
BY DEF FreeMessages, NextMessage

\* What the detector submits has not been submitted before.
LEMMA SubmittedOnce ==
  ASSUME JointInv, NEW id \in Id, anomaly[id].alerts = 0, NEW m \in Message
  PROVE  ~(message[m].anomaly = id /\ message[m].origin = "detector")
BY DEF JointInv, InUse, Submitted, OfDetector

Inv == DetectorInv /\ JointInv

\* Every step of the two keeps what is true of the two.
THEOREM Invariance == AlertingSpec => []Inv
<1>1. AlertingInit => JointInv
  <2> SUFFICES ASSUME AlertingInit PROVE JointInv
    OBVIOUS
  <2>1. /\ subs = {} /\ message = [m \in Message |-> Dispatcher!FreeTask]
        /\ sending = [m \in Message |-> Dispatcher!EmptyRun] /\ alerts = {} /\ posts = {}
    BY DEF AlertingInit, Dispatcher!Init
  <2>2. Dispatcher!FreeTask \in MessageRecord
    BY DEF Dispatcher!FreeTask, MessageRecord
  <2>3. Dispatcher!EmptyRun \in SendingRecord
    <3>1. [s \in Sub |-> "none"] \in [Sub -> RowStates]
      BY DEF RowStates
    <3>. QED
      BY <3>1 DEF Dispatcher!EmptyRun, SendingRecord
  <2>4. \A m \in Message : message[m].state = "free" /\ message[m].anomaly = NoAnomaly
    BY <2>1 DEF Dispatcher!FreeTask
  <2>5. NoAnomaly \notin Id
    BY DispatchAssumption DEF DispatchAssumption, Dispatcher!MatchAssumption
  <2>6. Shapes
    BY <2>1, <2>2, <2>3 DEF Shapes
  <2>7. InUse /\ Submitted /\ Accepted
    BY <2>1, <2>4, <2>5 DEF InUse, Submitted, Accepted, Used, OfDetector
  <2>. QED
    BY <2>6, <2>7 DEF JointInv
<1>2. DetectorInv /\ JointInv /\ [AlertingNext]_allVars => JointInv'
  <2> SUFFICES ASSUME DetectorInv, JointInv, [AlertingNext]_allVars PROVE JointInv'
    OBVIOUS
  <2>1. [Next]_vars
    BY DEF AlertingNext, DetectionWorker, SubmitAlert, RequestRetry, DispatchWorker, allVars,
           Next, Advance
  <2>2. RowsRemember
    BY <2>1, SubmissionsStay DEF RowsRemember, DetectorInv
  <2>3. ASSUME NEW t \in Task, NEW src \in Source, SubmitAlert(t, src) PROVE JointInv'
    <3>1. /\ NextMessage \in Message /\ SendAlert(t, src)
          /\ Dispatcher!Enqueue(NextMessage, RowOf(t, src), "detector")
      BY <2>3, NextIsFree DEF SubmitAlert
    <3>. QED
      BY <2>2, <3>1, SubmitsFresh, EnqueueStep DEF DetectorInv
  <2>4. ASSUME NEW al \in alerts, RequestRetry(al) PROVE JointInv'
    <3>1. /\ NextMessage \in Message /\ message[al.task].anomaly \in Id
          /\ Dispatcher!Enqueue(NextMessage, message[al.task].anomaly, "operator")
      BY <2>4, NextIsFree DEF RequestRetry, Dispatcher!RetryAlert, JointInv, InUse
    <3>. QED
      BY <2>2, <3>1, EnqueueStep
  <2>5. ASSUME NEW s \in Sub, Dispatcher!RegisterWebhook(s), UNCHANGED vars PROVE JointInv'
    BY <2>5, RegisterStep DEF vars
  <2>6. ASSUME NEW m \in Message, DispatchWorker(m) PROVE JointInv'
    <3>1. UNCHANGED anomaly /\ Dispatcher!Advance(m)
      BY <2>6 DEF DispatchWorker, vars
    <3>. QED
      BY <3>1, BeginStep, AddAlertStep, PostStep, EndStep DEF Dispatcher!Advance
  <2>7. ASSUME NEW m \in Message, Dispatcher!Failure(m), UNCHANGED vars PROVE JointInv'
    BY <2>7, EndStep DEF vars
  <2>8. CASE UNCHANGED dispatcherVars
    BY <2>2, <2>8, DetectorStep
  <2>. QED
    BY <2>3, <2>4, <2>5, <2>6, <2>7, <2>8 DEF AlertingNext, DetectionWorker, allVars
<1>. QED
  BY <1>1, <1>2, DetectorInvariance, PTL DEF AlertingSpec, Inv

-----------------------------------------------------------------------------
\* The theorems.

\* What the dispatcher takes for granted of the detector is true: every step of
\* the two is a step of the dispatcher on its own, where each anomaly is submitted
\* at most once, or leaves its state alone (detect_anomalies and
\* dispatch_alerts_task).
THEOREM DispatchesAsAlone == AlertingSpec => ImplementsDispatch
<1>1. AlertingInit => Dispatcher!Init
  BY DEF AlertingInit
<1>2. Inv /\ [AlertingNext]_allVars => [Dispatcher!Next]_(Dispatcher!vars)
  <2> SUFFICES ASSUME Inv, [AlertingNext]_allVars
               PROVE  Dispatcher!Next \/ UNCHANGED dispatcherVars
    BY DEF dispatcherVars, Dispatcher!vars
  <2>1. ASSUME NEW t \in Task, NEW src \in Source, SubmitAlert(t, src)
        PROVE  Dispatcher!Next
    <3>1. /\ NextMessage \in Message /\ SendAlert(t, src)
          /\ Dispatcher!Enqueue(NextMessage, RowOf(t, src), "detector")
      BY <2>1, NextIsFree DEF SubmitAlert
    <3>2. RowOf(t, src) \in Id /\ anomaly[RowOf(t, src)].alerts = 0
      BY <3>1, SubmitsFresh DEF Inv, DetectorInv
    <3>3. Dispatcher!Detected(NextMessage, RowOf(t, src))
      BY <3>1, <3>2, SubmittedOnce DEF Inv, Dispatcher!Detected
    <3>. QED
      BY <3>1, <3>2, <3>3 DEF Dispatcher!Next
  <2>2. ASSUME NEW al \in alerts, RequestRetry(al) PROVE Dispatcher!Next
    BY <2>2, NextIsFree DEF RequestRetry, Dispatcher!Next
  <2>. QED
    BY <2>1, <2>2 DEF AlertingNext, DetectionWorker, DispatchWorker, allVars, Dispatcher!Next
<1>. QED
  BY <1>1, <1>2, Invariance, PTL DEF AlertingSpec, ImplementsDispatch, Dispatcher!Spec

\* First words about one row are one POST.
LEMMA OneFirstWord ==
  ASSUME JointInv, NEW s \in Sub, NEW p \in FirstWords(s), NEW q \in FirstWords(s),
         About(p) = About(q)
  PROVE  p = q
<1>1. /\ p \in posts /\ p.ok /\ p.sub = s /\ p.task \in Message /\ p.exec \in Nat
      /\ q \in posts /\ q.ok /\ q.sub = s /\ q.task \in Message /\ q.exec \in Nat
  BY DEF FirstWords, JointInv, Shapes, PostShape
<1>2. OfDetector(p.task) /\ OfDetector(q.task)
  BY <1>1 DEF FirstWords, JointInv, InUse, OfDetector
<1>3. p.task = q.task
  BY <1>1, <1>2 DEF About, JointInv, Submitted
<1>4. p.exec = 1 /\ q.exec = 1
  <2>1. /\ 0 < p.exec /\ p.exec <= message[p.task].exec /\ message[p.task].exec = 1
        /\ 0 < q.exec /\ q.exec <= message[q.task].exec /\ message[q.task].exec = 1
    BY <1>1 DEF FirstWords, JointInv, Accepted
  <2>. QED
    BY <1>1, <2>1
<1>. QED
  BY <1>1, <1>3, <1>4 DEF JointInv, Accepted

\* A webhook accepts word of one anomaly once unless a dispatch ran again or an
\* operator asked, and of one trouble at most as often as there are workers,
\* however often detections are retried or delivered again: first words about the
\* trouble are one to one with its recent rows (detect_anomalies, _deduplicate
\* and dispatch).
THEOREM WordsAreFew == AlertingSpec => []AlertsRepeatOnlyByOverlap
<1>1. Inv /\ DuplicatesOnlyByOverlap => AlertsRepeatOnlyByOverlap
  <2> SUFFICES ASSUME Inv, DuplicatesOnlyByOverlap, NEW s \in Sub, NEW kind \in Kind
               PROVE  Cardinality({p \in FirstWords(s) :
                        /\ About(p) \in Open /\ KindOf(About(p)) = kind
                        /\ now - anomaly[About(p)].detected <= DedupWindow}) <= Workers
    BY OneFirstWord DEF AlertsRepeatOnlyByOverlap, Inv
  <2> DEFINE words == {p \in FirstWords(s) :
                         /\ About(p) \in Open /\ KindOf(About(p)) = kind
                         /\ now - anomaly[About(p)].detected <= DedupWindow}
             f == [p \in words |-> About(p)]
  <2>1. IsFiniteSet(RecentRows(kind)) /\ Cardinality(RecentRows(kind)) <= Workers
    BY DEF Inv, DetectorInv, DupInv, Shares, AllKeys, Kind, DuplicatesOnlyByOverlap, RecentRows
  <2>2. f \in Injection(words, RecentRows(kind))
    <3>1. \A p \in words : About(p) \in RecentRows(kind)
      BY DEF RecentRows, KindOf
    <3>2. \A p, q \in words : About(p) = About(q) => p = q
      BY OneFirstWord DEF Inv
    <3> HIDE DEF words
    <3>. QED
      BY <3>1, <3>2 DEF Injection, IsInjective
  <2> HIDE DEF words, f
  <2>3. IsFiniteSet(words) /\ Cardinality(words) <= Cardinality(RecentRows(kind))
    BY <2>1, <2>2, FS_Injection
  <2>4. Cardinality(words) \in Nat /\ Cardinality(RecentRows(kind)) \in Nat
    BY <2>1, <2>3, FS_CardinalityType
  <2>5. Cardinality(words) <= Workers
    BY <2>1, <2>3, <2>4, Bounds
  <2>. QED
    BY <2>5 DEF words
<1>. QED
  BY <1>1, Invariance, DetectsAsAlone, DuplicatesAreBounded, PTL

-----------------------------------------------------------------------------
\* What AlertDispatch_proofs says of the dispatcher, with the substitution of
\* Dispatcher: Alone's actions are Dispatcher's.
Alone == INSTANCE AlertDispatch_proofs WITH
  Task <- Message, Anomaly <- Id, Type <- Kind,
  TypeOf <- [id \in Id |-> KindOf(id)],
  SeverityOf <- [id \in Id |-> Severity[KindOf(id)]],
  TaskRetries <- DispatchRetries, MaxRedeliveries <- DispatchRedeliveries,
  task <- message, run <- sending

\* The two instances are one specification.
LEMMA SameDispatcher == Dispatcher!Spec => Alone!Spec
<1>1. Dispatcher!Init => Alone!Init
  BY DEF Dispatcher!Init, Dispatcher!FreeTask, Dispatcher!EmptyRun,
         Alone!Init, Alone!FreeTask, Alone!EmptyRun
<1>2. Dispatcher!Next => Alone!Next
  <2>1. ASSUME NEW s \in Sub, Dispatcher!RegisterWebhook(s) PROVE Alone!RegisterWebhook(s)
    BY <2>1 DEF Dispatcher!RegisterWebhook, Alone!RegisterWebhook
  <2>2. ASSUME NEW m \in Message, NEW id \in Id, Dispatcher!Detected(m, id)
        PROVE  Alone!Detected(m, id)
    BY <2>2 DEF Dispatcher!Detected, Dispatcher!Enqueue, Alone!Detected, Alone!Enqueue
  <2>3. ASSUME NEW m \in Message, NEW al \in alerts, Dispatcher!RetryAlert(m, al)
        PROVE  Alone!RetryAlert(m, al)
    BY <2>3 DEF Dispatcher!RetryAlert, Dispatcher!Enqueue, Alone!RetryAlert, Alone!Enqueue
  <2>4. ASSUME NEW m \in Message, Dispatcher!Advance(m) PROVE Alone!Advance(m)
    BY <2>4 DEF Dispatcher!Advance, Dispatcher!Begin, Dispatcher!AddAlert,
                Dispatcher!PostWebhook, Dispatcher!Commit, Dispatcher!Ack,
                Dispatcher!Matching, Dispatcher!EmptyRun, Dispatcher!SetRow,
                Dispatcher!InFlight, Dispatcher!Waiting, Dispatcher!Staged,
                Dispatcher!Outcome,
                Alone!Advance, Alone!Begin, Alone!AddAlert, Alone!PostWebhook,
                Alone!Commit, Alone!Ack, Alone!Matching, Alone!EmptyRun, Alone!SetRow,
                Alone!InFlight, Alone!Waiting, Alone!Staged, Alone!Outcome
  <2>5. ASSUME NEW m \in Message, Dispatcher!Failure(m) PROVE Alone!Failure(m)
    BY <2>5 DEF Dispatcher!Failure, Dispatcher!RetryTask, Dispatcher!GiveUp,
                Dispatcher!ChildDies, Dispatcher!HostDies, Alone!Failure,
                Alone!RetryTask, Alone!GiveUp, Alone!ChildDies, Alone!HostDies
  <2>. QED
    BY <2>1, <2>2, <2>3, <2>4, <2>5 DEF Dispatcher!Next, Alone!Next
<1>3. [Dispatcher!Next]_(Dispatcher!vars) => [Alone!Next]_(Alone!vars)
  BY <1>2 DEF Dispatcher!vars, Alone!vars
<1>. QED
  BY <1>1, <1>3, PTL DEF Dispatcher!Spec, Alone!Spec

\* The assumptions of AlertDispatch are assumptions of Alerting.
LEMMA AloneAssumptions == Alone!MatchAssumption /\ Alone!BoundsAssumption
BY DispatchAssumption DEF Dispatcher!MatchAssumption, Dispatcher!BoundsAssumption,
                          Alone!MatchAssumption, Alone!BoundsAssumption

\* An operator's retry that has succeeded has a row for a target that another
\* message failed to reach, also where it runs beside the detector's messages
\* (retry_alert).
THEOREM RetriesReachTogether == AlertingSpec => []RetryReachesFailedTarget
<1>1. Alone!Spec => []Alone!RetryReachesFailedTarget
  BY AloneAssumptions, Alone!RetriesReach
<1>2. Alone!RetryReachesFailedTarget => RetryReachesFailedTarget
  BY DEF Alone!RetryReachesFailedTarget, RetryReachesFailedTarget,
         Dispatcher!RetryReachesFailedTarget
<1>. QED
  BY <1>1, <1>2, SameDispatcher, DispatchesAsAlone, PTL DEF ImplementsDispatch

\* Nor does the detector, whatever it retries or submits, disturb what the
\* dispatcher promises of its rows and POSTs (dispatch, _retry_with_backoff).
THEOREM DispatchesTruly ==
  AlertingSpec => [](/\ Dispatcher!RowsMatchPosts /\ Dispatcher!StopsOnSuccess
                     /\ Dispatcher!AllOrNothing /\ Dispatcher!CommittedIsComplete
                     /\ Dispatcher!RowsRepeatOnlyAfterCommit)
<1>1. Alone!Spec => []Alone!RowsMatchPosts
  BY AloneAssumptions, Alone!RowsAreTrue
<1>2. Alone!Spec => []Alone!StopsOnSuccess
  BY AloneAssumptions, Alone!SuccessStops
<1>3. Alone!Spec => []Alone!AllOrNothing
  BY AloneAssumptions, Alone!CommitIsAtomic
<1>4. Alone!Spec => []Alone!CommittedIsComplete
  BY AloneAssumptions, Alone!CommitIsComplete
<1>5. Alone!Spec => []Alone!RowsRepeatOnlyAfterCommit
  BY AloneAssumptions, Alone!RowsRepeatOnlyIfPaid
<1>6. Alone!RowsMatchPosts => Dispatcher!RowsMatchPosts
  BY DEF Alone!RowsMatchPosts, Alone!SameRun, Dispatcher!RowsMatchPosts, Dispatcher!SameRun
<1>7. Alone!StopsOnSuccess => Dispatcher!StopsOnSuccess
  BY DEF Alone!StopsOnSuccess, Alone!SameRun, Dispatcher!StopsOnSuccess, Dispatcher!SameRun
<1>8. Alone!AllOrNothing => Dispatcher!AllOrNothing
  BY DEF Alone!AllOrNothing, Alone!SameRun, Dispatcher!AllOrNothing, Dispatcher!SameRun
<1>9. Alone!CommittedIsComplete => Dispatcher!CommittedIsComplete
  BY DEF Alone!CommittedIsComplete, Dispatcher!CommittedIsComplete
<1>10. Alone!RowsRepeatOnlyAfterCommit => Dispatcher!RowsRepeatOnlyAfterCommit
  <2>1. \A m \in Message : Alone!Recorded(m) = Dispatcher!Recorded(m)
    BY DEF Alone!Recorded, Dispatcher!Recorded
  <2>2. \A S : Alone!Cardinality(S) = Dispatcher!Cardinality(S)
    BY DEF Alone!Cardinality, Dispatcher!Cardinality
  <2>. QED
    BY <2>1, <2>2 DEF Alone!RowsRepeatOnlyAfterCommit, Dispatcher!RowsRepeatOnlyAfterCommit
<1>. QED
  BY <1>1, <1>2, <1>3, <1>4, <1>5, <1>6, <1>7, <1>8, <1>9, <1>10, SameDispatcher,
     DispatchesAsAlone, PTL DEF ImplementsDispatch
=============================================================================
