------------------------ MODULE AlertDispatch_proofs ------------------------
(***************************************************************************)
(* Safety of AlertDispatch for every set of anomalies, subscriptions and   *)
(* messages, and every retry and redelivery bound.                         *)
(***************************************************************************)
EXTENDS AlertDispatch, FiniteSetTheorems, TLAPS

-----------------------------------------------------------------------------
\* The inductive invariant, as named conjuncts.

\* Every execution beyond the first is paid for; a queued message has already
\* paid for its next one.  Retries after a commit are retries.
Accounting ==
  \A t \in Task :
    /\ task[t].exec <= 1 + task[t].retries + task[t].redelivered
    /\ task[t].state = "queued" =>
         task[t].exec <= task[t].retries + task[t].redelivered
    /\ task[t].state = "free" => task[t].exec = 0
    /\ task[t].state \notin {"free", "queued"} => task[t].exec > 0
    /\ task[t].late <= task[t].retries

\* Nothing is recorded about an execution that has not begun.
NothingFromTheFuture ==
  /\ \A p \in posts : p.exec <= task[p.task].exec
  /\ \A al \in alerts : al.exec <= task[al.task].exec

OneInFlight ==
  \A t \in Task : \A r, s \in Sub :
    run[t].row[r] = "PENDING" /\ run[t].row[s] = "PENDING" => r = s

RowsAreMatched ==
  \A t \in Task : \A s \in Sub :
    run[t].row[s] # "none" => s \in run[t].matched

\* What the latest execution's local row says about a subscription is what the
\* log of POSTs says.
PostsOf(t, s) ==
  {p \in posts : p.task = t /\ p.exec = task[t].exec /\ p.sub = s}

RowTruth(t, s) ==
  /\ run[t].row[s] = "none" => PostsOf(t, s) = {}
  /\ run[t].row[s] = "PENDING" =>
       /\ run[t].tries <= MaxRetries
       /\ \A p \in PostsOf(t, s) : ~p.ok /\ p.no <= run[t].tries
       /\ \A n \in 1..run[t].tries : \E p \in PostsOf(t, s) : p.no = n
  /\ run[t].row[s] = "DELIVERED" => \E p \in PostsOf(t, s) : p.ok
  /\ run[t].row[s] = "FAILED" =>
       /\ \A p \in PostsOf(t, s) : ~p.ok
       /\ \A n \in 1..(MaxRetries + 1) : \E p \in PostsOf(t, s) : p.no = n

RowFollowsPosts == \A t \in Task : \A s \in Sub : RowTruth(t, s)

\* The rows of the latest execution are committed together, and only by the
\* step that ends its loop.
LatestCommit ==
  /\ \A al \in alerts :
       al.exec = task[al.task].exec =>
         /\ task[al.task].state \notin {"free", "running"}
         /\ al \in Staged(al.task)
         /\ Staged(al.task) \subseteq alerts
         /\ InFlight(al.task) = {} /\ Waiting(al.task) = {}
  /\ \A t \in Task :
       task[t].state \in {"committed", "succeeded"} =>
         /\ Staged(t) \subseteq alerts
         /\ InFlight(t) = {} /\ Waiting(t) = {}

LogInv ==
  /\ NothingFromTheFuture
  /\ RowsAreMatched
  /\ RowFollowsPosts
  /\ LatestCommit
  /\ RowsMatchPosts
  /\ StopsOnSuccess
  /\ AllOrNothing

-----------------------------------------------------------------------------
\* The initial run and the fresh message are well typed.
LEMMA InitialRecords == FreeTask \in TaskRecord /\ EmptyRun \in RunRecord
<1>1. [s \in Sub |-> "none"] \in [Sub -> Status \cup {"none"}]
  OBVIOUS
<1>2. EmptyRun \in RunRecord
  BY <1>1, BoundsAssumption DEF EmptyRun, RunRecord, BoundsAssumption
<1>3. FreeTask \in TaskRecord
  BY BoundsAssumption DEF FreeTask, TaskRecord, MaxExec, BoundsAssumption
<1>. QED
  BY <1>2, <1>3

\* A webhook still in flight has a POST left.
TriesLeft ==
  \A t \in Task : \A s \in Sub :
    run[t].row[s] = "PENDING" => run[t].tries <= MaxRetries

TypeInv == TypeOK /\ Accounting /\ TriesLeft /\ OneInFlight

\* The fields of a message that later steps need, without their bounds.
LEMMA TaskFields ==
  ASSUME NEW m \in TaskRecord
  PROVE  /\ m.retries \in Nat /\ m.redelivered \in Nat /\ m.exec \in Nat
         /\ m.late \in Nat
         /\ m.anomaly \in Anomaly \cup {NoAnomaly}
<1>1. /\ m.retries \in 0..TaskRetries /\ m.redelivered \in 0..MaxRedeliveries
      /\ m.exec \in 0..MaxExec /\ m.anomaly \in Anomaly \cup {NoAnomaly}
      /\ m.late \in 0..TaskRetries
  BY DEF TaskRecord
<1>. QED
  BY <1>1

\* The bounds are numbers.
LEMMA Bounds == MaxRetries \in Nat /\ TaskRetries \in Nat /\ MaxRedeliveries \in Nat
BY BoundsAssumption DEF BoundsAssumption

\* A step that changes a message within its type, and pays for its executions,
\* keeps the types.
LEMMA TaskStep ==
  ASSUME TypeInv, NEW t \in Task, NEW m \in TaskRecord,
         task' = [task EXCEPT ![t] = m],
         m.exec <= 1 + m.retries + m.redelivered,
         m.state = "queued" => m.exec <= m.retries + m.redelivered,
         m.state = "free" => m.exec = 0,
         m.state \notin {"free", "queued"} => m.exec > 0,
         m.late <= m.retries
  PROVE  task' \in [Task -> TaskRecord] /\ Accounting'
<1>1. task \in [Task -> TaskRecord] /\ Accounting
  BY DEF TypeInv, TypeOK
<1>2. task' \in [Task -> TaskRecord]
  BY <1>1
<1>3. \A u \in Task : task'[u] = IF u = t THEN m ELSE task[u]
  BY <1>1
<1>4. Accounting'
  BY <1>1, <1>3 DEF Accounting
<1>. QED
  BY <1>2, <1>4

\* The row and the tries of an execution stay within their types.
LEMMA SetRowTyped ==
  ASSUME TypeInv, NEW t \in Task, NEW s \in Sub, NEW v \in Status,
         NEW n \in 0..(MaxRetries + 1), SetRow(t, s, v, n)
  PROVE  run' \in [Task -> RunRecord]
<1> DEFINE new == [matched |-> run[t].matched,
                   row |-> [run[t].row EXCEPT ![s] = v], tries |-> n]
<1>1. run[t] \in RunRecord
  BY DEF TypeInv, TypeOK
<1>2. new \in RunRecord
  BY <1>1 DEF RunRecord
<1>3. run' = [run EXCEPT ![t] = new]
  BY DEF SetRow
<1>. QED
  BY <1>2, <1>3 DEF TypeInv, TypeOK

\* dispatch_alerts_task.delay keeps the types, whoever calls it.
LEMMA EnqueueTyped ==
  ASSUME TypeInv, NEW t \in Task, NEW a \in Anomaly \cup {NoAnomaly},
         NEW o \in {"detector", "operator"}, Enqueue(t, a, o)
  PROVE  TypeInv'
<1> DEFINE m == [task[t] EXCEPT !.state = "queued", !.origin = o, !.anomaly = a]
<1>1. task[t] \in TaskRecord /\ task[t].exec = 0 /\ task[t].late <= task[t].retries
  BY DEF TypeInv, TypeOK, Accounting, Enqueue
<1>2. m \in TaskRecord /\ m.exec = 0 /\ m.state = "queued" /\ m.late <= m.retries
  BY <1>1 DEF TaskRecord
<1>3. task' = [task EXCEPT ![t] = m]
  BY <1>1 DEF Enqueue
<1> HIDE DEF m
<1>4. 0 <= m.retries + m.redelivered /\ 0 <= 1 + m.retries + m.redelivered
  BY <1>2, TaskFields
<1>5. task' \in [Task -> TaskRecord] /\ Accounting'
  BY <1>2, <1>3, <1>4, TaskStep
<1>. QED
  BY <1>5 DEF Enqueue, TypeInv, TypeOK, TriesLeft, OneInFlight

\* Types are preserved together with the accounting of executions, which bounds
\* the execution number.
THEOREM TypeInvariance == Spec => []TypeInv
<1>1. Init => TypeInv
  <2> SUFFICES ASSUME Init PROVE TypeInv
    OBVIOUS
  <2>1. TypeOK
    BY InitialRecords DEF Init, TypeOK
  <2>2. Accounting
    BY DEF Init, FreeTask, Accounting
  <2>3. TriesLeft /\ OneInFlight
    BY DEF Init, EmptyRun, TriesLeft, OneInFlight
  <2>. QED
    BY <2>1, <2>2, <2>3 DEF TypeInv
<1>2. TypeInv /\ [Next]_vars => TypeInv'
  <2> SUFFICES ASSUME TypeInv, [Next]_vars PROVE TypeInv'
    OBVIOUS
  <2>a. TypeOK /\ Accounting /\ TriesLeft /\ OneInFlight
    BY DEF TypeInv
  <2>b. \A t \in Task : task[t] \in TaskRecord /\ run[t] \in RunRecord
    BY <2>a DEF TypeOK
  <2>1. ASSUME NEW s \in Sub, RegisterWebhook(s) PROVE TypeInv'
    BY <2>a, <2>1 DEF RegisterWebhook, TypeInv, TypeOK, Accounting, TriesLeft, OneInFlight
  <2>2. ASSUME NEW t \in Task, NEW a \in Anomaly, Detected(t, a) PROVE TypeInv'
    BY <2>2, EnqueueTyped DEF Detected
  <2>3. ASSUME NEW t \in Task, NEW al \in alerts, RetryAlert(t, al) PROVE TypeInv'
    <3>1. al.task \in Task
      BY <2>a DEF TypeOK, AlertRow
    <3>2. task[al.task].anomaly \in Anomaly \cup {NoAnomaly}
      BY <2>b, <3>1 DEF TaskRecord
    <3>. QED
      BY <2>3, <3>2, EnqueueTyped DEF RetryAlert
  <2>4. ASSUME NEW t \in Task, Begin(t) PROVE TypeInv'
    <3> DEFINE m == [task[t] EXCEPT !.state = "running", !.exec = @ + 1]
    <3>1. [EmptyRun EXCEPT !.matched = Matching(task[t].anomaly)] \in RunRecord
      BY <2>a, InitialRecords DEF TypeOK, Matching, RunRecord, EmptyRun
    <3>2. run' \in [Task -> RunRecord]
      BY <2>a, <2>4, <3>1 DEF TypeOK, Begin
    <3>3. task[t].exec <= task[t].retries + task[t].redelivered
      BY <2>a, <2>4 DEF Accounting, Begin
    <3>4. task[t].exec + 1 \in 0..MaxExec
      <4>1. /\ task[t].retries \in 0..TaskRetries
            /\ task[t].redelivered \in 0..MaxRedeliveries
            /\ task[t].exec \in Nat
        BY <2>b, TaskFields DEF TaskRecord
      <4>. QED
        BY <4>1, <3>3, Bounds DEF MaxExec
    <3>5. m \in TaskRecord
      BY <2>b, <3>4 DEF TaskRecord
    <3>6. /\ m.exec = task[t].exec + 1 /\ m.state = "running"
          /\ m.retries = task[t].retries /\ m.redelivered = task[t].redelivered
          /\ m.late = task[t].late /\ m.late <= m.retries
      BY <2>a, <2>b DEF TaskRecord, Accounting
    <3>7. task' = [task EXCEPT ![t] = m]
      BY <2>4 DEF Begin
    <3>8. m.exec <= 1 + m.retries + m.redelivered /\ m.exec > 0
      BY <2>b, <3>3, <3>6, TaskFields
    <3> HIDE DEF m
    <3>9. task' \in [Task -> TaskRecord] /\ Accounting'
      BY <3>5, <3>6, <3>7, <3>8, TaskStep
    <3>10. TriesLeft' /\ OneInFlight'
      BY <2>a, <2>4 DEF TypeOK, Begin, EmptyRun, TriesLeft, OneInFlight
    <3>. QED
      BY <2>a, <2>4, <3>2, <3>9, <3>10 DEF TypeInv, TypeOK, Begin
  <2>5. ASSUME NEW t \in Task, NEW s \in Sub, AddAlert(t, s) PROVE TypeInv'
    <3>1. "PENDING" \in Status /\ 0 \in 0..(MaxRetries + 1) /\ 0 <= MaxRetries
      BY Bounds DEF Status
    <3>2. run' \in [Task -> RunRecord]
      BY <2>5, <3>1, SetRowTyped DEF AddAlert
    <3>3. TriesLeft' /\ OneInFlight'
      BY <2>a, <2>5, <3>1 DEF AddAlert, SetRow, InFlight, TriesLeft, OneInFlight, TypeOK
    <3>. QED
      BY <2>a, <2>5, <3>2, <3>3 DEF AddAlert, TypeInv, TypeOK, Accounting
  <2>6. ASSUME NEW t \in Task, NEW s \in Sub, NEW ok \in BOOLEAN, PostWebhook(t, s, ok)
        PROVE TypeInv'
    <3> DEFINE no == run[t].tries + 1
    <3>1. no \in 1..(MaxRetries + 1)
      <4>1. run[t].tries \in Nat /\ run[t].tries <= MaxRetries
        BY <2>a, <2>b, <2>6, Bounds DEF PostWebhook, InFlight, TriesLeft, RunRecord
      <4>. QED
        BY <4>1, Bounds
    <3>2. task[t].exec \in Execution
      <4>1. task[t].exec \in 0..MaxExec /\ task[t].exec > 0
        BY <2>a, <2>b, <2>6 DEF PostWebhook, Accounting, TaskRecord
      <4>. QED
        BY <4>1, Bounds DEF Execution, MaxExec
    <3>3. Outcome(no, ok) \in Status
      BY DEF Outcome, Status
    <3>4. TriesLeft' /\ OneInFlight'
      <4>1. run[t].row \in [Sub -> Status \cup {"none"}] /\ run[t].row[s] = "PENDING"
        BY <2>b, <2>6 DEF PostWebhook, InFlight, RunRecord
      <4>2. run'[t].tries = no /\ \A u \in Task \ {t} : run'[u] = run[u]
        BY <2>a, <2>6 DEF PostWebhook, SetRow, TypeOK
      <4>3. \A r \in Sub \ {s} : run'[t].row[r] = run[t].row[r] /\ run[t].row[r] # "PENDING"
        BY <2>a, <2>6, <4>1 DEF PostWebhook, SetRow, OneInFlight, TypeOK
      <4>4. run'[t].row[s] = "PENDING" => no <= MaxRetries
        <5>1. run'[t].row[s] = Outcome(no, ok)
          BY <2>a, <2>6, <4>1 DEF PostWebhook, SetRow, TypeOK
        <5>. QED
          BY <5>1, <3>1, Bounds DEF Outcome
      <4>5. TriesLeft'
        BY <2>a, <4>2, <4>3, <4>4 DEF TriesLeft
      <4>6. OneInFlight'
        BY <2>a, <4>2, <4>3 DEF OneInFlight
      <4>. QED
        BY <4>5, <4>6
    <3> HIDE DEF no
    <3>5. run' \in [Task -> RunRecord]
      BY <2>6, <3>1, <3>3, SetRowTyped, Bounds DEF PostWebhook, no
    <3>6. posts' = posts \cup {[task |-> t, exec |-> task[t].exec, sub |-> s,
                                no |-> no, ok |-> ok]}
      BY <2>6 DEF PostWebhook, no
    <3>7. posts' \subseteq PostRecord
      BY <2>a, <3>1, <3>2, <3>6 DEF TypeOK, PostRecord
    <3>. QED
      BY <2>a, <2>6, <3>4, <3>5, <3>7 DEF PostWebhook, TypeInv, TypeOK, Accounting
  <2>7. ASSUME NEW t \in Task, Commit(t) PROVE TypeInv'
    <3> DEFINE m == [task[t] EXCEPT !.state = "committed"]
    <3>1. m \in TaskRecord /\ m.state = "committed" /\ task' = [task EXCEPT ![t] = m]
      BY <2>b, <2>7 DEF Commit, TaskRecord
    <3>2. m.exec <= 1 + m.retries + m.redelivered /\ m.exec > 0 /\ m.late <= m.retries
      BY <2>a, <2>b, <2>7 DEF Commit, Accounting, TaskRecord
    <3>3. Staged(t) \subseteq AlertRow
      <4>1. task[t].exec \in Execution
        <5>1. task[t].exec \in 0..MaxExec /\ task[t].exec > 0
          BY <2>a, <2>b, <2>7 DEF Commit, Accounting, TaskRecord
        <5>. QED
          BY <5>1, Bounds DEF Execution, MaxExec
      <4>. QED
        BY <2>b, <4>1 DEF Staged, AlertRow, RunRecord
    <3> HIDE DEF m
    <3>4. task' \in [Task -> TaskRecord] /\ Accounting'
      BY <3>1, <3>2, TaskStep
    <3>. QED
      BY <2>a, <2>7, <3>3, <3>4 DEF Commit, TypeInv, TypeOK, TriesLeft, OneInFlight
  <2>8. ASSUME NEW t \in Task, NEW st \in {"succeeded", "failed", "lost"},
               task[t].state \in {"running", "committed"},
               task' = [task EXCEPT ![t].state = st],
               UNCHANGED <<subs, run, alerts, posts>>
        PROVE  TypeInv'
    <3> DEFINE m == [task[t] EXCEPT !.state = st]
    <3>1. m \in TaskRecord /\ m.state = st /\ task' = [task EXCEPT ![t] = m]
      BY <2>b, <2>8 DEF TaskRecord
    <3>2. m.exec <= 1 + m.retries + m.redelivered /\ m.exec > 0 /\ m.late <= m.retries
      BY <2>a, <2>b, <2>8 DEF Accounting, TaskRecord
    <3> HIDE DEF m
    <3>3. task' \in [Task -> TaskRecord] /\ Accounting'
      BY <3>1, <3>2, TaskStep
    <3>. QED
      BY <2>a, <2>8, <3>3 DEF TypeInv, TypeOK, TriesLeft, OneInFlight
  <2>9. ASSUME NEW t \in Task, Ack(t) \/ GiveUp(t) \/ ChildDies(t) PROVE TypeInv'
    BY <2>8, <2>9 DEF Ack, GiveUp, ChildDies
  <2>10. ASSUME NEW t \in Task, RetryTask(t) PROVE TypeInv'
    <3> DEFINE late == IF task[t].state = "committed" THEN task[t].late + 1 ELSE task[t].late
    <3> DEFINE m == [task[t] EXCEPT !.state = "queued", !.retries = @ + 1, !.late = late]
    <3>1. /\ task[t].retries + 1 \in 0..TaskRetries /\ late \in 0..TaskRetries
          /\ late <= task[t].retries + 1
      <4>1. /\ task[t].retries \in Nat /\ task[t].late \in Nat
            /\ task[t].late <= task[t].retries /\ task[t].retries < TaskRetries
        BY <2>a, <2>b, <2>10, TaskFields DEF RetryTask, Accounting
      <4>. QED
        BY <4>1, Bounds
    <3> HIDE DEF late
    <3>2. m \in TaskRecord /\ m.state = "queued" /\ task' = [task EXCEPT ![t] = m]
      BY <2>b, <2>10, <3>1 DEF RetryTask, TaskRecord, late
    <3>3. /\ m.exec = task[t].exec /\ m.retries = task[t].retries + 1
          /\ m.redelivered = task[t].redelivered
          /\ task[t].exec <= 1 + task[t].retries + task[t].redelivered
          /\ m.late <= m.retries
      BY <2>a, <2>b, <3>1 DEF TaskRecord, Accounting
    <3>4. m.exec <= m.retries + m.redelivered /\ m.exec <= 1 + m.retries + m.redelivered
      BY <2>b, <3>3, TaskFields
    <3> HIDE DEF m
    <3>5. task' \in [Task -> TaskRecord] /\ Accounting'
      BY <3>2, <3>3, <3>4, TaskStep
    <3>. QED
      BY <2>a, <2>10, <3>5 DEF RetryTask, TypeInv, TypeOK, TriesLeft, OneInFlight
  <2>11. ASSUME NEW t \in Task, HostDies(t) PROVE TypeInv'
    <3> DEFINE m == [task[t] EXCEPT !.state = "queued", !.redelivered = @ + 1]
    <3>1. task[t].redelivered + 1 \in 0..MaxRedeliveries
      BY <2>b, <2>11, Bounds DEF HostDies, TaskRecord
    <3>2. m \in TaskRecord /\ m.state = "queued" /\ task' = [task EXCEPT ![t] = m]
      BY <2>b, <2>11, <3>1 DEF HostDies, TaskRecord
    <3>3. /\ m.exec = task[t].exec /\ m.retries = task[t].retries
          /\ m.redelivered = task[t].redelivered + 1
          /\ task[t].exec <= 1 + task[t].retries + task[t].redelivered
          /\ m.late <= m.retries
      BY <2>a, <2>b DEF TaskRecord, Accounting
    <3>4. m.exec <= m.retries + m.redelivered /\ m.exec <= 1 + m.retries + m.redelivered
      BY <2>b, <3>3, TaskFields
    <3> HIDE DEF m
    <3>5. task' \in [Task -> TaskRecord] /\ Accounting'
      BY <3>2, <3>3, <3>4, TaskStep
    <3>. QED
      BY <2>a, <2>11, <3>5 DEF HostDies, TypeInv, TypeOK, TriesLeft, OneInFlight
  <2>12. CASE UNCHANGED vars
    BY <2>a, <2>12 DEF vars, TypeInv, TypeOK, Accounting, TriesLeft, OneInFlight
  <2>. QED
    BY <2>1, <2>2, <2>3, <2>4, <2>5, <2>6, <2>7, <2>9, <2>10, <2>11, <2>12
       DEF Next, Advance, Failure
<1>. QED
  BY <1>1, <1>2, PTL DEF Spec

\* Every reachable state is well typed.
THEOREM TypeCorrect == Spec => []TypeOK
<1>1. TypeInv => TypeOK
  BY DEF TypeInv
<1>. QED
  BY <1>1, TypeInvariance, PTL

\* Every execution beyond the first is accounted for by a counted retry or by a
\* redelivery, so failures cannot make a task run for ever.
ExecutionsAccounted ==
  \A t \in Task : task[t].exec <= 1 + task[t].retries + task[t].redelivered

\* A task never executes more often than its counted retries and redeliveries
\* account for (celery retry accounting).
THEOREM ExecutionsAreAccounted == Spec => []ExecutionsAccounted
<1>1. TypeInv => ExecutionsAccounted
  BY DEF TypeInv, Accounting, ExecutionsAccounted
<1>. QED
  BY <1>1, TypeInvariance, PTL

-----------------------------------------------------------------------------
\* The Alert rows and the log of POSTs.

\* A step that neither posts, commits nor begins an execution can only disturb
\* what a message's state says about its rows.
LEMMA QuietStep ==
  ASSUME TypeInv, LogInv, LatestCommit', UNCHANGED <<run, alerts, posts>>,
         \A t \in Task : task'[t].exec = task[t].exec
  PROVE  LogInv'
<1>1. /\ \A p \in posts : p.task \in Task
      /\ \A al \in alerts : al.task \in Task
  BY DEF TypeInv, TypeOK, PostRecord, AlertRow
<1>2. NothingFromTheFuture'
  BY <1>1 DEF LogInv, NothingFromTheFuture
<1>3. RowsAreMatched'
  BY DEF LogInv, RowsAreMatched
<1>4. RowFollowsPosts'
  BY DEF LogInv, RowFollowsPosts, RowTruth, PostsOf
<1>5. RowsMatchPosts' /\ StopsOnSuccess' /\ AllOrNothing'
  BY DEF LogInv, RowsMatchPosts, StopsOnSuccess, AllOrNothing, SameRun
<1>. QED
  BY <1>2, <1>3, <1>4, <1>5 DEF LogInv

\* Nothing has been posted or written when the workers start.
LEMMA LogInit == Init => LogInv
BY DEF Init, LogInv, NothingFromTheFuture, RowsAreMatched, RowFollowsPosts, RowTruth, PostsOf,
       LatestCommit, RowsMatchPosts, StopsOnSuccess, AllOrNothing,
       EmptyRun, FreeTask

\* Steps on a message that leave its execution as it is.
LEMMA LogMessageSteps ==
  ASSUME TypeInv, LogInv, NEW t \in Task,
         \/ \E a \in Anomaly \cup {NoAnomaly}, o \in {"detector", "operator"} :
              Enqueue(t, a, o)
         \/ Ack(t) \/ RetryTask(t) \/ GiveUp(t) \/ ChildDies(t) \/ HostDies(t)
  PROVE  LogInv'
<1> USE DEF Enqueue, Ack, RetryTask, GiveUp, ChildDies, HostDies
<1>1. /\ task \in [Task -> TaskRecord] /\ task[t] \in TaskRecord
      /\ \A al \in alerts : al.task \in Task
  BY DEF TypeInv, TypeOK, AlertRow
<1>2. UNCHANGED <<run, alerts, posts>>
  OBVIOUS
<1>3. \A u \in Task : task'[u].exec = task[u].exec
  BY <1>1 DEF TaskRecord
<1>5. \A u \in Task : Staged(u)' = Staged(u) /\ InFlight(u)' = InFlight(u)
                       /\ Waiting(u)' = Waiting(u)
  BY <1>2, <1>3 DEF Staged, InFlight, Waiting
<1>6. \A u \in Task \ {t} : task'[u] = task[u]
  BY <1>1
<1>7. LatestCommit'
  <2>1. LatestCommit
    BY DEF LogInv
  <2>2. ASSUME NEW al \in alerts, al.exec = task'[al.task].exec
        PROVE  task'[al.task].state \notin {"free", "running"}
    <3>1. /\ al.task \in Task /\ al.exec = task[al.task].exec
          /\ task[al.task].state \notin {"free", "running"}
      BY <1>1, <1>3, <2>1, <2>2 DEF LatestCommit
    <3>2. CASE al.task # t
      BY <1>6, <3>1, <3>2
    <3>3. CASE al.task = t
      BY <1>1, <3>1, <3>3 DEF TaskRecord
    <3>. QED
      BY <3>2, <3>3
  <2>3. ASSUME NEW u \in Task, task'[u].state \in {"committed", "succeeded"}
        PROVE  task[u].state \in {"committed", "succeeded"}
    <3>1. CASE u # t
      BY <1>6, <2>3, <3>1
    <3>2. CASE u = t
      BY <1>1, <2>3, <3>2 DEF TaskRecord
    <3>. QED
      BY <3>1, <3>2
  <2>. QED
    BY <1>1, <1>2, <1>3, <1>5, <2>1, <2>2, <2>3 DEF LatestCommit
<1>. QED
  BY <1>2, <1>3, <1>7, QuietStep

\* A new execution starts with a clean slate and a number of its own.
LEMMA LogBegin ==
  ASSUME TypeInv, TypeInv', LogInv, NEW t \in Task, Begin(t)
  PROVE  LogInv'
<1>1. /\ task \in [Task -> TaskRecord] /\ run \in [Task -> RunRecord]
      /\ \A al \in alerts : al.task \in Task /\ al.exec \in Int
      /\ \A p \in posts : p.task \in Task /\ p.exec \in Int
      /\ \A u \in Task : task[u].exec \in Nat
  BY TaskFields DEF TypeInv, TypeOK, AlertRow, PostRecord, Execution
<1>2. /\ task'[t].exec = task[t].exec + 1 /\ task'[t].state = "running"
      /\ task'[t].redelivered = task[t].redelivered
      /\ \A u \in Task \ {t} : task'[u] = task[u] /\ run'[u] = run[u]
      /\ \A s \in Sub : run'[t].row[s] = "none"
      /\ UNCHANGED <<alerts, posts>>
  BY <1>1 DEF Begin, EmptyRun, TaskRecord
<1>3. NothingFromTheFuture'
  BY <1>1, <1>2 DEF LogInv, NothingFromTheFuture
<1>4. RowsAreMatched'
  BY <1>2 DEF LogInv, RowsAreMatched
<1>5. RowFollowsPosts'
  <2>1. \A s \in Sub : PostsOf(t, s)' = {}
    BY <1>1, <1>2 DEF LogInv, NothingFromTheFuture, PostsOf
  <2>2. \A u \in Task \ {t}, s \in Sub : PostsOf(u, s)' = PostsOf(u, s)
    BY <1>2 DEF PostsOf
  <2>. QED
    BY <1>2, <2>1, <2>2 DEF LogInv, RowFollowsPosts, RowTruth
<1>6. \A al \in alerts : al.task = t => al.exec < task'[t].exec
  BY <1>1, <1>2 DEF LogInv, NothingFromTheFuture
<1>7. LatestCommit'
  <2>1. \A u \in Task \ {t} : Staged(u)' = Staged(u) /\ InFlight(u)' = InFlight(u)
                               /\ Waiting(u)' = Waiting(u)
    BY <1>2 DEF Staged, InFlight, Waiting
  <2>2. LatestCommit
    BY DEF LogInv
  <2>3. \A al \in alerts : al.exec = task'[al.task].exec =>
           al.task \in Task \ {t} /\ task'[al.task] = task[al.task]
    BY <1>1, <1>2, <1>6
  <2>4. \A u \in Task : task'[u].state \in {"committed", "succeeded"} =>
           u \in Task \ {t} /\ task'[u] = task[u]
    BY <1>2
  <2>5. \A u \in Task : task'[u].state \in {"committed", "succeeded"} =>
          /\ Staged(u)' \subseteq alerts /\ InFlight(u)' = {} /\ Waiting(u)' = {}
    BY <2>1, <2>2, <2>4 DEF LatestCommit
  <2>6. \A al \in alerts :
          al.exec = task'[al.task].exec =>
            /\ task'[al.task].state \notin {"free", "running"}
            /\ al \in Staged(al.task)'
            /\ Staged(al.task)' \subseteq alerts
            /\ InFlight(al.task)' = {} /\ Waiting(al.task)' = {}
    BY <2>1, <2>2, <2>3 DEF LatestCommit
  <2>. QED
    BY <1>2, <2>5, <2>6 DEF LatestCommit
<1>8. RowsMatchPosts' /\ StopsOnSuccess' /\ AllOrNothing'
  BY <1>2 DEF LogInv, RowsMatchPosts, StopsOnSuccess, AllOrNothing, SameRun
<1>. QED
  BY <1>3, <1>4, <1>5, <1>7, <1>8 DEF LogInv

\* While an execution runs, none of its rows is committed, so its local changes
\* cannot contradict a committed row.
LEMMA RunningIsUncommitted ==
  ASSUME TypeInv, LogInv, NEW t \in Task, task[t].state = "running"
  PROVE  \A al \in alerts : ~(al.task = t /\ al.exec = task[t].exec)
BY DEF LogInv, LatestCommit

\* A step of a running execution that writes no row leaves the latest commit as it was.
LEMMA LatestCommitWhileRunning ==
  ASSUME TypeInv, LogInv, NEW t \in Task, task[t].state = "running",
         UNCHANGED <<task, alerts>>, \A u \in Task \ {t} : run'[u] = run[u]
  PROVE  LatestCommit'
<1>1. \A u \in Task \ {t} : Staged(u)' = Staged(u) /\ InFlight(u)' = InFlight(u)
                             /\ Waiting(u)' = Waiting(u)
  BY DEF Staged, InFlight, Waiting
<1>2. LatestCommit
  BY DEF LogInv
<1>3. \A al \in alerts : al.exec = task[al.task].exec => al.task \in Task \ {t}
  BY <1>2, RunningIsUncommitted DEF LatestCommit, TypeInv, TypeOK, AlertRow
<1>4. \A u \in Task : task[u].state \in {"committed", "succeeded"} => u \in Task \ {t}
  OBVIOUS
<1>. QED
  BY <1>1, <1>2, <1>3, <1>4 DEF LatestCommit

\* Adding a PENDING row to an execution that has posted nothing for it yet.
LEMMA LogAddAlert ==
  ASSUME TypeInv, LogInv, NEW t \in Task, NEW s \in Sub, AddAlert(t, s)
  PROVE  LogInv'
<1>1. /\ task \in [Task -> TaskRecord] /\ run \in [Task -> RunRecord]
      /\ \A al \in alerts : al.task \in Task
  BY DEF TypeInv, TypeOK, AlertRow
<1>2. /\ UNCHANGED <<task, alerts, posts>>
      /\ \A u \in Task \ {t} : run'[u] = run[u]
      /\ run'[t].matched = run[t].matched /\ run'[t].tries = 0
      /\ run'[t].row = [run[t].row EXCEPT ![s] = "PENDING"]
  BY <1>1 DEF AddAlert, SetRow
<1>3. run[t].row \in [Sub -> Status \cup {"none"}]
  BY <1>1 DEF RunRecord
<1>4. /\ s \in run[t].matched /\ run[t].row[s] = "none" /\ task[t].state = "running"
      /\ \A r \in Sub : run[t].row[r] # "PENDING"
  BY DEF AddAlert, Waiting, InFlight
<1>5. NothingFromTheFuture'
  BY <1>2 DEF LogInv, NothingFromTheFuture
<1>6. RowsAreMatched'
  BY <1>2, <1>3, <1>4 DEF LogInv, RowsAreMatched
<1>7. RowFollowsPosts'
  <2>1. \A u \in Task, r \in Sub : PostsOf(u, r)' = PostsOf(u, r)
    BY <1>2 DEF PostsOf
  <2>2. PostsOf(t, s) = {}
    BY <1>4 DEF LogInv, RowFollowsPosts, RowTruth
  <2>3. \A r \in Sub \ {s} : run'[t].row[r] = run[t].row[r]
    BY <1>2, <1>3
  <2>4. run'[t].row[s] = "PENDING" /\ run'[t].tries <= MaxRetries
    BY <1>2, <1>3, Bounds
  <2>5. PostsOf(t, s)' = {} /\ 1..(run'[t].tries) = {}
    BY <1>2, <2>1, <2>2
  <2>6. RowTruth(t, s)'
    BY <2>4, <2>5 DEF RowTruth
  <2>7. ASSUME NEW r \in Sub \ {s} PROVE RowTruth(t, r)'
    <3>1. RowTruth(t, r) /\ run[t].row[r] # "PENDING"
      BY <1>4 DEF LogInv, RowFollowsPosts
    <3>. QED
      BY <2>1, <2>3, <3>1 DEF RowTruth
  <2>8. ASSUME NEW u \in Task \ {t}, NEW r \in Sub PROVE RowTruth(u, r)'
    <3>1. RowTruth(u, r)
      BY DEF LogInv, RowFollowsPosts
    <3>. QED
      BY <1>2, <2>1, <3>1 DEF RowTruth
  <2>. QED
    BY <2>6, <2>7, <2>8 DEF RowFollowsPosts
<1>8. LatestCommit'
  BY <1>2, <1>4, LatestCommitWhileRunning
<1>9. RowsMatchPosts' /\ StopsOnSuccess' /\ AllOrNothing'
  BY <1>2 DEF LogInv, RowsMatchPosts, StopsOnSuccess, AllOrNothing, SameRun
<1>. QED
  BY <1>5, <1>6, <1>7, <1>8, <1>9 DEF LogInv

\* One more POST of the webhook in flight, and what it does to its row.
LEMMA LogPostWebhook ==
  ASSUME TypeInv, TypeInv', LogInv, NEW t \in Task, NEW s \in Sub, NEW ok \in BOOLEAN,
         PostWebhook(t, s, ok)
  PROVE  LogInv'
<1> DEFINE no == run[t].tries + 1
<1> DEFINE new == [task |-> t, exec |-> task[t].exec, sub |-> s, no |-> no, ok |-> ok]
<1>1. /\ task \in [Task -> TaskRecord] /\ run \in [Task -> RunRecord]
      /\ \A p \in posts : p.task \in Task /\ p.no \in Int /\ p.ok \in BOOLEAN
      /\ task[t].exec \in Int /\ run[t].tries \in Int
  BY TaskFields DEF TypeInv, TypeOK, PostRecord, RunRecord
<1>2. /\ UNCHANGED <<task, alerts>>
      /\ posts' = posts \cup {new}
      /\ \A u \in Task \ {t} : run'[u] = run[u]
      /\ run'[t].matched = run[t].matched /\ run'[t].tries = no
      /\ run'[t].row = [run[t].row EXCEPT ![s] = Outcome(no, ok)]
      /\ task[t].state = "running" /\ run[t].row[s] = "PENDING"
  BY <1>1 DEF PostWebhook, SetRow, InFlight
<1>3. /\ run[t].row \in [Sub -> Status \cup {"none"}]
      /\ run'[t].row[s] = Outcome(no, ok)
      /\ \A r \in Sub \ {s} : run'[t].row[r] = run[t].row[r] /\ run[t].row[r] # "PENDING"
  BY <1>1, <1>2 DEF RunRecord, TypeInv, OneInFlight
<1>4. /\ RowTruth(t, s) /\ run[t].tries <= MaxRetries
      /\ \A p \in PostsOf(t, s) : ~p.ok /\ p.no <= run[t].tries
      /\ \A n \in 1..run[t].tries : \E p \in PostsOf(t, s) : p.no = n
  BY <1>2 DEF LogInv, RowFollowsPosts, RowTruth
<1>5. /\ new.task = t /\ new.exec = task[t].exec /\ new.sub = s
      /\ new.no = no /\ new.ok = ok /\ no = run[t].tries + 1
  OBVIOUS
<1> HIDE DEF new, no
<1>6. NothingFromTheFuture'
  BY <1>1, <1>2, <1>5 DEF LogInv, NothingFromTheFuture
<1>7. RowsAreMatched'
  BY <1>2, <1>3 DEF LogInv, RowsAreMatched
<1>8. RowFollowsPosts'
  <2>1. PostsOf(t, s)' = PostsOf(t, s) \cup {new}
    BY <1>2, <1>5 DEF PostsOf
  <2>2. \A u \in Task, r \in Sub : u # t \/ r # s => PostsOf(u, r)' = PostsOf(u, r)
    BY <1>2, <1>5 DEF PostsOf
  <2>3. RowTruth(t, s)'
    <3>1. CASE ok
      BY <1>2, <1>3, <1>5, <2>1, <3>1 DEF RowTruth, Outcome
    <3>2. CASE ~ok /\ no > MaxRetries
      <4>1. no = MaxRetries + 1
        BY <1>1, <1>4, <1>5, <3>2, Bounds
      <4>2. \A n \in 1..(MaxRetries + 1) : n = no \/ n \in 1..run[t].tries
        BY <1>1, <1>5, <4>1, Bounds
      <4>3. \A n \in 1..(MaxRetries + 1) : \E p \in PostsOf(t, s)' : p.no = n
        BY <1>4, <1>5, <2>1, <4>2
      <4>. QED
        BY <1>3, <1>4, <1>5, <2>1, <3>2, <4>3 DEF RowTruth, Outcome
    <3>3. CASE ~ok /\ ~(no > MaxRetries)
      <4>1. \A n \in 1..no : n = no \/ n \in 1..run[t].tries
        BY <1>1, <1>5
      <4>2. \A n \in 1..no : \E p \in PostsOf(t, s)' : p.no = n
        BY <1>4, <1>5, <2>1, <4>1
      <4>3. no <= MaxRetries /\ \A p \in PostsOf(t, s)' : ~p.ok /\ p.no <= no
        BY <1>1, <1>4, <1>5, <2>1, <3>3, Bounds DEF PostsOf
      <4>. QED
        BY <1>2, <1>3, <3>3, <4>2, <4>3 DEF RowTruth, Outcome
    <3>. QED
      BY <3>1, <3>2, <3>3
  <2>4. ASSUME NEW r \in Sub \ {s} PROVE RowTruth(t, r)'
    <3>1. RowTruth(t, r) /\ run[t].row[r] # "PENDING"
      BY <1>3 DEF LogInv, RowFollowsPosts
    <3>. QED
      BY <1>3, <2>2, <3>1 DEF RowTruth
  <2>5. ASSUME NEW u \in Task \ {t}, NEW r \in Sub PROVE RowTruth(u, r)'
    <3>1. RowTruth(u, r)
      BY DEF LogInv, RowFollowsPosts
    <3>. QED
      BY <1>2, <2>2, <3>1 DEF RowTruth
  <2>. QED
    BY <2>3, <2>4, <2>5 DEF RowFollowsPosts
<1>9. LatestCommit'
  BY <1>2, LatestCommitWhileRunning
<1>10. \A al \in alerts : ~SameRun(new, al)
  BY <1>2, <1>5, RunningIsUncommitted DEF SameRun
<1>11. RowsMatchPosts' /\ AllOrNothing'
  BY <1>2, <1>10 DEF LogInv, RowsMatchPosts, AllOrNothing, SameRun
<1>12. StopsOnSuccess'
  <2>1. ASSUME NEW p \in posts, SameRun(p, new), p.sub = s
        PROVE  ~p.ok /\ p.no <= no
    <3>1. p \in PostsOf(t, s)
      BY <1>5, <2>1 DEF SameRun, PostsOf
    <3>. QED
      BY <1>1, <1>4, <1>5, <3>1
  <2>2. new.no <= new.no
    BY <1>1, <1>5
  <2>. QED
    BY <1>2, <1>5, <2>1, <2>2 DEF LogInv, StopsOnSuccess, SameRun
<1>. QED
  BY <1>6, <1>7, <1>8, <1>9, <1>11, <1>12 DEF LogInv

\* The commit publishes exactly the rows the execution has settled.
LEMMA LogCommit ==
  ASSUME TypeInv, LogInv, NEW t \in Task, Commit(t)
  PROVE  LogInv'
<1>1. /\ task \in [Task -> TaskRecord] /\ task[t].exec \in Nat
      /\ \A al \in alerts : al.task \in Task
      /\ \A p \in posts : p.task \in Task /\ p.sub \in Sub
  BY TaskFields DEF TypeInv, TypeOK, AlertRow, PostRecord
<1>2. /\ UNCHANGED <<run, posts>> /\ alerts' = alerts \cup Staged(t)
      /\ task[t].state = "running" /\ InFlight(t) = {} /\ Waiting(t) = {}
      /\ task'[t].state = "committed" /\ task'[t].exec = task[t].exec
      /\ \A u \in Task \ {t} : task'[u] = task[u]
  BY <1>1 DEF Commit, TaskRecord
<1>3. \A u \in Task : Staged(u)' = Staged(u) /\ InFlight(u)' = InFlight(u)
                       /\ Waiting(u)' = Waiting(u)
  BY <1>2 DEF Staged, InFlight, Waiting
<1>4. \A al \in Staged(t) :
        /\ al.task = t /\ al.exec = task[t].exec /\ al.status = run[t].row[al.sub]
        /\ al.sub \in run[t].matched /\ run[t].row[al.sub] # "none"
  BY DEF Staged
<1>5. run[t].matched \subseteq Sub /\ run[t].row \in [Sub -> Status \cup {"none"}]
  BY DEF TypeInv, TypeOK, RunRecord
<1>6. NothingFromTheFuture' /\ RowsAreMatched' /\ RowFollowsPosts' /\ StopsOnSuccess'
  <2>1. NothingFromTheFuture'
    BY <1>1, <1>2, <1>4 DEF LogInv, NothingFromTheFuture
  <2>2. RowsAreMatched' /\ StopsOnSuccess'
    BY <1>2 DEF LogInv, RowsAreMatched, StopsOnSuccess, SameRun
  <2>3. RowFollowsPosts'
    BY <1>2 DEF LogInv, RowFollowsPosts, RowTruth, PostsOf
  <2>. QED
    BY <2>1, <2>2, <2>3
<1>7. LatestCommit'
  <2>1. LatestCommit
    BY DEF LogInv
  <2>2. \A al \in alerts : al.exec = task[al.task].exec => al.task \in Task \ {t}
    BY <1>1, <1>2, RunningIsUncommitted
  <2>3. ASSUME NEW al \in alerts', al.exec = task'[al.task].exec
        PROVE  /\ task'[al.task].state \notin {"free", "running"}
               /\ al \in Staged(al.task)'
               /\ Staged(al.task)' \subseteq alerts'
               /\ InFlight(al.task)' = {} /\ Waiting(al.task)' = {}
    <3>1. CASE al \in Staged(t)
      <4>1. al.task = t
        BY <1>4, <3>1
      <4>. QED
        BY <1>2, <1>3, <3>1, <4>1
    <3>2. CASE al \in alerts
      <4>1. al.task \in Task
        BY <1>1, <3>2
      <4>2. al.exec = task[al.task].exec
        BY <1>2, <2>3, <4>1
      <4>3. al.task \in Task \ {t}
        BY <2>2, <3>2, <4>2
      <4>. QED
        BY <1>2, <1>3, <2>1, <3>2, <4>2, <4>3 DEF LatestCommit
    <3>. QED
      BY <1>2, <3>1, <3>2
  <2>4. ASSUME NEW u \in Task, task'[u].state \in {"committed", "succeeded"}
        PROVE  Staged(u)' \subseteq alerts' /\ InFlight(u)' = {} /\ Waiting(u)' = {}
    <3>1. CASE u = t
      BY <1>2, <1>3, <3>1
    <3>2. CASE u # t
      BY <1>2, <1>3, <2>1, <2>4, <3>2 DEF LatestCommit
    <3>. QED
      BY <3>1, <3>2
  <2>. QED
    BY <2>3, <2>4 DEF LatestCommit
<1>8. RowsMatchPosts'
  <2>1. ASSUME NEW al \in Staged(t)
        PROVE  /\ al.status = "DELIVERED" =>
                    \E p \in posts : SameRun(p, al) /\ p.sub = al.sub /\ p.ok
               /\ al.status = "FAILED" =>
                    /\ \A p \in posts : SameRun(p, al) /\ p.sub = al.sub => ~p.ok
                    /\ \A n \in 1..(MaxRetries + 1) : \E p \in posts :
                         SameRun(p, al) /\ p.sub = al.sub /\ p.no = n
               /\ al.status # "PENDING"
    <3>1. RowTruth(t, al.sub) /\ al.sub \in Sub
      BY <1>4, <1>5 DEF LogInv, RowFollowsPosts
    <3>2. al.status # "PENDING"
      BY <1>2, <1>4, <3>1 DEF InFlight
    <3>. QED
      BY <1>4, <3>1, <3>2 DEF RowTruth, PostsOf, SameRun
  <2>2. RowsMatchPosts
    BY DEF LogInv
  <2>. QED
    BY <1>2, <2>1, <2>2 DEF RowsMatchPosts, SameRun
<1>9. AllOrNothing'
  <2>1. ASSUME NEW al \in Staged(t), NEW p \in posts, SameRun(p, al)
        PROVE  \E r \in Staged(t) : SameRun(r, p) /\ r.sub = p.sub
    <3>1. p.task = t /\ p.exec = task[t].exec /\ p.sub \in Sub /\ p \in PostsOf(t, p.sub)
      BY <1>1, <1>4, <2>1 DEF SameRun, PostsOf
    <3>2. run[t].row[p.sub] # "none"
      BY <3>1 DEF LogInv, RowFollowsPosts, RowTruth
    <3>3. p.sub \in run[t].matched
      BY <3>1, <3>2 DEF LogInv, RowsAreMatched
    <3> DEFINE r == [task |-> t, exec |-> task[t].exec, sub |-> p.sub,
                     status |-> run[t].row[p.sub]]
    <3>4. r \in Staged(t)
      BY <3>2, <3>3 DEF Staged
    <3>5. SameRun(r, p) /\ r.sub = p.sub
      BY <3>1 DEF SameRun
    <3>. QED
      BY <3>4, <3>5
  <2>2. AllOrNothing
    BY DEF LogInv
  <2>. QED
    BY <1>2, <2>1, <2>2 DEF AllOrNothing, SameRun
<1>. QED
  BY <1>6, <1>7, <1>8, <1>9 DEF LogInv

-----------------------------------------------------------------------------
\* The log invariant holds in every reachable state.
THEOREM LogCorrect == Spec => []LogInv
<1>1. TypeInv /\ TypeInv' /\ LogInv /\ [Next]_vars => LogInv'
  <2> SUFFICES ASSUME TypeInv, TypeInv', LogInv, [Next]_vars PROVE LogInv'
    OBVIOUS
  <2>0. ASSUME UNCHANGED <<task, run, alerts, posts>> PROVE LogInv'
    <3>1. \A u \in Task : Staged(u)' = Staged(u) /\ InFlight(u)' = InFlight(u)
                           /\ Waiting(u)' = Waiting(u)
      BY <2>0 DEF Staged, InFlight, Waiting
    <3>2. \A al \in alerts : al.task \in Task
      BY DEF TypeInv, TypeOK, AlertRow
    <3>3. LatestCommit'
      BY <2>0, <3>1, <3>2 DEF LogInv, LatestCommit
    <3>. QED
      BY <2>0, <3>3, QuietStep
  <2>1. ASSUME NEW s \in Sub, RegisterWebhook(s) PROVE LogInv'
    BY <2>0, <2>1 DEF RegisterWebhook
  <2>2. ASSUME NEW t \in Task, NEW a \in Anomaly, Detected(t, a) PROVE LogInv'
    BY <2>2, LogMessageSteps DEF Detected
  <2>3. ASSUME NEW t \in Task, NEW al \in alerts, RetryAlert(t, al) PROVE LogInv'
    <3>1. al.task \in Task
      BY DEF TypeInv, TypeOK, AlertRow
    <3>2. task[al.task].anomaly \in Anomaly \cup {NoAnomaly}
      BY <3>1, TaskFields DEF TypeInv, TypeOK
    <3>. QED
      BY <2>3, <3>2, LogMessageSteps DEF RetryAlert
  <2>4. ASSUME NEW t \in Task, Advance(t) PROVE LogInv'
    <3>1. CASE Begin(t)
      BY <3>1, LogBegin
    <3>2. ASSUME NEW s \in Sub, AddAlert(t, s) PROVE LogInv'
      BY <3>2, LogAddAlert
    <3>3. ASSUME NEW s \in Sub, NEW ok \in BOOLEAN, PostWebhook(t, s, ok) PROVE LogInv'
      BY <3>3, LogPostWebhook
    <3>4. CASE Commit(t)
      BY <3>4, LogCommit
    <3>5. CASE Ack(t)
      BY <3>5, LogMessageSteps
    <3>. QED
      BY <2>4, <3>1, <3>2, <3>3, <3>4, <3>5 DEF Advance
  <2>5. ASSUME NEW t \in Task, RetryTask(t) \/ GiveUp(t) \/ ChildDies(t) \/ HostDies(t)
        PROVE  LogInv'
    BY <2>5, LogMessageSteps
  <2>6. CASE UNCHANGED vars
    BY <2>0, <2>6 DEF vars
  <2>. QED
    BY <2>1, <2>2, <2>3, <2>4, <2>5, <2>6 DEF Next, Failure
<1>. QED
  BY <1>1, LogInit, TypeInvariance, PTL DEF Spec

\* A committed row is true to the POSTs its execution made (dispatch).
THEOREM RowsAreTrue == Spec => []RowsMatchPosts
<1>1. LogInv => RowsMatchPosts
  BY DEF LogInv
<1>. QED
  BY <1>1, LogCorrect, PTL

\* No target is POSTed to again in an execution it has answered 2xx in.
THEOREM SuccessStops == Spec => []StopsOnSuccess
<1>1. LogInv => StopsOnSuccess
  BY DEF LogInv
<1>. QED
  BY <1>1, LogCorrect, PTL

\* An execution's rows are committed for all its webhooks or for none.
THEOREM CommitIsAtomic == Spec => []AllOrNothing
<1>1. LogInv => AllOrNothing
  BY DEF LogInv
<1>. QED
  BY <1>1, LogCorrect, PTL

-----------------------------------------------------------------------------
\* How many executions of a message have left rows.

Paid(t) == task[t].late + task[t].redelivered

\* The executions that left rows before the latest one are paid for; so is every
\* one when the message waits for its next execution.
RecordedIsPaid ==
  \A t \in Task :
    /\ Cardinality(Recorded(t) \ {task[t].exec}) <= Paid(t)
    /\ task[t].state \in {"free", "queued"} => Cardinality(Recorded(t)) <= Paid(t)

\* Taking out one element lowers a count by at most one.
LEMMA CountWithout ==
  ASSUME NEW S, IsFiniteSet(S), NEW x
  PROVE  /\ Cardinality(S) \in Nat /\ Cardinality(S \ {x}) \in Nat
         /\ Cardinality(S \ {x}) <= Cardinality(S)
         /\ Cardinality(S) <= 1 + Cardinality(S \ {x})
<1>1. IsFiniteSet(S \ {x})
  BY FS_RemoveElement
<1>2. Cardinality(S) \in Nat /\ Cardinality(S \ {x}) \in Nat
  BY <1>1, FS_CardinalityType
<1>3. Cardinality(S \ {x}) = IF x \in S THEN Cardinality(S) - 1 ELSE Cardinality(S)
  BY FS_RemoveElement
<1>. QED
  BY <1>2, <1>3

\* The executions that left rows are numbers of executions, so finitely many.
LEMMA CountRecorded ==
  ASSUME TypeInv, NEW t \in Task
  PROVE  \A n : /\ Cardinality(Recorded(t)) \in Nat
                /\ Cardinality(Recorded(t) \ {n}) \in Nat
                /\ Cardinality(Recorded(t) \ {n}) <= Cardinality(Recorded(t))
                /\ Cardinality(Recorded(t)) <= 1 + Cardinality(Recorded(t) \ {n})
<1>1. Recorded(t) \subseteq 1..MaxExec
  BY DEF TypeInv, TypeOK, AlertRow, Execution, Recorded
<1>2. MaxExec \in Int
  BY Bounds DEF MaxExec
<1>3. IsFiniteSet(1..MaxExec)
  BY <1>2, FS_Interval
<1>4. IsFiniteSet(Recorded(t))
  BY <1>1, <1>3, FS_Subset
<1>. QED
  BY <1>4, CountWithout

\* A message whose rows, number and state for waiting stay as they were keeps its
\* account, if what it has paid does not shrink.
LEMMA PaidOn ==
  ASSUME TypeInv, TypeInv', RecordedIsPaid, NEW t \in Task,
         Recorded(t)' = Recorded(t), task'[t].exec = task[t].exec, Paid(t) <= Paid(t)',
         task'[t].state \in {"free", "queued"} => task[t].state \in {"free", "queued"}
  PROVE  /\ Cardinality(Recorded(t)' \ {task'[t].exec}) <= Paid(t)'
         /\ task'[t].state \in {"free", "queued"} =>
              Cardinality(Recorded(t)') <= Paid(t)'
<1>1. Paid(t) \in Nat /\ Paid(t)' \in Nat
  BY TaskFields DEF TypeInv, TypeOK, Paid
<1>2. /\ Cardinality(Recorded(t)) \in Nat
      /\ Cardinality(Recorded(t) \ {task[t].exec}) \in Nat
  BY CountRecorded
<1>. QED
  BY <1>1, <1>2 DEF RecordedIsPaid

\* An execution that fails before its commit has left no row; one that fails after
\* it, or on a lost host, is counted.
LEMMA PaidFailure ==
  ASSUME TypeInv, LogInv, RecordedIsPaid, NEW t \in Task, RetryTask(t) \/ HostDies(t)
  PROVE  /\ Cardinality(Recorded(t)) <= Paid(t)'
         /\ Cardinality(Recorded(t) \ {task[t].exec}) <= Paid(t)'
         /\ task'[t].exec = task[t].exec
<1>1. /\ task[t] \in TaskRecord /\ task \in [Task -> TaskRecord]
      /\ task[t].late \in Nat /\ task[t].redelivered \in Nat
  BY TaskFields DEF TypeInv, TypeOK
<1>2. task'[t].exec = task[t].exec
  BY <1>1 DEF RetryTask, HostDies, TaskRecord
<1>3. CASE RetryTask(t) /\ task[t].state = "running"
  <2>1. task[t].exec \notin Recorded(t)
    BY <1>3, RunningIsUncommitted DEF Recorded
  <2>2. Recorded(t) \ {task[t].exec} = Recorded(t)
    BY <2>1
  <2>3. Paid(t)' = Paid(t)
    BY <1>1, <1>3 DEF RetryTask, TaskRecord, Paid
  <2>. QED
    BY <1>2, <2>2, <2>3 DEF RecordedIsPaid
<1>4. CASE HostDies(t) \/ (RetryTask(t) /\ task[t].state = "committed")
  <2>1. Paid(t)' = Paid(t) + 1 /\ Paid(t) \in Nat
    BY <1>1, <1>4 DEF RetryTask, HostDies, TaskRecord, Paid
  <2>2. Cardinality(Recorded(t) \ {task[t].exec}) <= Paid(t)
    BY DEF RecordedIsPaid
  <2>3. /\ Cardinality(Recorded(t)) \in Nat
        /\ Cardinality(Recorded(t) \ {task[t].exec}) \in Nat
        /\ Cardinality(Recorded(t)) <= 1 + Cardinality(Recorded(t) \ {task[t].exec})
    BY CountRecorded
  <2>. QED
    BY <1>2, <2>1, <2>2, <2>3
<1>5. RetryTask(t) => task[t].state = "running" \/ task[t].state = "committed"
  BY DEF RetryTask
<1>. QED
  BY <1>3, <1>4, <1>5

\* A message has the rows of one execution, and of one more for every redelivery
\* and every execution that failed after its commit: whatever raises before the
\* commit leaves no rows behind (dispatch_alerts_task).
THEOREM RowsRepeatOnlyIfPaid == Spec => []RowsRepeatOnlyAfterCommit
<1>1. Init => RecordedIsPaid
  <2> SUFFICES ASSUME Init, NEW t \in Task
               PROVE  /\ Cardinality(Recorded(t) \ {task[t].exec}) <= Paid(t)
                      /\ Cardinality(Recorded(t)) <= Paid(t)
    BY DEF RecordedIsPaid
  <2>1. Recorded(t) = {} /\ Recorded(t) \ {task[t].exec} = {} /\ Paid(t) = 0
    BY DEF Init, FreeTask, Recorded, Paid
  <2>. QED
    BY <2>1, FS_EmptySet
<1>2. TypeInv /\ TypeInv' /\ LogInv /\ RecordedIsPaid /\ [Next]_vars => RecordedIsPaid'
  <2> SUFFICES ASSUME TypeInv, TypeInv', LogInv, RecordedIsPaid, [Next]_vars,
                      NEW u \in Task
               PROVE  /\ Cardinality(Recorded(u)' \ {task'[u].exec}) <= Paid(u)'
                      /\ task'[u].state \in {"free", "queued"} =>
                           Cardinality(Recorded(u)') <= Paid(u)'
    BY DEF RecordedIsPaid
  <2>0. /\ task \in [Task -> TaskRecord] /\ task[u] \in TaskRecord
        /\ task[u].exec \in Nat /\ Paid(u) \in Nat
    BY TaskFields DEF TypeInv, TypeOK, Paid
  <2>a. alerts' = alerts => Recorded(u)' = Recorded(u)
    BY DEF Recorded
  <2>b. task'[u] = task[u] => Paid(u) <= Paid(u)' /\ task'[u].exec = task[u].exec
    BY <2>0 DEF Paid
  <2>1. CASE alerts' = alerts /\ task'[u] = task[u]
    BY <2>1, <2>a, <2>b, PaidOn
  <2>2. ASSUME NEW t \in Task, NEW a, NEW o, Enqueue(t, a, o)
        PROVE  /\ Cardinality(Recorded(u)' \ {task'[u].exec}) <= Paid(u)'
               /\ task'[u].state \in {"free", "queued"} =>
                    Cardinality(Recorded(u)') <= Paid(u)'
    <3>1. CASE u # t
      BY <2>0, <2>1, <2>2, <3>1 DEF Enqueue
    <3>2. CASE u = t
      <4>1. /\ task[u].state = "free" /\ Recorded(u)' = Recorded(u)
            /\ task'[u].exec = task[u].exec /\ Paid(u)' = Paid(u)
        BY <2>0, <2>2, <2>a, <3>2 DEF Enqueue, TaskRecord, Paid
      <4>. QED
        BY <2>0, <4>1, PaidOn
    <3>. QED
      BY <3>1, <3>2
  <2>3. ASSUME NEW t \in Task, Begin(t)
        PROVE  /\ Cardinality(Recorded(u)' \ {task'[u].exec}) <= Paid(u)'
               /\ task'[u].state \in {"free", "queued"} =>
                    Cardinality(Recorded(u)') <= Paid(u)'
    <3>1. CASE u # t
      BY <2>0, <2>1, <2>3, <3>1 DEF Begin
    <3>2. CASE u = t
      <4>1. /\ task[u].state = "queued" /\ task'[u].state = "running"
            /\ Paid(u)' = Paid(u) /\ Recorded(u)' = Recorded(u)
        BY <2>0, <2>3, <2>a, <3>2 DEF Begin, TaskRecord, Paid
      <4>2. Cardinality(Recorded(u)) <= Paid(u)
        BY <4>1 DEF RecordedIsPaid
      <4>3. /\ Cardinality(Recorded(u)) \in Nat
            /\ Cardinality(Recorded(u) \ {task'[u].exec}) \in Nat
            /\ Cardinality(Recorded(u) \ {task'[u].exec}) <= Cardinality(Recorded(u))
        BY CountRecorded
      <4>. QED
        BY <2>0, <4>1, <4>2, <4>3
    <3>. QED
      BY <3>1, <3>2
  <2>4. ASSUME NEW t \in Task, Commit(t)
        PROVE  /\ Cardinality(Recorded(u)' \ {task'[u].exec}) <= Paid(u)'
               /\ task'[u].state \in {"free", "queued"} =>
                    Cardinality(Recorded(u)') <= Paid(u)'
    <3>1. \A al \in Staged(t) : al.task = t /\ al.exec = task[t].exec
      BY DEF Staged
    <3>2. CASE u # t
      <4>1. Recorded(u)' = Recorded(u) /\ task'[u] = task[u]
        BY <2>0, <2>4, <3>1, <3>2 DEF Commit, Recorded
      <4>. QED
        BY <2>b, <4>1, PaidOn
    <3>3. CASE u = t
      <4>1. /\ task'[u].state = "committed" /\ task'[u].exec = task[u].exec
            /\ Paid(u)' = Paid(u)
        BY <2>0, <2>4, <3>3 DEF Commit, TaskRecord, Paid
      <4>2. Recorded(u)' \ {task[u].exec} = Recorded(u) \ {task[u].exec}
        BY <2>4, <3>1, <3>3 DEF Commit, Recorded
      <4>. QED
        BY <4>1, <4>2 DEF RecordedIsPaid
    <3>. QED
      BY <3>2, <3>3
  <2>5. ASSUME NEW t \in Task, Ack(t) \/ GiveUp(t) \/ ChildDies(t)
        PROVE  /\ Cardinality(Recorded(u)' \ {task'[u].exec}) <= Paid(u)'
               /\ task'[u].state \in {"free", "queued"} =>
                    Cardinality(Recorded(u)') <= Paid(u)'
    <3> USE DEF Ack, GiveUp, ChildDies
    <3>1. /\ task'[u].exec = task[u].exec /\ Paid(u)' = Paid(u)
          /\ task'[u].state \in {"free", "queued"} => task[u].state \in {"free", "queued"}
      BY <2>0, <2>5 DEF TaskRecord, Paid
    <3>2. Recorded(u)' = Recorded(u)
      BY <2>5, <2>a
    <3>. QED
      BY <2>0, <3>1, <3>2, PaidOn
  <2>6. ASSUME NEW t \in Task, RetryTask(t) \/ HostDies(t)
        PROVE  /\ Cardinality(Recorded(u)' \ {task'[u].exec}) <= Paid(u)'
               /\ task'[u].state \in {"free", "queued"} =>
                    Cardinality(Recorded(u)') <= Paid(u)'
    <3>1. Recorded(u)' = Recorded(u)
      BY <2>6, <2>a DEF RetryTask, HostDies
    <3>2. CASE u # t
      BY <2>0, <2>1, <2>6, <3>2 DEF RetryTask, HostDies
    <3>3. CASE u = t
      BY <2>6, <3>1, <3>3, PaidFailure
    <3>. QED
      BY <3>2, <3>3
  <2>. QED
    BY <2>1, <2>2, <2>3, <2>4, <2>5, <2>6
       DEF Next, Advance, Failure, Detected, RetryAlert, RegisterWebhook, AddAlert,
           PostWebhook, vars
<1>3. TypeInv /\ RecordedIsPaid => RowsRepeatOnlyAfterCommit
  <2> SUFFICES ASSUME TypeInv, RecordedIsPaid, NEW t \in Task
               PROVE  Cardinality(Recorded(t)) <= 1 + task[t].late + task[t].redelivered
    BY DEF RowsRepeatOnlyAfterCommit
  <2>1. /\ Cardinality(Recorded(t) \ {task[t].exec}) <= Paid(t)
        /\ task[t].late \in Nat /\ task[t].redelivered \in Nat
    BY TaskFields DEF RecordedIsPaid, TypeInv, TypeOK
  <2>2. /\ Cardinality(Recorded(t)) \in Nat
        /\ Cardinality(Recorded(t) \ {task[t].exec}) \in Nat
        /\ Cardinality(Recorded(t)) <= 1 + Cardinality(Recorded(t) \ {task[t].exec})
    BY CountRecorded
  <2>. QED
    BY <2>1, <2>2 DEF Paid
<1>. QED
  BY <1>1, <1>2, <1>3, TypeInvariance, LogCorrect, PTL DEF Spec

\* A task that committed has exactly one row per subscription it matched.
THEOREM CommitIsComplete == Spec => []CommittedIsComplete
<1>1. TypeInv /\ LogInv => CommittedIsComplete
  <2> SUFFICES ASSUME TypeInv, LogInv, NEW t \in Task,
                      task[t].state \in {"committed", "succeeded"}
               PROVE  run[t].matched =
                        {al.sub : al \in {r \in alerts : r.task = t /\ r.exec = task[t].exec}}
    BY DEF CommittedIsComplete
  <2>1. Staged(t) \subseteq alerts /\ Waiting(t) = {}
    BY DEF LogInv, LatestCommit
  <2>2. ASSUME NEW s \in run[t].matched
        PROVE  \E al \in alerts : al.task = t /\ al.exec = task[t].exec /\ al.sub = s
    <3> DEFINE r == [task |-> t, exec |-> task[t].exec, sub |-> s,
                     status |-> run[t].row[s]]
    <3>1. r \in Staged(t)
      BY <2>1, <2>2 DEF Waiting, Staged
    <3>. QED
      BY <2>1, <3>1
  <2>3. ASSUME NEW al \in alerts, al.task = t, al.exec = task[t].exec
        PROVE  al.sub \in run[t].matched
    <3>1. al \in Staged(t)
      BY <2>3 DEF LogInv, LatestCommit
    <3>. QED
      BY <3>1 DEF Staged
  <2>. QED
    BY <2>2, <2>3
<1>. QED
  BY <1>1, TypeInvariance, LogCorrect, PTL

-----------------------------------------------------------------------------
\* The operator's retry.

\* Executions send to subscriptions that match, and so do their rows: a
\* subscription that matched an anomaly once matches it ever after.
MatchInv ==
  /\ \A t \in Task :
       IF task[t].state = "free" THEN run[t].matched = {}
       ELSE run[t].matched \subseteq Matching(task[t].anomaly)
  /\ \A al \in alerts :
       /\ task[al.task].state # "free"
       /\ al.sub \in Matching(task[al.task].anomaly)

\* An operator's message has a failed alert of another message to make good, and
\* its execution sends to that alert's subscription again.
MayFinish(t) == task[t].state \in {"running", "committed", "succeeded"}

MakesGood(t, failed) ==
  /\ failed.status = "FAILED" /\ failed.task # t
  /\ task[failed.task].anomaly = task[t].anomaly
  /\ MayFinish(t) => failed.sub \in run[t].matched

RetryInv ==
  \A t \in Task :
    task[t].origin = "operator" /\ task[t].state # "free" =>
      \E failed \in alerts : MakesGood(t, failed)

\* A step that neither submits a message nor begins an execution, and commits at
\* most rows of what its execution has matched.
LEMMA ReachOn ==
  ASSUME TypeInv, MatchInv, RetryInv, subs \subseteq subs', alerts \subseteq alerts',
         \A u \in Task : /\ task'[u].anomaly = task[u].anomaly
                         /\ task'[u].origin = task[u].origin
                         /\ task'[u].state = "free" <=> task[u].state = "free"
                         /\ MayFinish(u)' => MayFinish(u)
                         /\ run'[u].matched = run[u].matched,
         \A al \in alerts' :
           \/ al \in alerts
           \/ /\ al.task \in Task /\ task[al.task].state # "free"
              /\ al.sub \in run[al.task].matched
  PROVE  MatchInv' /\ RetryInv'
<1>1. \A al \in alerts : al.task \in Task
  BY DEF TypeInv, TypeOK, AlertRow
<1>2. \A a : Matching(a) \subseteq Matching(a)'
  BY DEF Matching
<1>3. MatchInv'
  BY <1>1, <1>2 DEF MatchInv
<1>4. \A t \in Task : \A failed \in alerts : MakesGood(t, failed) => MakesGood(t, failed)'
  BY <1>1 DEF MakesGood
<1>5. RetryInv'
  BY <1>4 DEF RetryInv
<1>. QED
  BY <1>3, <1>5

\* A message is submitted; an operator's is about a failed alert's anomaly.
LEMMA ReachEnqueue ==
  ASSUME TypeInv, MatchInv, RetryInv, NEW t \in Task, NEW a, NEW origin,
         Enqueue(t, a, origin),
         origin = "operator" =>
           \E al \in alerts : al.status = "FAILED" /\ a = task[al.task].anomaly
  PROVE  MatchInv' /\ RetryInv'
<1>1. \A al \in alerts : al.task \in Task /\ al.task # t
  BY DEF TypeInv, TypeOK, AlertRow, MatchInv, Enqueue
<1>2. /\ \A u \in Task \ {t} : task'[u] = task[u]
      /\ task'[t].state = "queued" /\ task'[t].anomaly = a /\ task'[t].origin = origin
      /\ UNCHANGED <<subs, run, alerts>>
  BY DEF Enqueue, TypeInv, TypeOK, TaskRecord
<1>3. \A b : Matching(b)' = Matching(b)
  BY <1>2 DEF Matching
<1>4. MatchInv'
  <2>1. run[t].matched = {} /\ task[t].state = "free"
    BY DEF MatchInv, Enqueue
  <2>2. \A al \in alerts' : /\ task'[al.task].state # "free"
                            /\ al.sub \in Matching(task[al.task].anomaly)'
    BY <1>1, <1>2, <1>3 DEF MatchInv
  <2>3. ASSUME NEW u \in Task
        PROVE  IF task'[u].state = "free" THEN run'[u].matched = {}
               ELSE run'[u].matched \subseteq Matching(task[u].anomaly)'
    <3>1. CASE u = t
      BY <1>2, <2>1, <3>1
    <3>2. CASE u # t
      <4>1. task'[u] = task[u] /\ run'[u] = run[u]
        BY <1>2, <3>2
      <4>. QED
        BY <1>3, <4>1 DEF MatchInv
    <3>. QED
      BY <3>1, <3>2
  <2>. QED
    BY <2>2, <2>3 DEF MatchInv
<1>5. \A u \in Task \ {t} : \A failed \in alerts :
        MakesGood(u, failed) => MakesGood(u, failed)'
  BY <1>1, <1>2 DEF MakesGood, MayFinish
<1>6. origin = "operator" => \E failed \in alerts : MakesGood(t, failed)'
  BY <1>1, <1>2 DEF MakesGood, MayFinish
<1>7. RetryInv'
  BY <1>2, <1>5, <1>6 DEF RetryInv
<1>. QED
  BY <1>4, <1>7

\* An execution reads the subscriptions anew: the failed alert's is among them.
LEMMA ReachBegin ==
  ASSUME TypeInv, MatchInv, RetryInv, NEW t \in Task, Begin(t)
  PROVE  MatchInv' /\ RetryInv'
<1>1. \A al \in alerts : al.task \in Task
  BY DEF TypeInv, TypeOK, AlertRow
<1>2. /\ \A u \in Task \ {t} : task'[u] = task[u] /\ run'[u] = run[u]
      /\ task'[t].state = "running" /\ task'[t].anomaly = task[t].anomaly
      /\ task'[t].origin = task[t].origin /\ task[t].state = "queued"
      /\ UNCHANGED <<subs, alerts>>
  BY DEF Begin, TypeInv, TypeOK, TaskRecord
<1>3. run'[t].matched = Matching(task[t].anomaly)
  BY DEF Begin, TypeInv, TypeOK, EmptyRun
<1>4. \A b : Matching(b)' = Matching(b)
  BY <1>2 DEF Matching
<1>5. MatchInv'
  BY <1>1, <1>2, <1>3, <1>4 DEF MatchInv
<1>6. \A u \in Task : \A failed \in alerts : MakesGood(u, failed) => MakesGood(u, failed)'
  <2> SUFFICES ASSUME NEW u \in Task, NEW failed \in alerts, MakesGood(u, failed)
               PROVE  MakesGood(u, failed)'
    OBVIOUS
  <2>1. task'[failed.task].anomaly = task'[u].anomaly
    BY <1>1, <1>2 DEF MakesGood
  <2>2. CASE u = t
    BY <1>1, <1>3, <2>1, <2>2 DEF MakesGood, MatchInv
  <2>3. CASE u # t
    BY <1>2, <2>1, <2>3 DEF MakesGood, MayFinish
  <2>. QED
    BY <2>2, <2>3
<1>7. RetryInv'
  BY <1>2, <1>6 DEF RetryInv
<1>. QED
  BY <1>5, <1>7

\* A retry does what the operator asked for: when it has succeeded, a target that
\* another message had failed to reach has a row of the retry, although the retry
\* names no target (retry_alert and dispatch).
THEOREM RetriesReach == Spec => []RetryReachesFailedTarget
<1>1. Init => MatchInv /\ RetryInv
  BY DEF Init, MatchInv, RetryInv, FreeTask, EmptyRun
<1>2. TypeInv /\ MatchInv /\ RetryInv /\ [Next]_vars => MatchInv' /\ RetryInv'
  <2> SUFFICES ASSUME TypeInv, MatchInv, RetryInv, [Next]_vars
               PROVE  MatchInv' /\ RetryInv'
    OBVIOUS
  <2>0. /\ task \in [Task -> TaskRecord] /\ run \in [Task -> RunRecord]
        /\ \A al \in alerts : al.task \in Task
    BY DEF TypeInv, TypeOK, AlertRow
  <2>1. ASSUME NEW s \in Sub, RegisterWebhook(s) PROVE MatchInv' /\ RetryInv'
    BY <2>1, ReachOn DEF RegisterWebhook, MayFinish
  <2>2. ASSUME NEW t \in Task, NEW a \in Anomaly, Detected(t, a)
        PROVE  MatchInv' /\ RetryInv'
    BY <2>2, ReachEnqueue DEF Detected
  <2>3. ASSUME NEW t \in Task, NEW al \in alerts, RetryAlert(t, al)
        PROVE  MatchInv' /\ RetryInv'
    BY <2>3, ReachEnqueue DEF RetryAlert
  <2>4. ASSUME NEW t \in Task, Begin(t) PROVE MatchInv' /\ RetryInv'
    BY <2>4, ReachBegin
  <2>5. ASSUME NEW t \in Task, NEW s \in Sub,
               AddAlert(t, s) \/ \E ok \in BOOLEAN : PostWebhook(t, s, ok)
        PROVE  MatchInv' /\ RetryInv'
    <3>1. UNCHANGED <<subs, task, alerts>> /\ \A u \in Task : run'[u].matched = run[u].matched
      BY <2>0, <2>5 DEF AddAlert, PostWebhook, SetRow
    <3>. QED
      BY <3>1, ReachOn DEF MayFinish
  <2>6. ASSUME NEW t \in Task,
               Commit(t) \/ Ack(t) \/ RetryTask(t) \/ GiveUp(t) \/ ChildDies(t) \/ HostDies(t)
        PROVE  MatchInv' /\ RetryInv'
    <3> USE DEF Commit, Ack, RetryTask, GiveUp, ChildDies, HostDies
    <3>1. /\ \A u \in Task : /\ task'[u].anomaly = task[u].anomaly
                             /\ task'[u].origin = task[u].origin
                             /\ u # t => task'[u].state = task[u].state
          /\ UNCHANGED <<subs, run>>
      BY <2>0, <2>6 DEF TaskRecord
    <3>2. /\ task[t].state \notin {"free", "queued"}
          /\ task'[t].state \in {"queued", "committed", "succeeded", "failed", "lost"}
          /\ task'[t].state \in {"committed", "succeeded"} =>
               task[t].state \in {"running", "committed"}
      BY <2>0, <2>6 DEF TaskRecord
    <3>3. alerts \subseteq alerts' /\ \A al \in alerts' : al \in alerts \/ al \in Staged(t)
      BY <2>6
    <3>4. \A al \in Staged(t) : al.task = t /\ al.sub \in run[t].matched
      BY DEF Staged
    <3>5. \A u \in Task : /\ task'[u].state = "free" <=> task[u].state = "free"
                          /\ MayFinish(u)' => MayFinish(u)
      BY <3>1, <3>2 DEF MayFinish
    <3>. QED
      BY <3>1, <3>2, <3>3, <3>4, <3>5, ReachOn
  <2>7. CASE UNCHANGED vars
    BY <2>7, ReachOn DEF vars, MayFinish
  <2>. QED
    BY <2>1, <2>2, <2>3, <2>4, <2>5, <2>6, <2>7 DEF Next, Advance, Failure
<1>3. RetryInv /\ CommittedIsComplete => RetryReachesFailedTarget
  <2> SUFFICES ASSUME RetryInv, CommittedIsComplete, NEW t \in Task,
                      task[t].origin = "operator", task[t].state = "succeeded"
               PROVE  \E failed, row \in alerts :
                        /\ failed.status = "FAILED" /\ failed.task # t
                        /\ task[failed.task].anomaly = task[t].anomaly
                        /\ row.task = t /\ row.exec = task[t].exec /\ row.sub = failed.sub
    BY DEF RetryReachesFailedTarget
  <2>1. PICK failed \in alerts : MakesGood(t, failed)
    BY DEF RetryInv
  <2>2. \E row \in alerts : row.task = t /\ row.exec = task[t].exec /\ row.sub = failed.sub
    BY <2>1 DEF MakesGood, MayFinish, CommittedIsComplete
  <2>. QED
    BY <2>1, <2>2 DEF MakesGood
<1>. QED
  BY <1>1, <1>2, <1>3, TypeInvariance, CommitIsComplete, PTL DEF Spec
=============================================================================
