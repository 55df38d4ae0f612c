---------------------------- MODULE AlertDispatch ----------------------------
(***************************************************************************)
(* Delivery of alerts: dispatch_alerts_task (src/tasks/ingestion.py), the  *)
(* AlertDispatcher it runs (src/core/dispatcher.py) and the operator's     *)
(* POST /api/alerts/{id}/retry (src/api/routes/alerts.py).                 *)
(*                                                                         *)
(* A Celery task is one message at the broker.  Its execution walks the    *)
(* active subscriptions that match the anomaly, POSTs each webhook up to   *)
(* MaxRetries + 1 times, and commits all its Alert rows at the very end;   *)
(* the message is acknowledged only after that (task_acks_late).  An error *)
(* before or after the commit retries the task, the death of the worker's  *)
(* child process loses it, and the loss of the worker's host makes the     *)
(* broker deliver it again.                                                *)
(***************************************************************************)
EXTENDS Integers, FiniteSets

CONSTANTS
  Anomaly,          \* persisted Anomaly rows
  NoAnomaly,        \* what a message not yet submitted is about
  Sub,              \* WebhookSubscription rows that may be registered
  Type,             \* anomaly types
  Task,             \* broker messages of dispatch_alerts_task
  SeverityOf,       \* anomaly -> 0 INFO, 1 WARNING, 2 CRITICAL
  TypeOf,           \* anomaly -> its type
  SeverityMin,      \* subscription -> least severity it wants
  TypesOf,          \* subscription -> types it wants, {} for all
  MaxRetries,       \* AlertDispatcher.MAX_RETRIES
  TaskRetries,      \* max_retries of the Celery task
  MaxRedeliveries   \* bound: redeliveries of one message by the broker

ASSUME MatchAssumption ==
  /\ SeverityOf \in [Anomaly -> 0..2]
  /\ TypeOf \in [Anomaly -> Type]
  /\ SeverityMin \in [Sub -> 0..2]
  /\ TypesOf \in [Sub -> SUBSET Type]
  /\ NoAnomaly \notin Anomaly

ASSUME BoundsAssumption ==
  /\ MaxRetries \in Nat
  /\ TaskRetries \in Nat
  /\ MaxRedeliveries \in Nat

VARIABLES
  subs,     \* registered (active) subscriptions
  task,     \* the broker's and the worker's view of each message
  run,      \* locals of the latest execution of each task
  alerts,   \* committed Alert rows
  posts     \* every POST a worker made, with the answer it got

vars == <<subs, task, run, alerts, posts>>

MaxExec == 1 + TaskRetries + MaxRedeliveries
Execution == 1..MaxExec

Status == {"PENDING", "DELIVERED", "FAILED"}

TaskRecord ==
  [state : {"free", "queued", "running", "committed",
            "succeeded", "failed", "lost"},
   origin : {"detector", "operator"},
   anomaly : Anomaly \cup {NoAnomaly},
   retries : 0..TaskRetries,
   late : 0..TaskRetries,         \* history: retries that came after the commit
   redelivered : 0..MaxRedeliveries,
   exec : 0..MaxExec]

RunRecord == [matched : SUBSET Sub,
              row : [Sub -> Status \cup {"none"}],
              tries : 0..(MaxRetries + 1)]

AlertRow == [task : Task, exec : Execution, sub : Sub, status : Status]
PostRecord == [task : Task, exec : Execution, sub : Sub,
               no : 1..(MaxRetries + 1), ok : BOOLEAN]

TypeOK ==
  /\ subs \subseteq Sub
  /\ task \in [Task -> TaskRecord]
  /\ run \in [Task -> RunRecord]
  /\ alerts \subseteq AlertRow
  /\ posts \subseteq PostRecord

-----------------------------------------------------------------------------
\* Which subscriptions an anomaly is sent to, and where an execution stands.
Matching(a) ==
  {s \in subs : /\ SeverityOf[a] >= SeverityMin[s]
                /\ TypesOf[s] = {} \/ TypeOf[a] \in TypesOf[s]}

\* Subscriptions whose Alert row this execution has not yet added.
Waiting(t) == {s \in run[t].matched : run[t].row[s] = "none"}

\* The subscription whose row is flushed as PENDING while its webhook is sent.
InFlight(t) == {s \in Sub : run[t].row[s] = "PENDING"}

Staged(t) ==
  {[task |-> t, exec |-> task[t].exec, sub |-> s, status |-> run[t].row[s]] :
     s \in {x \in run[t].matched : run[t].row[x] # "none"}}

EmptyRun == [matched |-> {}, row |-> [s \in Sub |-> "none"], tries |-> 0]

FreeTask == [state |-> "free", origin |-> "detector", anomaly |-> NoAnomaly,
             retries |-> 0, late |-> 0, redelivered |-> 0, exec |-> 0]

Init ==
  /\ subs = {}
  /\ task = [t \in Task |-> FreeTask]
  /\ run = [t \in Task |-> EmptyRun]
  /\ alerts = {}
  /\ posts = {}

-----------------------------------------------------------------------------
\* Requests that reach this component.

RegisterWebhook(s) ==
  /\ s \notin subs
  /\ subs' = subs \cup {s}
  /\ UNCHANGED <<task, run, alerts, posts>>

\* dispatch_alerts_task.delay(anomaly) from the given caller.
Enqueue(t, a, origin) ==
  /\ task[t].state = "free"
  /\ task' = [task EXCEPT ![t].state = "queued",
                          ![t].origin = origin,
                          ![t].anomaly = a]
  /\ UNCHANGED <<subs, run, alerts, posts>>

\* The detector submits each anomaly it has committed, at most once.
Detected(t, a) ==
  /\ \A u \in Task : ~(task[u].anomaly = a /\ task[u].origin = "detector")
  /\ Enqueue(t, a, "detector")

\* Mutant: any alert may be retried, whatever its status.
RetryAlert_AnyStatus(t, al) ==
  Enqueue(t, task[al.task].anomaly, "operator")

\* retry_alert: 400 unless the alert is FAILED; its row is left as it is.
RetryAlert(t, al) ==
  /\ al.status = "FAILED"
  /\ Enqueue(t, task[al.task].anomaly, "operator")

-----------------------------------------------------------------------------
\* One execution of the task.

Begin(t) ==
  /\ task[t].state = "queued"
  /\ task' = [task EXCEPT ![t].state = "running", ![t].exec = @ + 1]
  /\ run' = [run EXCEPT ![t] =
               [EmptyRun EXCEPT !.matched = Matching(task[t].anomaly)]]
  /\ UNCHANGED <<subs, alerts, posts>>

\* The execution's row for s and the number of POSTs made for it.
SetRow(t, s, status, tries) ==
  run' = [run EXCEPT ![t] = [matched |-> run[t].matched,
                             row |-> [run[t].row EXCEPT ![s] = status],
                             tries |-> tries]]

\* The loop reaches the next matching subscription: db.add, db.flush.
AddAlert(t, s) ==
  /\ task[t].state = "running"
  /\ InFlight(t) = {}
  /\ s \in Waiting(t)
  /\ SetRow(t, s, "PENDING", 0)
  /\ UNCHANGED <<subs, task, alerts, posts>>

\* Mutant: a failed first POST is final.
Outcome_NoRetry(no, ok) == IF ok THEN "DELIVERED" ELSE "FAILED"

\* Mutant: the backoff loop runs whatever the first POST was answered.
Outcome_FirstResultDropped(no, ok) ==
  IF ok /\ no > 1 THEN "DELIVERED"
  ELSE IF no > MaxRetries THEN "FAILED" ELSE "PENDING"

\* Mutant: one retry more than MAX_RETRIES.
Outcome_OneTooMany(no, ok) ==
  IF ok THEN "DELIVERED"
  ELSE IF no > MaxRetries + 1 THEN "FAILED" ELSE "PENDING"

\* The row's status after POST number no: a 2xx answer, no retry left, or the
\* backoff loop goes on.
Outcome(no, ok) ==
  IF ok THEN "DELIVERED"
  ELSE IF no > MaxRetries THEN "FAILED" ELSE "PENDING"

\* _send_webhook, the first call or retry number tries: ok is a 2xx answer,
\* ~ok any other answer, a refused connection or a timeout.
PostWebhook(t, s, ok) ==
  LET no == run[t].tries + 1 IN
  /\ task[t].state = "running"
  /\ s \in InFlight(t)
  /\ posts' = posts \cup {[task |-> t, exec |-> task[t].exec, sub |-> s,
                           no |-> no, ok |-> ok]}
  /\ SetRow(t, s, Outcome(no, ok), no)
  /\ UNCHANGED <<subs, task, alerts>>

\* Mutant: the commit is made inside the loop, after each subscription.
Commit_PerSubscription(t) ==
  /\ task[t].state = "running"
  /\ InFlight(t) = {}
  /\ alerts' = alerts \cup Staged(t)
  /\ task' = [task EXCEPT ![t].state =
                IF Waiting(t) = {} THEN "committed" ELSE @]
  /\ UNCHANGED <<subs, run, posts>>

\* Mutant: the commit does not wait for the loop to end.
Commit_Early(t) ==
  /\ task[t].state = "running" /\ InFlight(t) = {}
  /\ alerts' = alerts \cup Staged(t)
  /\ task' = [task EXCEPT ![t].state = "committed"]
  /\ UNCHANGED <<subs, run, posts>>

\* Mutant: an execution with nothing to send returns without finishing.
Commit_OnlyWithRows(t) ==
  /\ task[t].state = "running" /\ InFlight(t) = {} /\ Waiting(t) = {}
  /\ Staged(t) # {}
  /\ alerts' = alerts \cup Staged(t)
  /\ task' = [task EXCEPT ![t].state = "committed"]
  /\ UNCHANGED <<subs, run, posts>>

Commit(t) ==
  /\ task[t].state = "running"
  /\ InFlight(t) = {} /\ Waiting(t) = {}
  /\ alerts' = alerts \cup Staged(t)
  /\ task' = [task EXCEPT ![t].state = "committed"]
  /\ UNCHANGED <<subs, run, posts>>

\* The task function has logged its results, closed its session and returned,
\* and the worker acknowledges the message.
Ack(t) ==
  /\ task[t].state = "committed"
  /\ task' = [task EXCEPT ![t].state = "succeeded"]
  /\ UNCHANGED <<subs, run, alerts, posts>>

-----------------------------------------------------------------------------
\* Failures.  The session closes: rows not yet committed are gone, a commit that
\* was made stays.

\* Mutant: a failing execution leaves the rows it has settled committed.
RetryTask_KeepsRows(t) ==
  /\ task[t].state \in {"running", "committed"} /\ task[t].retries < TaskRetries
  /\ alerts' = alerts \cup Staged(t)
  /\ task' = [task EXCEPT ![t].state = "queued", ![t].retries = @ + 1,
                          ![t].late = IF task[t].state = "committed" THEN @ + 1 ELSE @]
  /\ UNCHANGED <<subs, run, posts>>

\* Anything in the task's try block raises: self.retry, while max_retries allows.
\* Before the commit a query or a flush, after it the commit's own answer, the
\* closing of the session or the logging of the results.
RetryTask(t) ==
  /\ task[t].state \in {"running", "committed"} /\ task[t].retries < TaskRetries
  /\ task' = [task EXCEPT ![t].state = "queued", ![t].retries = @ + 1,
                          ![t].late = IF task[t].state = "committed" THEN @ + 1 ELSE @]
  /\ UNCHANGED <<subs, run, alerts, posts>>

\* The same with no retry left: self.retry raises and the task has failed.
GiveUp(t) ==
  /\ task[t].state \in {"running", "committed"} /\ task[t].retries = TaskRetries
  /\ task' = [task EXCEPT ![t].state = "failed"]
  /\ UNCHANGED <<subs, run, alerts, posts>>

\* The child process dies: the worker acknowledges the message all the same
\* (task_reject_on_worker_lost is left off).
ChildDies(t) ==
  /\ task[t].state \in {"running", "committed"}
  /\ task' = [task EXCEPT ![t].state = "lost"]
  /\ UNCHANGED <<subs, run, alerts, posts>>

\* The whole worker dies before the ack: the broker delivers the message again.
HostDies(t) ==
  /\ task[t].state \in {"running", "committed"}
  /\ task[t].redelivered < MaxRedeliveries
  /\ task' = [task EXCEPT ![t].state = "queued", ![t].redelivered = @ + 1]
  /\ UNCHANGED <<subs, run, alerts, posts>>

-----------------------------------------------------------------------------
\* What a healthy worker does with a message.
Advance(t) ==
  \/ Begin(t)
  \/ \E s \in Sub : AddAlert(t, s)
  \/ \E s \in Sub, ok \in BOOLEAN : PostWebhook(t, s, ok)
  \/ Commit(t)
  \/ Ack(t)

Failure(t) == RetryTask(t) \/ GiveUp(t) \/ ChildDies(t) \/ HostDies(t)

Next ==
  \/ \E s \in Sub : RegisterWebhook(s)
  \/ \E t \in Task, a \in Anomaly : Detected(t, a)
  \/ \E t \in Task, al \in alerts : RetryAlert(t, al)
  \/ \E t \in Task : Advance(t)
  \/ \E t \in Task : Failure(t)

Spec == Init /\ [][Next]_vars

\* A worker that holds a message keeps running it, and idle workers take
\* queued messages: Celery's worker loop.
FairSpec == Spec /\ \A t \in Task : WF_vars(Advance(t))

-----------------------------------------------------------------------------
\* Safety.

SameRun(x, y) == x.task = y.task /\ x.exec = y.exec

\* A committed Alert row tells the truth about the webhook: DELIVERED rows were
\* answered 2xx in that very execution, FAILED rows had every POST that
\* MAX_RETRIES allows and no 2xx, and no row is left PENDING (dispatch).
RowsMatchPosts ==
  \A al \in alerts :
    LET answered == {p \in posts : SameRun(p, al) /\ p.sub = al.sub} IN
    /\ al.status = "DELIVERED" => \E p \in answered : p.ok
    /\ al.status = "FAILED" =>
         /\ \A p \in answered : ~p.ok
         /\ \A n \in 1..(MaxRetries + 1) : \E p \in answered : p.no = n
    /\ al.status # "PENDING"

\* Within one execution a target that has answered 2xx is left alone: no later
\* POST of the backoff loop reaches it (_retry_with_backoff stops on success).
StopsOnSuccess ==
  \A p, q \in posts :
    SameRun(p, q) /\ p.sub = q.sub /\ p.ok => q.no <= p.no

\* The single commit at the end makes an execution all or nothing: if any of
\* its rows is committed, every webhook it POSTed to has its row (dispatch).
AllOrNothing ==
  \A al \in alerts : \A p \in posts :
    SameRun(p, al) => \E r \in alerts : SameRun(r, p) /\ r.sub = p.sub

\* A task that committed has a row for exactly the subscriptions that matched
\* when its execution read them.
CommittedIsComplete ==
  \A t \in Task :
    task[t].state \in {"committed", "succeeded"} =>
      run[t].matched =
        {al.sub : al \in {r \in alerts : r.task = t /\ r.exec = task[t].exec}}

\* Executions of a message that have left Alert rows.
Recorded(t) == {al.exec : al \in {r \in alerts : r.task = t}}

\* A message has the rows of more than one execution only as often as the broker
\* delivered it again or an execution failed after its commit: a failure before
\* the commit, however late in the loop of webhooks, leaves no rows behind
\* (dispatch_alerts_task retries whatever raised).
RowsRepeatOnlyAfterCommit ==
  \A t \in Task :
    Cardinality(Recorded(t)) <= 1 + task[t].late + task[t].redelivered

\* A retry does what the operator asked for: once it has succeeded, some target
\* that another message had FAILED to reach has a row of the retry, although the
\* retry names no target and matches the subscriptions anew (retry_alert).
RetryReachesFailedTarget ==
  \A t \in Task :
    task[t].origin = "operator" /\ task[t].state = "succeeded" =>
      \E failed, row \in alerts :
        /\ failed.status = "FAILED" /\ failed.task # t
        /\ task[failed.task].anomaly = task[t].anomaly
        /\ row.task = t /\ row.exec = task[t].exec /\ row.sub = failed.sub

-----------------------------------------------------------------------------
\* Liveness.

Settled(t) == task[t].state \in {"succeeded", "failed", "lost"}

\* Every submitted message is eventually settled: acknowledged after success,
\* given up after max_retries, or lost with its worker.
EveryTaskSettles ==
  \A t \in Task : task[t].state = "queued" ~> Settled(t)

=============================================================================
