-------------------------- MODULE AnomalyDetection --------------------------
(***************************************************************************)
(* Detection for one speaker: detect_anomalies_task                        *)
(* (src/tasks/ingestion.py) and AnomalyDetector.detect_anomalies           *)
(* (src/core/detector.py), run by several Celery workers at once.          *)
(*                                                                         *)
(* An execution samples the metrics and the withdrawals, reads the open    *)
(* anomalies and drops the candidates already reported within the dedup    *)
(* window, commits the rest, and only then submits one dispatch per row.   *)
(* Other executions, the operators' resolve requests and the clock move    *)
(* between any two of these steps.                                         *)
(***************************************************************************)
EXTENDS Integers, FiniteSets

CONSTANTS
  Task,                \* broker messages of detect_anomalies_task
  Churn,               \* what the churn detectors may report: sets of them
  Workers,             \* executions the worker pool runs at a time
  CorrelatedThreshold, \* correlated_prefix_threshold
  CorrelatedWindow,    \* window_seconds of _find_correlated_failures, in ticks
  DedupWindow,         \* dedup_window_seconds, in ticks
  TaskRetries,         \* max_retries of the Celery task
  MaxRedeliveries,     \* bound: redeliveries of one message by the broker
  MaxEvents,           \* bound: withdrawals in the route_events table
  MaxTime              \* bound: the clock

ASSUME BoundsAssumption ==
  /\ Churn \subseteq SUBSET {"z_score", "isolation_forest"}
  /\ Workers \in Nat \ {0}
  /\ CorrelatedThreshold \in Nat /\ CorrelatedWindow \in Nat /\ DedupWindow \in Nat
  /\ TaskRetries \in Nat /\ MaxRedeliveries \in Nat
  /\ MaxEvents \in Nat /\ MaxTime \in Nat

VARIABLES
  now,       \* the clock
  events,    \* WITHDRAW rows of route_events
  anomaly,   \* the anomalies table, by the execution and model of each row
  task,      \* the broker's and the workers' view of each message
  run        \* locals of the latest execution of each task

vars == <<now, events, anomaly, task, run>>

Time == 0..MaxTime
MaxExec == 1 + TaskRetries + MaxRedeliveries

\* The three detectors, in the order of all_candidates.  Z-score and isolation
\* forest both report UNUSUAL_CHURN, for the prefix of the current point.
Source == {"z_score", "isolation_forest", "correlation"}
Key(src) == IF src = "correlation" THEN "CORRELATED_FAILURE" ELSE "UNUSUAL_CHURN"
Precedes(c, d) == <<c, d>> \in {<<"z_score", "isolation_forest">>,
                                <<"z_score", "correlation">>,
                                <<"isolation_forest", "correlation">>}

\* An execution adds at most one row per detector.
Id == Task \X (0..MaxExec) \X Source

Row == [state : {"none", "open", "resolved"},
        detected : Time,                \* detected_at
        alerts : Nat]                   \* dispatches submitted for it

TaskRecord == [state : {"free", "queued", "sampled", "checked", "committed",
                        "done", "failed", "lost"},
               retries : 0..TaskRetries,
               redelivered : 0..MaxRedeliveries,
               exec : 0..MaxExec]

\* work: the candidates, then the new ones among them, then the rows not yet
\* submitted for dispatch.
RunRecord == [now : Time, work : SUBSET Source]

TypeOK ==
  /\ now \in Time
  /\ events \subseteq [no : 1..MaxEvents, timestamp : Time]
  /\ anomaly \in [Id -> Row]
  /\ task \in [Task -> TaskRecord]
  /\ run \in [Task -> RunRecord]

-----------------------------------------------------------------------------
RowOf(t, src) == <<t, task[t].exec, src>>
Open == {id \in Id : anomaly[id].state = "open"}
Running(t) == task[t].state \in {"sampled", "checked", "committed"}

\* Withdrawals within window_seconds of ts.
Withdrawals(ts) ==
  {e \in events : /\ e.timestamp >= ts - CorrelatedWindow
                  /\ e.timestamp <= ts + CorrelatedWindow}

\* _find_correlated_failures: enough withdrawal rows, whatever their prefixes.
Correlated(ts) == Cardinality(Withdrawals(ts)) >= CorrelatedThreshold

\* Mutant: a row exactly as old as the window no longer counts.
RecentKeys_Strict ==
  {Key(id[3]) : id \in {i \in Open : now - anomaly[i].detected < DedupWindow}}

\* Keys of the unresolved anomalies detected within the dedup window.
RecentKeys ==
  {Key(id[3]) : id \in {i \in Open : now - anomaly[i].detected <= DedupWindow}}

\* Mutant: only the candidates are compared with each other.
Deduplicate_WithinRun(candidates) ==
  {c \in candidates : \A d \in candidates : Precedes(d, c) => Key(d) # Key(c)}

\* _deduplicate: drop what is open and recent, and all but the first candidate
\* of a key.
Deduplicate(candidates) ==
  {c \in candidates : /\ Key(c) \notin RecentKeys
                      /\ \A d \in candidates : Precedes(d, c) => Key(d) # Key(c)}

NoRow == [state |-> "none", detected |-> 0, alerts |-> 0]
FreeTask == [state |-> "free", retries |-> 0, redelivered |-> 0, exec |-> 0]
NoRun == [now |-> 0, work |-> {}]

Init ==
  /\ now = 0
  /\ events = {}
  /\ anomaly = [id \in Id |-> NoRow]
  /\ task = [t \in Task |-> FreeTask]
  /\ run = [t \in Task |-> NoRun]

-----------------------------------------------------------------------------
\* The environment.

Tick ==
  /\ now < MaxTime
  /\ now' = now + 1
  /\ UNCHANGED <<events, anomaly, task, run>>

\* An ingest commits a WITHDRAW row.
Withdraw ==
  /\ Cardinality(events) < MaxEvents
  /\ events' = events \cup {[no |-> Cardinality(events) + 1, timestamp |-> now]}
  /\ UNCHANGED <<now, anomaly, task, run>>

\* detect_anomalies_task.delay(speaker) at the end of an ingest.
Submit(t) ==
  /\ task[t].state = "free"
  /\ task' = [task EXCEPT ![t].state = "queued"]
  /\ UNCHANGED <<now, events, anomaly, run>>

\* PATCH /api/anomalies/{id}/resolve.
Resolve(id) ==
  /\ anomaly[id].state # "none"
  /\ anomaly' = [anomaly EXCEPT ![id].state = "resolved"]
  /\ UNCHANGED <<now, events, task, run>>

-----------------------------------------------------------------------------
\* One execution.

FreeWorker == Cardinality({t \in Task : Running(t)}) < Workers

\* A worker takes the message and finds no history: nothing to compare with.
NoHistory(t) ==
  /\ task[t].state = "queued" /\ FreeWorker
  /\ task' = [task EXCEPT ![t].state = "done", ![t].exec = @ + 1]
  /\ UNCHANGED <<now, events, anomaly, run>>

\* A worker takes the message: churn is what the metrics made the z-score and
\* the isolation forest report, the rest is read from route_events.
Sample(t, churn) ==
  /\ task[t].state = "queued" /\ FreeWorker
  /\ task' = [task EXCEPT ![t].state = "sampled", ![t].exec = @ + 1]
  /\ run' = [run EXCEPT ![t] =
       [now |-> now,
        work |-> churn \cup (IF Correlated(now) THEN {"correlation"} ELSE {})]]
  /\ UNCHANGED <<now, events, anomaly>>

\* The open anomalies are read and the candidates deduplicated, by the clock of
\* this moment and not by the sample's.
Check(t) ==
  /\ task[t].state = "sampled"
  /\ task' = [task EXCEPT ![t].state = "checked"]
  /\ run' = [run EXCEPT ![t].work = Deduplicate(@)]
  /\ UNCHANGED <<now, events, anomaly>>

\* The rows are flushed and committed in one transaction.
CommitRows(t) ==
  /\ task[t].state = "checked"
  /\ task' = [task EXCEPT ![t].state = "committed"]
  /\ anomaly' = [id \in Id |->
       IF \E src \in run[t].work : id = RowOf(t, src)
       THEN [state |-> "open", detected |-> run[t].now, alerts |-> 0]
       ELSE anomaly[id]]
  /\ UNCHANGED <<now, events, run>>

\* Mutant: the loop does not advance past the row it has sent.
SendAlert_Again(t, src) ==
  /\ task[t].state = "committed" /\ src \in run[t].work
  /\ anomaly[RowOf(t, src)].alerts < 2
  /\ anomaly' = [anomaly EXCEPT ![RowOf(t, src)].alerts = @ + 1]
  /\ UNCHANGED <<now, events, task, run>>

\* Mutant: the alerts are submitted before the rows are committed.
SendAlert_BeforeCommit(t, src) ==
  /\ task[t].state = "checked" /\ src \in run[t].work
  /\ anomaly[RowOf(t, src)].alerts = 0
  /\ anomaly' = [anomaly EXCEPT ![RowOf(t, src)].alerts = @ + 1]
  /\ UNCHANGED <<now, events, task, run>>

\* dispatch_alerts_task.delay(record.id), one row after the other.
SendAlert(t, src) ==
  /\ task[t].state = "committed" /\ src \in run[t].work
  /\ \A other \in run[t].work : ~Precedes(other, src)
  /\ anomaly' = [anomaly EXCEPT ![RowOf(t, src)].alerts = @ + 1]
  /\ run' = [run EXCEPT ![t].work = @ \ {src}]
  /\ UNCHANGED <<now, events, task>>

\* The locals go with the execution.
EndRun(t) == run' = [run EXCEPT ![t] = NoRun]

\* Mutant: the task returns after its commit.
Finish_BeforeAlerts(t) ==
  /\ task[t].state = "committed"
  /\ task' = [task EXCEPT ![t].state = "done"]
  /\ EndRun(t)
  /\ UNCHANGED <<now, events, anomaly>>

\* The task returns and its message is acknowledged.
Finish(t) ==
  /\ task[t].state = "committed" /\ run[t].work = {}
  /\ task' = [task EXCEPT ![t].state = "done"]
  /\ EndRun(t)
  /\ UNCHANGED <<now, events, anomaly>>

-----------------------------------------------------------------------------
\* Failures.

\* Mutant: the retries are not limited.
RetryTask_Unlimited(t) ==
  /\ Running(t)
  /\ task' = [task EXCEPT ![t].state = "queued", ![t].retries = @ + 1]
  /\ EndRun(t)
  /\ UNCHANGED <<now, events, anomaly>>

\* InfluxDB, PostgreSQL or the broker raises: rollback of what is not committed,
\* and the task starts over.
RetryTask(t) ==
  /\ Running(t) /\ task[t].retries < TaskRetries
  /\ task' = [task EXCEPT ![t].state = "queued", ![t].retries = @ + 1]
  /\ EndRun(t)
  /\ UNCHANGED <<now, events, anomaly>>

GiveUp(t) ==
  /\ Running(t) /\ task[t].retries = TaskRetries
  /\ task' = [task EXCEPT ![t].state = "failed"]
  /\ EndRun(t)
  /\ UNCHANGED <<now, events, anomaly>>

\* The child process dies and its message is acknowledged.
ChildDies(t) ==
  /\ Running(t)
  /\ task' = [task EXCEPT ![t].state = "lost"]
  /\ EndRun(t)
  /\ UNCHANGED <<now, events, anomaly>>

\* The worker's host dies and the broker delivers the message again.
HostDies(t) ==
  /\ Running(t) /\ task[t].redelivered < MaxRedeliveries
  /\ task' = [task EXCEPT ![t].state = "queued", ![t].redelivered = @ + 1]
  /\ EndRun(t)
  /\ UNCHANGED <<now, events, anomaly>>

-----------------------------------------------------------------------------
\* What a healthy worker does with a message, the alerts apart.
Detect(t) ==
  \/ NoHistory(t)
  \/ \E churn \in Churn : Sample(t, churn)
  \/ Check(t)
  \/ CommitRows(t)
  \/ Finish(t)

Advance(t) == Detect(t) \/ \E src \in Source : SendAlert(t, src)

Environment ==
  \/ Tick
  \/ Withdraw
  \/ \E t \in Task : Submit(t)
  \/ \E id \in Id : Resolve(id)

Failure(t) == RetryTask(t) \/ GiveUp(t) \/ ChildDies(t) \/ HostDies(t)

Next ==
  \/ Environment
  \/ \E t \in Task : Advance(t)
  \/ \E t \in Task : Failure(t)

Spec == Init /\ [][Next]_vars

-----------------------------------------------------------------------------
\* Safety.

\* Operators are told of one trouble at most as often as there are workers: the
\* open rows of a key whose dedup window is not over were all added by executions
\* that had looked for duplicates before any of the others committed, and so ran
\* at the same time, whatever was retried, delivered again or resolved meanwhile.
\* With one worker there are no duplicates (_deduplicate).
DuplicatesOnlyByOverlap ==
  \A key \in {Key(src) : src \in Source} :
    Cardinality({id \in Open : /\ Key(id[3]) = key
                               /\ now - anomaly[id].detected <= DedupWindow})
      <= Workers

\* Each committed row is submitted for dispatch exactly once, after its commit,
\* however often the task is retried or delivered again: none twice, none before
\* it is there, and none missed but by an execution that failed or is still at it.
OneAlertPerRow ==
  \A t \in Task : \A e \in 0..MaxExec : \A src \in Source :
    LET row == anomaly[<<t, e, src>>] IN
    \/ row.state # "none" /\ row.alerts = 1
    \/ row.alerts = 0 /\ \/ row.state = "none"
                         \/ e < task[t].exec
                         \/ task[t].state \in {"queued", "failed", "lost"}
                         \/ task[t].state = "committed" /\ src \in run[t].work
=============================================================================
