------------------------------ MODULE Alerting ------------------------------
(***************************************************************************)
(* From the metrics to the webhooks: the detection of anomalies            *)
(* (AnomalyDetection) and the delivery of their alerts (AlertDispatch) as  *)
(* they run together, joined where detect_anomalies calls                  *)
(* dispatch_alerts_task.delay for the rows it has committed.               *)
(*                                                                         *)
(* AlertDispatch on its own takes it for granted that the detector submits *)
(* an anomaly once; here the detector is the real one.                     *)
(***************************************************************************)
EXTENDS AnomalyDetection

CONSTANTS
  Message,          \* broker messages of dispatch_alerts_task
  NoAnomaly, Sub, Severity, SeverityMin, TypesOf,
  MaxRetries, DispatchRetries, DispatchRedeliveries,
  MaxRequests       \* bound: POST /api/alerts/{id}/retry

VARIABLES subs, message, sending, alerts, posts   \* AlertDispatch's

Kind == {Key(src) : src \in Source}
KindOf(id) == Key(id[3])

Dispatcher == INSTANCE AlertDispatch WITH
  Task <- Message, Anomaly <- Id, Type <- Kind,
  TypeOf <- [id \in Id |-> KindOf(id)],
  SeverityOf <- [id \in Id |-> Severity[KindOf(id)]],
  TaskRetries <- DispatchRetries, MaxRedeliveries <- DispatchRedeliveries,
  task <- message, run <- sending

ASSUME DispatchAssumption ==
  Dispatcher!MatchAssumption /\ Dispatcher!BoundsAssumption

dispatcherVars == <<subs, message, sending, alerts, posts>>
allVars == <<vars, dispatcherVars>>

AlertingInit == Init /\ Dispatcher!Init

-----------------------------------------------------------------------------
\* The next broker message: which of the free ones it is makes no difference.
FreeMessages == {m \in Message : message[m].state = "free"}
NextMessage == CHOOSE m \in FreeMessages : TRUE

\* detect_anomalies submits a row: the detector's step and the broker's are one.
SubmitAlert(t, src) ==
  /\ FreeMessages # {}
  /\ SendAlert(t, src)
  /\ Dispatcher!Enqueue(NextMessage, RowOf(t, src), "detector")

\* The operator asks for a failed alert once more.
RequestRetry(al) ==
  /\ Cardinality({m \in Message : message[m].origin = "operator"}) < MaxRequests
  /\ FreeMessages # {}
  /\ Dispatcher!RetryAlert(NextMessage, al)
  /\ UNCHANGED vars

\* A detection worker and a dispatch worker that do what they should.
DetectionWorker(t) ==
  \/ Detect(t) /\ UNCHANGED dispatcherVars
  \/ \E src \in Source : SubmitAlert(t, src)

DispatchWorker(m) == Dispatcher!Advance(m) /\ UNCHANGED vars

AlertingNext ==
  \/ Environment /\ UNCHANGED dispatcherVars
  \/ \E t \in Task : DetectionWorker(t)
  \/ \E t \in Task : Failure(t) /\ UNCHANGED dispatcherVars
  \/ \E s \in Sub : Dispatcher!RegisterWebhook(s) /\ UNCHANGED vars
  \/ \E al \in alerts : RequestRetry(al)
  \/ \E m \in Message : DispatchWorker(m)
  \/ \E m \in Message : Dispatcher!Failure(m) /\ UNCHANGED vars

AlertingSpec == AlertingInit /\ [][AlertingNext]_allVars

\* Both kinds of workers keep taking and running messages.
FairAlertingSpec ==
  /\ AlertingSpec
  /\ \A t \in Task : WF_allVars(DetectionWorker(t))
  /\ \A m \in Message : WF_allVars(DispatchWorker(m))

-----------------------------------------------------------------------------
\* Safety.

\* Dispatcher!RetryReachesFailedTarget, where an operator's retry really runs
\* beside the detector's messages.
RetryReachesFailedTarget == Dispatcher!RetryReachesFailedTarget

\* Accepted POSTs to a webhook by messages of the detector that ran once.
FirstWords(s) ==
  {p \in posts : /\ p.ok /\ p.sub = s
                 /\ message[p.task].origin = "detector"
                 /\ message[p.task].exec = 1}

About(p) == message[p.task].anomaly

\* A webhook accepts word of one anomaly once, however often its detection was
\* retried or delivered again, unless a dispatch ran again or an operator asked.
\* Of one trouble (rows of a kind, open, within the dedup window) it hears at most
\* as often as there are detection workers: with one worker, once.
AlertsRepeatOnlyByOverlap ==
  \A s \in Sub :
    /\ \A p, q \in FirstWords(s) : About(p) = About(q) => p = q
    /\ \A kind \in Kind :
         Cardinality({p \in FirstWords(s) :
                        /\ About(p) \in Open /\ KindOf(About(p)) = kind
                        /\ now - anomaly[About(p)].detected <= DedupWindow})
           <= Workers

-----------------------------------------------------------------------------
\* What the dispatcher takes for granted of the detector is true: joined with
\* it, the dispatcher does nothing that it could not do on its own, where each
\* anomaly is submitted at most once.
ImplementsDispatch == Dispatcher!Spec

\* An execution that ended before it had submitted the row for dispatch.
LeftBehind(id) ==
  /\ anomaly[id].alerts = 0
  /\ \/ task[id[1]].exec > id[2]
     \/ task[id[1]].state \in {"queued", "failed", "lost"}

\* Every committed anomaly is answered in the end: a message about it is settled,
\* unless the execution that committed it failed before it had submitted it (or
\* the bound on messages is reached).
Answered(id) ==
  \/ \E m \in Message : message[m].anomaly = id /\ Dispatcher!Settled(m)
  \/ LeftBehind(id)
  \/ FreeMessages = {}

EveryAnomalyAnswered ==
  []<>(\A id \in Id : anomaly[id].state # "none" => Answered(id))
=============================================================================
