------------------------------ MODULE Ingestion ------------------------------
(***************************************************************************)
(* Ingestion of BMP messages: parse_bmp_message_task, ingest_metrics_task  *)
(* and _resolve_speaker (src/tasks/ingestion.py).                          *)
(*                                                                         *)
(* The parse task runs ingest_metrics_task eagerly inside itself (.apply): *)
(* the ingest's own retries run one inside the other at once, and its      *)
(* final failure ends in an EagerResult nobody reads, so the parse task    *)
(* succeeds all the same.  One attempt reads the clock, commits its        *)
(* RouteEvents, writes the InfluxDB point and submits the detection: a     *)
(* failure between two of these is retried from the start.                 *)
(*                                                                         *)
(* Messages are numbered as their router sent them, and several workers    *)
(* take them from the broker's queue.                                      *)
(***************************************************************************)
EXTENDS Integers, Sequences, FiniteSets

CONSTANTS
  Stream,           \* what the router may send first, second, ...
  Message,          \* BMP messages they may carry
  NoMessage,        \* what a message not yet submitted carries
  Speaker,          \* BGPSpeaker rows that may be registered
  Registered,       \* the rows registered at the start
  Prefix,
  Valid,            \* message -> does BMPParser accept it
  Nlri,             \* message -> advertised prefixes
  Withdrawn,        \* message -> withdrawn prefixes
  AsnFits,          \* message -> is its peer ASN below 2^31
  AsnMatches,       \* message -> speakers whose local_asn is its peer ASN
  AddressMatches,   \* message -> speakers whose address contains the peer's
  Workers,          \* executions the worker pool runs at a time
  TaskRetries,      \* max_retries of parse_bmp_message_task
  IngestRetries,    \* max_retries of ingest_metrics_task
  MaxRedeliveries,  \* bound: redeliveries of one message by the broker
  MaxFailures,      \* bound: failures of stores, children and hosts
  MaxTime           \* bound: the workers' clock

ASSUME MessageAssumption ==
  /\ NoMessage \notin Message
  /\ Stream \in Seq(SUBSET Message)
  /\ Registered \subseteq Speaker
  /\ Valid \in [Message -> BOOLEAN]
  /\ Nlri \in [Message -> SUBSET Prefix]
  /\ Withdrawn \in [Message -> SUBSET Prefix]
  /\ AsnFits \in [Message -> BOOLEAN]
  /\ AsnMatches \in [Message -> SUBSET Speaker]
  /\ AddressMatches \in [Message -> SUBSET Speaker]

ASSUME BoundsAssumption ==
  /\ MaxFailures \in Nat /\ Workers \in Nat \ {0} /\ MaxTime \in Nat
  /\ TaskRetries \in Nat /\ IngestRetries \in Nat /\ MaxRedeliveries \in Nat

VARIABLES
  now,         \* the workers' clock
  failures,    \* failures so far
  queue,       \* the broker's list, next message first
  speakers,    \* registered BGPSpeaker rows
  task,        \* the broker's and the workers' view of each parse message
  events,      \* route_events rows
  points,      \* attempts whose InfluxDB point was written
  detections   \* detect_anomalies_task submissions, by attempt

vars == <<now, failures, queue, speakers, task, events, points, detections>>

\* Broker messages of parse_bmp_message_task, in the order they are sent.
Task == DOMAIN Stream

MaxExec == 1 + TaskRetries + MaxRedeliveries

\* One run of the body of ingest_metrics_task.
Attempt == [task : Task, exec : 1..MaxExec, no : 1..(IngestRetries + 1)]

EventRow == [attempt : Attempt, type : {"UPDATE", "WITHDRAW"}, prefix : Prefix,
             speaker : Speaker, timestamp : 0..MaxTime]

\* A message is in the queue or delayed by a worker until its retry is due.  An
\* ingest attempt is parsed (about to begin), stamped (the clock is read), stored
\* (events committed) or written (InfluxDB point written).
TaskRecord == [state : {"free", "queued", "delayed", "parsed", "stamped", "stored",
                        "written", "returned", "done", "failed", "lost"},
               message : Message \cup {NoMessage},
               retries : 0..TaskRetries,
               redelivered : 0..MaxRedeliveries,
               exec : 0..MaxExec,
               attempt : 0..(IngestRetries + 1),
               ts : 0..MaxTime,              \* the clock as this attempt read it
               speaker : SUBSET Speaker]     \* resolved by this attempt

TypeOK ==
  /\ now \in 0..MaxTime
  /\ failures \in 0..MaxFailures
  /\ queue \in Seq(Task)
  /\ \A t \in Task :
       task[t].state = "queued" <=> Cardinality({i \in DOMAIN queue : queue[i] = t}) = 1
  /\ speakers \subseteq Speaker
  /\ task \in [Task -> TaskRecord]
  /\ events \subseteq EventRow
  /\ points \subseteq Attempt
  /\ detections \subseteq [attempt : Attempt, speaker : Speaker]

-----------------------------------------------------------------------------
Ingesting(t) == task[t].state \in {"parsed", "stamped", "stored", "written"}
Running(t) == Ingesting(t) \/ task[t].state = "returned"
FreeWorker == Cardinality({t \in Task : Running(t)}) < Workers

ThisAttempt(t) == [task |-> t, exec |-> task[t].exec, no |-> task[t].attempt]

\* Mutant: a speaker matched by ASN does not win over one matched by address.
Resolved_AnyMatch(t) ==
  LET m == task[t].message
      matches == (AsnMatches[m] \cup AddressMatches[m]) \cap speakers
  IN  IF matches # {} THEN matches ELSE speakers

\* _resolve_speaker: by ASN, else by address, else whichever comes first.
Resolved(t) ==
  LET m == task[t].message
      byAsn == AsnMatches[m] \cap speakers
      byAddress == AddressMatches[m] \cap speakers
  IN  IF byAsn # {} THEN byAsn
      ELSE IF byAddress # {} THEN byAddress ELSE speakers

\* The rows an attempt adds for speaker s, all with the time it began.
Rows(t, s) ==
  LET row(type, p) == [attempt |-> ThisAttempt(t), type |-> type, prefix |-> p,
                       speaker |-> s, timestamp |-> task[t].ts]
  IN  {row("UPDATE", p) : p \in Nlri[task[t].message]}
        \cup {row("WITHDRAW", p) : p \in Withdrawn[task[t].message]}

HasRows(m) == Nlri[m] \cup Withdrawn[m] # {}

FreeTask == [state |-> "free", message |-> NoMessage, retries |-> 0, redelivered |-> 0,
             exec |-> 0, attempt |-> 0, ts |-> 0, speaker |-> {}]

Init ==
  /\ now = 0
  /\ failures = 0
  /\ queue = <<>>
  /\ speakers = Registered
  /\ task = [t \in Task |-> FreeTask]
  /\ events = {}
  /\ points = {}
  /\ detections = {}

-----------------------------------------------------------------------------
\* register_speaker of the API.
RegisterSpeaker(s) ==
  /\ s \notin speakers
  /\ speakers' = speakers \cup {s}
  /\ UNCHANGED <<now, failures, queue, task, events, points, detections>>

\* The BMP server or POST /api/telemetry/bmp/ingest queues the next message.
Submit(t, m) ==
  /\ task[t].state = "free" /\ \A u \in Task : u < t => task[u].state # "free"
  /\ queue' = Append(queue, t)
  /\ task' = [task EXCEPT ![t].state = "queued", ![t].message = m]
  /\ UNCHANGED <<now, failures, speakers, events, points, detections>>

\* A worker takes the first message of the queue, or one whose retry is due.
Take(t) ==
  /\ FreeWorker
  /\ \/ queue # <<>> /\ t = Head(queue) /\ queue' = Tail(queue)
     \/ task[t].state = "delayed" /\ UNCHANGED queue

\* The message parses and the first ingest attempt begins.
Parse(t) ==
  /\ Take(t) /\ Valid[task[t].message]
  /\ task' = [task EXCEPT ![t].state = "parsed", ![t].exec = @ + 1,
                          ![t].attempt = 1]
  /\ UNCHANGED <<now, failures, speakers, events, points, detections>>

\* Mutant: a message that never parses is put back without counting.
ParseFails_Uncounted(t) ==
  /\ Take(t) /\ ~Valid[task[t].message]
  /\ task' = [task EXCEPT ![t].state = "delayed"]
  /\ UNCHANGED <<now, failures, speakers, events, points, detections>>

\* BMPParser raises: self.retry, until max_retries is reached.
ParseFails(t) ==
  /\ Take(t) /\ ~Valid[task[t].message]
  /\ task' = [task EXCEPT
       ![t].state = IF task[t].retries < TaskRetries THEN "delayed" ELSE "failed",
       ![t].retries = IF @ < TaskRetries THEN @ + 1 ELSE @,
       ![t].exec = @ + 1]
  /\ UNCHANGED <<now, failures, speakers, events, points, detections>>

\* An attempt reads the clock, which may have moved on.
Stamp(t) ==
  /\ task[t].state = "parsed"
  /\ now' \in now..MaxTime
  /\ task' = [task EXCEPT ![t].state = "stamped", ![t].ts = now']
  /\ UNCHANGED <<failures, queue, speakers, events, points, detections>>

\* No speaker is registered: the attempt returns with nothing done.
NoSpeaker(t) ==
  /\ task[t].state = "stamped" /\ Resolved(t) = {}
  /\ task' = [task EXCEPT ![t].state = "returned"]
  /\ UNCHANGED <<now, failures, queue, speakers, events, points, detections>>

\* Mutant: a commit for each row of the loop.
StoreEvents_OneByOne(t) ==
  /\ task[t].state = "stamped"
  /\ AsnFits[task[t].message] \/ ~HasRows(task[t].message)
  /\ \E s \in Resolved(t) :
       \/ /\ Rows(t, s) \subseteq events
          /\ task' = [task EXCEPT ![t].state = "stored", ![t].speaker = {s}]
          /\ UNCHANGED events
       \/ /\ \E row \in Rows(t, s) \ events : events' = events \cup {row}
          /\ UNCHANGED task
  /\ UNCHANGED <<now, failures, queue, speakers, points, detections>>

\* The speaker is resolved and one RouteEvent per prefix is committed, unless the
\* neighbor_asn of the rows is no 32-bit integer.
StoreEvents(t) ==
  /\ task[t].state = "stamped"
  /\ AsnFits[task[t].message] \/ ~HasRows(task[t].message)
  /\ \E s \in Resolved(t) :
       /\ events' = events \cup Rows(t, s)
       /\ task' = [task EXCEPT ![t].state = "stored", ![t].speaker = {s}]
  /\ UNCHANGED <<now, failures, queue, speakers, points, detections>>

\* Mutant: the point is written for every message.
WritePoint_Always(t) ==
  /\ task[t].state = "stored"
  /\ points' = points \cup {ThisAttempt(t)}
  /\ task' = [task EXCEPT ![t].state = "written"]
  /\ UNCHANGED <<now, failures, queue, speakers, events, detections>>

\* The metrics point, if the attempt created any event.
WritePoint(t) ==
  /\ task[t].state = "stored"
  /\ points' = IF HasRows(task[t].message) THEN points \cup {ThisAttempt(t)} ELSE points
  /\ task' = [task EXCEPT ![t].state = "written"]
  /\ UNCHANGED <<now, failures, queue, speakers, events, detections>>

\* detect_anomalies_task.delay(speaker), then the attempt returns.
SubmitDetection(t) ==
  /\ task[t].state = "written"
  /\ \E s \in task[t].speaker :
       detections' = detections \cup {[attempt |-> ThisAttempt(t), speaker |-> s]}
  /\ task' = [task EXCEPT ![t].state = "returned", ![t].speaker = {}]
  /\ UNCHANGED <<now, failures, queue, speakers, events, points>>

\* Something breaks.
Failure ==
  /\ failures < MaxFailures
  /\ failures' = failures + 1

\* Mutant: an attempt too many.
AttemptFails_OneTooMany(t) ==
  task' = [task EXCEPT
    ![t].state = IF task[t].attempt <= IngestRetries + 1 THEN "parsed" ELSE "returned",
    ![t].attempt = IF @ <= IngestRetries + 1 THEN @ + 1 ELSE @,
    ![t].speaker = {}]

\* Mutant: apply propagates the ingest's final failure to the parse task.
AttemptFails_Propagates(t) ==
  task' = [task EXCEPT
    ![t].state = IF task[t].attempt <= IngestRetries THEN "parsed"
                 ELSE IF task[t].retries < TaskRetries THEN "delayed" ELSE "failed",
    ![t].attempt = IF @ <= IngestRetries THEN @ + 1 ELSE @,
    ![t].retries = IF task[t].attempt > IngestRetries /\ @ < TaskRetries
                   THEN @ + 1 ELSE @,
    ![t].speaker = {}]

\* Rollback of what is not committed, and either another attempt at once or,
\* after the last, a failed EagerResult that the parse task does not look at.
AttemptFails(t) ==
  task' = [task EXCEPT
    ![t].state = IF task[t].attempt <= IngestRetries THEN "parsed" ELSE "returned",
    ![t].attempt = IF @ <= IngestRetries THEN @ + 1 ELSE @,
    ![t].speaker = {}]

\* PostgreSQL refuses the rows of a peer whose ASN is no 32-bit signed integer.
RowsRefused(t) ==
  /\ task[t].state = "stamped" /\ Resolved(t) # {}
  /\ HasRows(task[t].message) /\ ~AsnFits[task[t].message]
  /\ AttemptFails(t)
  /\ UNCHANGED <<now, failures, queue, speakers, events, points, detections>>

\* PostgreSQL, InfluxDB or the broker raises in the attempt.
IngestFails(t) ==
  /\ Ingesting(t) /\ Failure
  /\ AttemptFails(t)
  /\ UNCHANGED <<now, queue, speakers, events, points, detections>>

\* The parse task returns and its message is acknowledged.
Ack(t) ==
  /\ task[t].state = "returned"
  /\ task' = [task EXCEPT ![t].state = "done"]
  /\ UNCHANGED <<now, failures, queue, speakers, events, points, detections>>

\* The child process dies and its message is acknowledged.
ChildDies(t) ==
  /\ Running(t) /\ Failure
  /\ task' = [task EXCEPT ![t].state = "lost", ![t].speaker = {}]
  /\ UNCHANGED <<now, queue, speakers, events, points, detections>>

\* The worker's host dies and the broker delivers the message again, first.
HostDies(t) ==
  /\ Running(t) \/ task[t].state = "delayed"
  /\ task[t].redelivered < MaxRedeliveries /\ Failure
  /\ queue' = <<t>> \o queue
  /\ task' = [task EXCEPT ![t].state = "queued", ![t].redelivered = @ + 1,
                          ![t].speaker = {}]
  /\ UNCHANGED <<now, speakers, events, points, detections>>

\* Redis is at its maxmemory and evicts the queue (allkeys-lru).
QueueEvicted ==
  /\ queue # <<>>
  /\ queue' = <<>>
  /\ task' = [t \in Task |-> IF task[t].state = "queued"
                             THEN [task[t] EXCEPT !.state = "lost"] ELSE task[t]]
  /\ UNCHANGED <<now, failures, speakers, events, points, detections>>

-----------------------------------------------------------------------------
\* What a healthy worker does with a message.
Advance(t) ==
  \/ Parse(t)
  \/ ParseFails(t)
  \/ Stamp(t)
  \/ NoSpeaker(t)
  \/ StoreEvents(t)
  \/ RowsRefused(t)
  \/ WritePoint(t)
  \/ SubmitDetection(t)
  \/ Ack(t)

Next ==
  \/ \E s \in Speaker : RegisterSpeaker(s)
  \/ \E t \in Task : \E m \in Stream[t] : Submit(t, m)
  \/ \E t \in Task : Advance(t)
  \/ \E t \in Task : IngestFails(t)
  \/ \E t \in Task : ChildDies(t)
  \/ \E t \in Task : HostDies(t)
  \/ QueueEvicted

Spec == Init /\ [][Next]_vars

\* Celery's worker loop keeps taking and running messages.
FairSpec == Spec /\ \A t \in Task : WF_vars(Advance(t))

-----------------------------------------------------------------------------
\* Safety.

\* A detection is submitted only for data that is there: every row of its
\* attempt is committed under the speaker it examines, and its point is written
\* exactly when there is a row.
DetectionSeesData ==
  \A d \in detections :
    LET m == task[d.attempt.task].message
        rows == {e \in events : e.attempt = d.attempt /\ e.speaker = d.speaker}
    IN  /\ \A p \in Nlri[m] : \E e \in rows : e.type = "UPDATE" /\ e.prefix = p
        /\ \A p \in Withdrawn[m] : \E e \in rows : e.type = "WITHDRAW" /\ e.prefix = p
        /\ d.attempt \in points <=> rows # {}

\* A route change is stored twice only because an attempt failed and was made
\* again within its execution, or because the message was delivered again.
RowsRepeatOnlyByFailure ==
  \A e, f \in events :
    e.attempt.task = f.attempt.task /\ e.attempt # f.attempt =>
      \/ e.attempt.exec = f.attempt.exec
      \/ task[e.attempt.task].redelivered > 0

\* How well a speaker matches the peer of a message.
Match(m, s) == IF s \in AsnMatches[m] THEN 2 ELSE IF s \in AddressMatches[m] THEN 1 ELSE 0

Earlier(a, b) == a.exec < b.exec \/ (a.exec = b.exec /\ a.no < b.no)

\* When a message is stored again, its rows never go to a speaker that matches
\* the peer worse than before, although speakers are registered in between.
AttributionNeverDegrades ==
  \A e, f \in events :
    e.attempt.task = f.attempt.task /\ Earlier(e.attempt, f.attempt) =>
      LET m == task[e.attempt.task].message
      IN  Match(m, e.speaker) <= Match(m, f.speaker)

-----------------------------------------------------------------------------
\* Liveness.

\* Every submitted message ends: done, failed or lost with its worker.
EveryMessageSettles ==
  \A t \in Task :
    task[t].state = "queued" ~> task[t].state \in {"done", "failed", "lost"}

-----------------------------------------------------------------------------
\* The route log that ingestion keeps (RouteLog).

Settled(t) == task[t].state \in {"done", "failed", "lost"}

Log == INSTANCE RouteLog WITH
  Change <- [m \in Message |-> ({"UPDATE"} \X Nlri[m]) \cup ({"WITHDRAW"} \X Withdrawn[m])],
  carries <- [t \in Task |-> task[t].message],
  closed <- {t \in Task : Settled(t)},
  log <- {[task |-> e.attempt.task, copy |-> <<e.attempt.exec, e.attempt.no>>,
           change |-> <<e.type, e.prefix>>, speaker |-> e.speaker,
           timestamp |-> e.timestamp] : e \in events}

\* Ingestion keeps a route log as RouteLog says.
KeepsRouteLog == Log!Spec

-----------------------------------------------------------------------------
\* What the documents say and the code does not do.

\* timestamp is "UTC, from BMP message": of two messages of one router, the rows
\* of the one sent first are not dated after those of the other.
DatedAsSent ==
  \A e, f \in events :
    e.attempt.task < f.attempt.task => e.timestamp <= f.timestamp
=============================================================================
