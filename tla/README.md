# RouteMonitor, specified and checked

RouteMonitor collects BGP route changes from routers (BMP over TCP), logs them,
looks for anomalies in them and alerts subscribers. This directory holds TLA+
models of the parts of it that can go wrong when things happen in an unexpected
order, the TLC runs that check them on small instances, and proofs of their
safety properties and refinements for instances of every size. All source paths
are relative to `src/`.

## 1. The system

| Part | State it keeps | Operations | Talks to |
| --- | --- | --- | --- |
| BMP server, `api/bmp_server.py`, started by every API process | who holds the port, one asyncio task per router connection, the table `_connections` by router address, `bgp_speakers.status` | bind, accept, read a message and queue it, end of stream, give up on an error, end with the process | routers; PostgreSQL; queues `parse_bmp_message_task` |
| Parser, `core/bmp_parser.py` | none, a function of the octets | `parse_message`, `parsed_message_to_dict` | called by the parse task |
| Ingestion, `tasks/ingestion.py` 20-148 | the queue's messages, `route_events`, the `route_stats` measurement | parse, resolve the speaker, commit events, write the point, submit the detection, retry | parser; PostgreSQL; InfluxDB; queues `detect_anomalies_task` |
| Anomaly detection, `core/detector.py`, task at `tasks/ingestion.py:225` | `anomalies` | sample metrics and withdrawals, deduplicate, commit, submit one dispatch per row, retry | InfluxDB; PostgreSQL; queues `dispatch_alerts_task` |
| Alert dispatch, `core/dispatcher.py`, task at `tasks/ingestion.py:272` | `alerts`, `webhook_subscriptions` | match subscriptions, POST with backoff, commit, retry; operator's retry | webhooks; PostgreSQL |
| Rollup, `tasks/ingestion.py:151` | `route_stats` | query five minutes, sum, write back | InfluxDB; sent by Celery beat |
| Rate limiter, `api/middleware.py:108` | one Redis sorted set per client and path | prune, count, add, expire | Redis; every API process |
| REST API, `api/routes/` | half-done requests of several processes, each with the row it has loaded | register speakers and webhooks, ingest, resolve, acknowledge, retry, queries | PostgreSQL; InfluxDB; Celery |
| Authentication, `api/auth.py` | none, a token carries its role and expiry | issue and verify tokens | called by the routes |
| Dashboard, `dashboard/` | one cached client and its token, shared by all sessions; what each page shows | read-only views, acknowledge | REST API |
| Celery application, `tasks/celery_app.py` | broker settings, beat schedule | | Redis |

The pipeline is: router -> BMP server -> (queue) parse and ingest -> (queue)
detect -> (queue) dispatch -> webhook. Every arrow marked as a queue is a Celery
message with `task_acks_late`: acknowledged only after the task returned, so the
broker delivers it again when the worker's host is lost, and acknowledged all the
same when only the child process that ran it is lost. Between the stages only
the rows committed in PostgreSQL and the points in InfluxDB are shared.

### What is hard here

* Each stage commits to one store and then calls another one, so that a failure
  in between is retried against what the first attempt left behind
  (`tasks/ingestion.py:118`, `core/detector.py:79`, `core/dispatcher.py:75`).
* Retries nest: the ingest task runs eagerly inside the parse task and retries
  there, and nobody reads its result (`tasks/ingestion.py:55`).
* State is keyed by something that is shared: BMP handlers by router address
  (`api/bmp_server.py:145`), rate limit windows by path, one API client for all
  sessions of the dashboard (`dashboard/utils/session.py`).
* Several processes do what only one can: four of them bind the BMP port
  (`api/main.py:91`), two load a row and write it back (`api/routes/anomalies.py:121`,
  `api/routes/telemetry.py:59`), two detect for one speaker (`core/detector.py:60`).
* Something is read in one step and acted upon in a later one: the detector's open
  anomalies, its two InfluxDB queries, the limiter's clock.
* Windows have edges: the dedup window, the limiter's window, the range of a
  Flux query, each with its own kind of bound.
* A parser must stay within what a router really sent.

`PROJECT.json` lists these hazards line by line with the properties that answer them.

### What makes each part correct

* **Dispatch**: a committed row tells the truth about the POSTs of its execution;
  an execution commits all its rows or none; a target that accepted is left alone
  by the backoff loop; a message leaves rows of another execution only if it was delivered
  again or failed after its commit; every message ends.
* **Detection**: a trouble has several open rows only if executions overlapped, and
  then no more than there are workers; a committed row is alerted once, and missed only
  through a failure.
* **End to end**: an alert is about a committed row; a webhook hears of one row once
  unless a dispatch ran again or an operator asked, and of one trouble no more often than
  there are workers; every anomaly is answered.
* **Flap score**: how many points does it take to alarm at all, which points can be judged against a
  baseline they are not part of, and what can alarm about a steady router.
* **Ingestion**: a detection never starts before its data is there; a route
  change is stored twice only through a failure; attribution never gets worse; the
  log only grows, by whole messages (`RouteLog`).
* **BMP server**: the queued messages of a connection have no gaps; the table holds
  only living handlers; a status is wrong only after a failure; the port is held by
  somebody unless a process was killed; closing is noticed.
* **REST API and dashboard**: name and time of an acknowledgement belong together; of
  concurrent registrations one wins, and no other is told that it did; a page never claims
  what was not committed, nor takes an anomaly from somebody whose acknowledgement it could have
  seen.
* **Rate limiter**: forgetting old requests makes no difference to any decision.
* **Parser**: what is written is read; what is read was written, if nothing stands behind it.
* **Rollup**: which points successive sums leave out or count twice, so that it is known
  what a sum is a sum of.

## 2. The modules

`AlertDispatch`. Variables: `subs` (webhook_subscriptions), `task` (the broker's and
worker's view of each message), `run` (the locals of its latest execution),
`alerts` (committed rows), `posts` (a history of every POST and its answer). Actions:
`RegisterWebhook`; `Detected` and `RetryAlert` queue messages; `Begin` reads the
matching subscriptions; `AddAlert`, `PostWebhook`, `Commit` are the loop of
`AlertDispatcher.dispatch`, with `_send_webhook` and `_retry_with_backoff` as one
POST a step; `Ack`, `RetryTask`, `GiveUp`, `ChildDies`, `HostDies` are Celery's. An
execution may fail up to its end, also after its commit (the session's close, the loop over
the results, a commit whose acknowledgement is lost: `tasks/ingestion.py:313-334` retries all
of these); `late` counts the retries that followed a commit. The
rows an execution has flushed but not committed live in `run` and vanish with
it, as they do with the session.

`AnomalyDetection`. One speaker. Variables: `now`, `events` (WITHDRAW rows), `anomaly`
(rows by message, execution and detector), `task`, `run`. `Sample` reads the metrics
and `route_events`; `Check` reads the open anomalies and applies `_deduplicate`;
`CommitRows`; `SendAlert` one row at a time; `Finish`. What the metrics made the
z-score and the isolation forest report is any of the sets in `Churn`. `Environment` is
what comes in between: `Tick`, `Withdraw`, `Submit`, `Resolve`. `Detect(t)` is a healthy
worker without the submission of alerts, so that a composition can replace it.

`Alerting` EXTENDS `AnomalyDetection` and joins it with `AlertDispatch`, an INSTANCE under
other names (`message` for `task`, `sending` for `run`). The one joint step is `SubmitAlert`:
`dispatch_alerts_task.delay(record.id)` is the detector's `SendAlert` and the dispatcher's
`Enqueue` of a message about exactly that row. All other steps are one side's, with the
operators' `RequestRetry` and `Resolve`. The dispatcher's anomalies are here the detector's
rows. `ImplementsDispatch` is the refinement: what `AlertDispatch` assumes of whoever calls
it (an anomaly is submitted once) is what the detector does, through all of its retries.

`Rollup`. The clock, the points and one job per beat; `Query` and `Write` are two
steps, `Ingest` comes in between. `FlapScore` EXTENDS it with the detector's half: the
points of one speaker in their series (one for each `neighbor_ip`, and that of the rollups,
which have none), the history query, the query of the current points (a separate step),
the choice of the current point and the z-score. InfluxDB returns a table per series and the
client concatenates them, so that the last result is the oldest point of *some* series, and
which one is left open. The score is compared by its square, `n x - S` against the root of
`n Q - S^2`, in integers, while the code rounds at every step: a score whose square
is within one part in `Precision` of the number it is compared with may come out on either
side of it (`Near`, `lean`). Doubles are far more precise than that; the proofs need only that
`Precision` exceeds the squares of the thresholds.

`Ingestion`. Variables: `queue` (the broker's list), `speakers`, `task` (with the nested
attempt, the clock and the speaker of it), `events`, `points`, `detections`. The messages
are those of one router in the order it sent them (`Stream`), taken by several workers.
`Parse` or `ParseFails`; `Stamp` reads the clock; `StoreEvents`, `WritePoint`,
`SubmitDetection` are the three effects of an attempt; `RowsRefused` is PostgreSQL's answer to an
ASN that is no 32-bit integer. `IngestFails` may strike between any two and
starts the next attempt at once, or ends in the unread EagerResult; `Ack`, `ChildDies`,
`HostDies`; `QueueEvicted` is Redis at its memory limit. It implements `RouteLog`, the
promise of an append-only log as far as the code keeps it: a message's changes come as
a whole, for one speaker, with one time, while the message is in work, and nothing else
ever happens to the log.

`BmpServer`. Variables: `process` and `listener` (the API processes and which of them
bound the port), the handlers (`conn`, `eof`, `sent`, `read`, `queue`, `connections`), the
rows (`speakers`, `status`), the faults so far. A handler keeps control between two
awaits, so `Accept`, `Receive`, `EndOfStream`, `MessageFails` and `Cancelled` are each one
step, with the finally block (`Teardown`) in it. `Start` binds the port or fails to, in a
task nobody awaits; `Stop` and `Restart` are the container's, `Exit` is the end of a
stopped process, which gives the port back (`BMPServer.stop` is called by nothing), `Crash` is the death
of one process, which uvicorn's supervisor (0.24) does not replace. What uvicorn
does with the handlers on SIGTERM (cancel them, or exit under them) is covered
by having both `Stop` and `Crash`.

`RestApi` has the requests that read a row and write it back, `acknowledge_anomaly` and
`register_speaker`, behind their tokens: `Admit` (token and role), `Load` (the query),
`Commit`, `Respond` (the row is read again and answered), each a step because several
processes overlap there. A handler does not await between query and answer, so a process has
one of them at a time. `RequestFails` may come before any of these steps: after the commit,
the client is told of a failure and the row is there. The columns of an
acknowledgement are kept as the requests that last wrote them, since SQLAlchemy's UPDATE
has only the columns whose value differs from the loaded one. `Dashboard` EXTENDS it with the
sessions of the anomaly page and the client they share: a click runs the script from
the top (`List`, perhaps `Login`, the POST, `ReadAnswer`), and `CallFails` may end it while
the API goes on. The script also runs without a click (`Refresh`), and the list may lack
the anomaly although nobody has acknowledged it: it is older than the time range, behind the
limit of 200, or filtered out. Other users send requests beside them.

`RateLimiter` implements `SlidingWindow`. `Arrive` reads the clock, `Execute` is the
Redis transaction (a redis-py pipeline is MULTI/EXEC) and the decision; several
processes do this at once. `SlidingWindow` is the abstract promise: a limiter that
remembers every request. A refused request counts like an admitted one, in the
code as in both modules. The hosts' clocks are taken to be synchronised; a stall of
up to `MaxStall` ticks between clock and Redis stands for delays.

`BmpParser` is the parser as functions of octets, a parse with no result being one that
raises. `BmpParserInputs` gives it its inputs: arbitrary octets after the headers of a
route monitoring message, or an update composed piece by piece and encoded as
RFC 7854 and RFC 4271 say, the headers' lengths included. The parser's loops are recursive
functions of the offset. It reads neither the BMP message's length, which the BMP server
has taken the message by (`api/bmp_server.py:84-89`), nor that of the BGP message.

Each component has an `MC...` module with the values TLC uses for its constants.
`AlertDispatch_proofs`, `Alerting_proofs` (of `AnomalyDetection` and `Alerting`),
`FlapScore_proofs` (of `Rollup` and `FlapScore`), `Ingestion_proofs`, `BmpServer_proofs`,
`Dashboard_proofs` (of `RestApi` and `Dashboard`), `RateLimiter_proofs` and
`BmpParser_proofs` hold the theorems, each about the module it EXTENDS.

## 3. The runs

Operators named `X_...` and commented "Mutant" are deliberately wrong versions of X. Each
property has one that violates it in the run of that property: this is how we know
that the property can fail within the bounds.

| Run | Question | Bounds, and why they are enough |
| --- | --- | --- |
| `dispatch` | Is what is committed true, complete and all-or-nothing, and does every message end? | The detector's message, two subscriptions with different filters registered at any time, one backoff retry, one task retry, one redelivery: three executions, in each of which a subscription may be accepted, refused or not reached, and each of which may fail before or after its commit. An operator's message may be queued beside it but is run in `alerting` (`OperatorsWait`, the one CONSTRAINT here). The proofs lift the bounds. |
| `alerting` | Does the dispatcher get from the detector what it assumes; does a webhook hear of a trouble once; does an operator's retry reach a target that had failed; is every anomaly answered? | One detection that may run twice and finds nothing or both kinds of anomalies, two messages for their alerts and an operator's retry, one webhook that accepts, refuses or is not reached. Executions of one dispatch in a row are the run `dispatch`'s, overlapping detections the run `detection`'s: that neither occurs here leaves the exceptions of `AlertsRepeatOnlyByOverlap` to the theorem `WordsAreFew`. |
| `detection` | Deduplication; one alert for each row, after its commit, missed only through failures | Two messages, two workers, each message run up to three times, so that there are more executions for one trouble than workers; one withdrawal with threshold one; two ticks as long as the dedup window, so that a row is within it or past it and the clock may move between a sample and its check. Only the correlation reports here; the churn detectors are in `alerting`. |
| `flap_score` | How many points does an alarm need; which points are outside of their baseline; what can alarm about a steady router; which points do successive rollups share or leave out? | Two messages of either of two neighbors (interchangeable, hence SYMMETRY) and two beats two ticks apart, one redelivery: up to five points, the number that the critical threshold 2 needs at least; the thresholds 3 and 5 of the code scale the same inequality. Rollups wait for their worker only after a redelivery (`MaxLatency` 0). |
| `flap_score_newest` (violated) | Is the latest point of a neighbor the one judged? | Two points. |
| `ingestion` | Do detections see their data, do rows repeat only through failures, does attribution get worse, does every message end, is the log a `RouteLog`? | Two messages of one router in two workers, the first of four kinds (with prefixes, without, from a peer with a large ASN, unparsable), two ingest attempts, one task retry, one redelivery, two failures of any kind and the eviction of the queue, two speakers that match by ASN and by address and are registered at any time. |
| `route_order` (violated) | Are the rows of one router dated in the order it sent them? | The same without failures. |
| `bmp_server` | Gaps, table, status, port, closing | Two API processes, two connections of one router, so that they overlap; two messages, two database failures, two stops or crashes with restarts. |
| `bmp_reconnect` (violated) | Is a router with an open connection CONNECTED? | Two connections, no failures. |
| `operator_session` | Whose acknowledgement is in the row; who registered; what do the pages show? | Two sessions, another user and two API processes; three requests, the number of people that a mixed row needs; tokens that are good for their tick and a clock that moves once; one restart; any request may fail before, in or after its commit. |
| `rate_limiter` | Is the limit kept, and is the limiter one that forgets nothing? | Two processes, limit two, window of three ticks, seven ticks, six requests: the key expires, is pruned at the edge and is refilled. One key: keys share nothing. |
| `parser` | Is nothing made up, does truncation only lose, is what was written read? | All sequences of up to eight octets out of {0, 2, 16, 40} after the real headers (lengths that are empty, fitting, too long, and more than an IPv4 prefix), in a BGP message of seven: cut short, whole, and with one octet behind it; updates with up to one prefix in each list, two attributes of seven, two AS path segments of up to two numbers, one of which needs four octets. |

`CHECK_DEADLOCK FALSE` is given throughout: all messages settled, all bounds used up, is
a state in which these systems rightly stop.

**Fairness.** `WF_vars(Advance(t))` for each message: a worker that has a message goes
on with it and an idle one takes queued messages, which is Celery's worker loop.
Failures, retries and losses are never fair; they are bounded by the code
(`max_retries`) or, for redeliveries, by a bound of ours: a host cannot be lost for ever.
In `Alerting` both kinds of workers have it, `DetectionWorker(t)` and
`DispatchWorker(m)`; a detection that finds no free message is at the bound on messages, and
`EveryAnomalyAnswered` excuses it. For the BMP server it is `WF_vars(Serve(c))`: the event
loop resumes a handler whose bytes have arrived. No fairness is assumed of routers,
operators, the clock, or of `MessageFails`.

## 4. Where the code does not do what is written

Three are shown by runs that must fail:

* `bmp_reconnect`, `api/bmp_server.py:145`: when a router reconnects before its old
  connection is noticed to be closed, the old handler's end removes the *new* handler's
  entry and sets the speaker DISCONNECTED for as long as the new connection lasts.
* `route_order`, `tasks/ingestion.py:80`: rows get the time at which a worker took them up
  and sequence number 0, though `api/models.py:85` says "UTC, from BMP message" and the
  parser has that time. With two workers a withdrawal can be dated before the
  announcement it followed, and readers that sort by time see the route as present.
* `flap_score_newest`, `core/detector.py:43`: `current_window[-1]` of results that are
  sorted newest first is the oldest point of the last five minutes of its neighbor.

Others were met while modelling. They are in the models as the code has them, and the
properties are stated so that they hold of it:

* Nothing skips targets that have been DELIVERED to, as `DELIVERABLES_CHECKLIST.md:215`
  says: a message delivered again after its commit is sent again, and the operator's retry
  (`api/routes/alerts.py:64`) resends to every matching subscription. Hence
  `AlertsRepeatOnlyByOverlap` exempts later executions and operators.
* `core/detector.py:80`: the anomalies are committed and then submitted for dispatch. After
  a failure in between, the retry drops them as duplicates of the rows it finds, and no
  alert is ever sent. `OneAlertPerRow` and `EveryAnomalyAnswered` except these rows
  (`LeftBehind`).
* `_deduplicate` (`core/detector.py:60`) has no lock: two workers with detections of one
  speaker can both report a trouble. `DuplicatesOnlyByOverlap` bounds the rows by the number
  of workers, which is what the code does guarantee, and implies that one worker never
  reports twice within the window.
* Nothing looks at `resolved_at` before dispatching: an alert goes out for an anomaly that was
  resolved while its message waited.
* `_find_correlated_failures` counts WITHDRAW rows and not prefixes
  (`core/detector.py:231`): one flapping prefix can be a correlated failure.
* The nested ingest's last failure is swallowed (`tasks/ingestion.py:55`): the message is
  acknowledged and its route changes are in no log, though `api/models.py:71` calls it one
  of every change.
* The rate limit is per full path (`api/middleware.py:189`) and not per prefix of paths as
  at `api/middleware.py:114`: each anomaly's URL has a window of its own.
* The size of AS numbers is guessed from the octets left in the whole path
  (`core/bmp_parser.py:260`): paths of two-octet numbers in several segments are misread.
  `RoundTrip` has two-octet numbers for one segment only.
* The parser calls itself "RFC 7854 compliant" (`core/bmp_parser.py:100`), but skips the BGP
  header's length (`:178`) and reads announced prefixes to the end of the data (`:202`):
  octets that a router puts behind the BGP message are reported as announced prefixes. The
  property `NothingInvented` is of messages that end with their BGP message or before it.
* A request may be answered 500 although its row was committed (`api/routes/telemetry.py:68`,
  `api/routes/anomalies.py:124`); repeated, a registration is then a conflict with itself.
* A dispatch that fails after its commit is retried whole (`tasks/ingestion.py:334`): it sends
  again and leaves a second set of rows, which `RowsRepeatOnlyAfterCommit` excepts.
* The rollup writes into the measurement it reads (`tasks/ingestion.py:166` and `:204`), so
  that the next one counts the sum again. `core/influxdb_connector.py:14` and
  `ARCHITECTURE.md:115` call the field "flaps in the last 5-min window"; the code's punctual
  sums are of all points ever ingested. No run states the
  documents' words; the theorem `RollupsAccumulate` proves what the code does instead, for
  punctual beats that are not delivered again. The detector's query does not leave the sums
  out, so that they alarm about routers whose behaviour has not changed
  (`SteadyAlarmsOnlyByRollup`). A rollup that waits in its queue
  also has another range than its beat's: `EachFlapInOneRollup` says what it leaves out and
  what it counts again.
* `neighbor_asn` is a 32-bit signed column (`api/models.py:92`) and the API accepts AS
  numbers up to 2^32 - 1 (`api/schemas.py:48`): the rows of such a peer are refused in every
  attempt, and the swallowed failure leaves no trace (`RowsRefused`).
* Redis, the broker, evicts under memory pressure with `allkeys-lru`
  (`docker-compose.prod.yml:112`): a queue is a key like any other, and its messages are lost.
* Only one of the four API processes holds the BMP port, and when that one dies alone, nobody
  does until the container restarts: `UnservedOnlyByCrash` excepts crashes.
* The dashboard's client never renews its token (`dashboard/utils/api_client.py:26`): an hour
  after its first acknowledgement every other one is answered with an error, where
  `DEMO_SCRIPT.md:196` has "Click Acknowledge to mark it as reviewed".
* An acknowledgement can keep one person's name with another one's time
  (`api/routes/anomalies.py:121`), when three of two people overlap in two processes.
* The schedule names `detect_anomalies_all_task` (`tasks/celery_app.py:47`), which no module
  defines.
* Nothing sets a speaker to DEGRADED, one of the states of `api/models.py:36`.

## 5. The proofs

The theorems hold for every value of the constants that the modules' ASSUMEs allow: bounds
are natural numbers, filters and matches have their types, a window is longer than a stall,
the values of path attributes are what RFC 4271 and RFC 1997 have (`WellFormed`).
TLC evaluates these on every run. The invariants below were first checked by TLC on the
runs' instances. Few of the properties are inductive by themselves: they relate two pieces
of state, and the invariant has to say why these agree between the steps.

| Module | Theorems (property) |
| --- | --- |
| `AlertDispatch_proofs` | `TypeCorrect` (`TypeOK`), `ExecutionsAreAccounted`, `RowsAreTrue` (`RowsMatchPosts`), `SuccessStops` (`StopsOnSuccess`), `CommitIsAtomic` (`AllOrNothing`), `RowsRepeatOnlyIfPaid` (`RowsRepeatOnlyAfterCommit`), `CommitIsComplete` (`CommittedIsComplete`), `RetriesReach` (`RetryReachesFailedTarget`) |
| `Alerting_proofs`, the detector | `TypeCorrect` (`TypeOK`), `AlertsOncePerRow` (`OneAlertPerRow`), `DuplicatesAreBounded` (`DuplicatesOnlyByOverlap`) |
| `Alerting_proofs`, both | `DetectsAsAlone`, `DispatchesAsAlone` (`ImplementsDispatch`), `WordsAreFew` (`AlertsRepeatOnlyByOverlap`), `RetriesReachTogether` (`RetryReachesFailedTarget`), `DispatchesTruly` |
| `FlapScore_proofs` | `OutsideIsNewer` (`OutsideOnlyIfNewer`), `MetricsAreTrue`, `RollupsAccumulate`, `EachFlapIsInOneRollup` (`EachFlapInOneRollup`), `FewSamplesAreQuiet` (`FewSamplesNeverAlarm`), `SteadyIsQuiet` (`SteadyAlarmsOnlyByRollup`) |
| `Ingestion_proofs` | `TypeCorrect` (`TypeOK`), `RepeatsAreOfFailures` (`RowsRepeatOnlyByFailure`), `AttributionHolds` (`AttributionNeverDegrades`), `DetectionsSeeData` (`DetectionSeesData`), `ImplementsRouteLog` (`KeepsRouteLog`) |
| `BmpServer_proofs` | `TypeCorrect` (`TypeOK`), `NoMessageIsSkipped` (`NoGaps`), `TableIsLive` (`TableHoldsNoEndedHandler`), `PortIsServed` (`UnservedOnlyByCrash`), `StatusIsCurrent` (`StaleOnlyByFailure`) |
| `Dashboard_proofs` | `OneRegistrationWins` (`OneWinnerPerHostname`), `MixedByThree` (`MixedOnlyAfterThree`), `PageTellsTruth` (`ShownOnlyIfAcknowledged`), `OldAcknowledgementsStay` (`NeverStealsOld`, an action property) |
| `RateLimiter_proofs` | `TypeCorrect` (`TypeOK`), `ImplementsSlidingWindow` (`IsSlidingWindow`), `NeverOverLimit` (`AdmittedWithinLimit`) |
| `BmpParser_proofs` | `InventsNothing` (`NothingInvented`), `CutShortOnlyLoses` (`TruncationOnlyLoses`, an action property), `PrefixesSurvive`, `WrittenIsReported` (`RoundTrip`) |

**Types of tasks** (dispatch, detection, ingestion). An execution number stays within its
type only because executions are paid for by a counted retry or redelivery, where a
message that waits has already paid for its next one (`Accounting`, `Accounted`). For the
dispatcher, `late` counts only retries that are counted anyway, and `tries` is bounded because a webhook still PENDING has a POST left
(`TriesLeft`), which needs that only one is in flight (`OneInFlight`).

**Dispatch.** The properties speak of committed rows and past POSTs, and a commit copies
the locals into the table. So `LogInv` says what the locals of the latest execution mean
in terms of the POSTs so far (`RowFollowsPosts`), that only matched subscriptions have a
row (`RowsAreMatched`), that no POST or row belongs to an execution not yet begun
(`NothingFromTheFuture`), and that rows of the latest execution are there only if it
reached its commit, and then all of them (`LatestCommit`). For the operator's retry
`MatchInv` adds that who matched once matches ever after, for webhooks are only added, and
`RetryInv` keeps the failed alert that a retry was made for as its witness until it ends.

**Detection.** `RowTruth` says what the state of a message tells of the rows of each of its
executions: not begun, nothing there; committed, exactly the rows still to be sent are
without an alert. For duplicates, the recent open rows of a key and the executions that have
looked for such a row, found none and have yet to commit theirs are together never more
than `Workers` (`Shares`): a check lets a key through only while there is no such row, so
that all who hold the key are running then (`PoolInv`); a commit turns a holder into one
row, since an execution holds one candidate of a key (`OnePerKey`).

**Alerting.** The detector joined with the dispatcher takes only steps that it can take
alone (`DetectsAsAlone`), so that its invariants hold of the joint system. From them, a row is
fresh when it is submitted; with `Submitted` (a message of the detector is about a row that
counts its submission, and is the only one) every step is one of the dispatcher alone:
`DispatchesAsAlone`. What `AlertDispatch_proofs` proves of the dispatcher's specification is
thereby true of the joint system: `Alone` is an INSTANCE of that module under the joint
system's names, its assumptions hold (`AloneAssumptions`), and its theorems are cited through
it (`RetriesReachTogether`, `DispatchesTruly`). For `WordsAreFew`, what an
execution was accepted for has its row settled while it runs (`Accepted`), so that first
words about a row are one POST; mapping words to rows is an injection into the recent rows
of the kind, which are at most `Workers`.

**Flap score.** Points are numbered as they are written and dated in that order (`PointsInv`),
and the history that was read is its whole range at a past time (`ReadInv`). The rest is
about sums over sets of points. The library's induction theorems take an operator as
parameter, so induction over a finite set is done on the set of its good subsets, or of
natural numbers that bound a cardinality. What follows from it: a sum splits at any
subset; a sum of sums over disjoint ranges telescopes, and the ranges of successive beats
are disjoint, which is `RollupsAccumulate` (`EachFlapIsInOneRollup` says when they are); and for `n` points with sum `S` and sum of squares
`Q`, of which one is `x`, `(n x - S)^2 <= (n - 1)(n Q - S^2)` (Samuelson's inequality, from
that of Cauchy and Schwarz for the other points). So a point of its own baseline has no
z-score above the root of `n - 1`, and rounding cannot lift that of `k^2` points, at most
`k^2 - 1` when squared, to `k`: `FewSamplesAreQuiet`. A score that is rounded comes out of a deviation that
is above 0, which is all that `SteadyIsQuiet` needs of it. `MetricsAreTrue` says that each point
holds the count of the message or the sum of the points it was made from. So each point, a
rollup included, counts at least what some message counts: where all messages count alike, a
message's point is never above the mean, and only a rollup can alarm (`SteadyIsQuiet`).

**Ingestion.** The queue is injective and holds exactly the queued messages (`QueueInv`). The
store is tied to the attempts (`StoreInv`): whatever is stored belongs to an attempt that
has begun and, before the storing step, not to the attempt in work (`Past`); an attempt that
has stored its rows finds all of them there, under one speaker, and no others (`StoredInv`).
Each storing step then appends one whole copy of a message, a step of `RouteLog`, and every
other is a stutter or closes messages. Attribution cannot get worse since a speaker once
chosen stays registered (`EventsInv`) and the best match is chosen anew.

**BMP server.** Handlers with an entry in the table are running ones of the process that
listens, unless their on_connect failed; the last message that was read is queued; a
speaker with status CONNECTED has an open handler while nothing has failed, which needs
that an address means one speaker (the hypothesis of `StaleOnlyByFailure`); a port
without a holder is one whose process was killed or is starting.

**REST API and dashboard.** What a row or a handler holds was acknowledged before
(`AnomalyInv`); a row of `speakers` is that of the request that wrote it (`SpeakersInv`); a
session's state says where its request is (`SessionInv`). A mixed row has a third request
because the one that wrote only the time had loaded its own name from another's.

**Rate limiter.** A member of the sorted set is a decision, and a decision that is no member
has left every later window (`Remembered`), since a key outlives its members and no request
stalls longer than `MaxStall` (`Dated`). So the count in Redis lies between the counts of two
ideal windows, and `SlidingWindow` may decide the same (`ExecuteRefines`). The limit then
follows from the abstract decision: what a window holds after an admission was counted by it.

**Parser.** The state is a message of any octets, which only gets longer; the theorems are
about what a parse of it is. First, the recursions have values at all: `_parse_nlri` goes
from an offset to a greater one until the end, so a function that solves its equation
exists by induction from the end backwards (`OffsetInduction`, over the natural numbers in
a set), and the CHOOSE of the recursive function is one (`NlriEquation`, `NumberType`,
`FlatEquation` for FlattenSeq). By the same induction, the encoding of what is read from an
offset on is a prefix of the field from there on (`NlriReported`); one more octet behind a field
changes nothing in it (`NlriOfMore`), and one more at its end changes only what comes last
(`NlriCutShort`); an encoded list is read as itself (`PrefixesSurvive`). The fields' offsets are
computed from octets within the message (`ParsedMessage`), or the parse had no result; where
nothing follows the BGP message, the field it bounds and the rest of the data are the same.

For `RoundTrip` the invariant is that the pieces of an update are of their pools (`PiecesInv`);
the rest is about one message. What was written in parts stands in the message part by part
(`Stands`, `StandsSplit`), and each part is read where it stands: a number, for its octets hold
what is left of it after division (`NumberSurvives`); a segment, for the guessed size of its AS
numbers is the right one if they have four octets or nothing stands behind them
(`SizeIsGuessed`, `SegmentIsRead`); the value of every attribute (`ValueSurvives`). By induction
over the parts that are left, the path is then read (`PathSurvives`), and so are the
attributes, of two with one name the later one (`FoundCons`, `AttributesSurvive`); the update and
the message follow (`UpdateSurvives`, `HeadedIsParsed`, with the headers' octets in `HeaderTypes`). `_parse_as_path` and
`_parse_path_attributes` have values by the same induction from the end as `_parse_nlri`
(`SegmentsEquation`, `AttributesEquation`). An update whose lengths or AS numbers have no room in
their octets cannot be written: `Fits` excludes it, and nothing else.

Only model-checked is liveness (`EveryTaskSettles`, `EveryAnomalyAnswered`,
`EveryMessageSettles`, `ClosedIsNoticed`): no prover here handles fairness or ENABLED.

## 6. Not modelled, and why

* Slack and PagerDuty senders: no code path calls them. Formats of payloads and headers.
* The isolation forest: a library's verdict, an arbitrary choice in `AnomalyDetection`.
  Baseline statistics that nothing compares (p95, route counts).
* Severities of stored rows, `last_seen`, the read-only REST queries and the dashboard's other
  pages, which only show them: they do not touch what the properties are about.
* Passwords: a fixed table. A login is a call that issues a token or fails.
* Webhooks are only ever created: no route changes or deletes one.
* The beat's `detect_anomalies_all_task`, which does not exist.
* Migrations, deployment, load tests, screenshots: no program state. Process and worker
  counts of `docker-compose.prod.yml` decide which concurrency is modelled.
* Octet framing in the BMP server: `Receive` takes whole messages, `MessageFails` stands for
  a bad version or length, `EndOfStream` for an end in the middle of a message.

## 7. Plan

Done: `AlertDispatch` first, since losing or inventing alerts is the worst the system can
do, then its proofs; upstream from there `AnomalyDetection` with `FlapScore` over `Rollup`,
their composition `Alerting`, `Ingestion` over `RouteLog`, `BmpServer`; beside them
`RateLimiter` over `SlidingWindow`, `BmpParser`, and `RestApi` with `Dashboard`. A
composition of ingestion with detection would add nothing to these: the detector reads
`route_events` and the points at times of its own, and everything it may find there is
already allowed by `Withdraw` and `Churn`. Then the proofs of the other components, from
detection outwards, and of the two compositions.

What is left is what the provers leave open (section 5): liveness.
