------------------------------- MODULE Rollup -------------------------------
(***************************************************************************)
(* The metrics of one speaker and their five-minute rollup:                *)
(* compute_aggregates_task (src/tasks/ingestion.py), sent by Celery beat   *)
(* every Period.                                                           *)
(*                                                                         *)
(* An execution queries the points of the last Period in one step, sums    *)
(* their flap counts and writes the sum back as a point of the same        *)
(* measurement in another.  The task is not retried, but its message is    *)
(* delivered again when its worker's host dies before the acknowledgement. *)
(***************************************************************************)
EXTENDS Integers, FiniteSets, Functions

CONSTANTS
  FlapCount,       \* withdrawn prefixes of a message: its flap_count
  Neighbor,        \* peer addresses of the speaker's messages: tag neighbor_ip
  NoNeighbor,      \* what a rollup's point has for it
  Period,          \* the beat's schedule and the query's range, in ticks
  MaxLatency,      \* bound: ticks between the beat and its query
  MaxRedeliveries, \* bound: redeliveries of messages
  MaxIngested,     \* bound: points of ingested messages
  MaxBeats         \* bound: beats

ASSUME BoundsAssumption ==
  /\ FlapCount \subseteq Nat
  /\ NoNeighbor \notin Neighbor
  /\ Period \in Nat \ {0} /\ MaxLatency \in Nat /\ MaxRedeliveries \in Nat
  /\ MaxIngested \in Nat /\ MaxBeats \in Nat

VARIABLES
  now,    \* the clock
  points, \* points of measurement route_stats, numbered; beat is 0 for that of
          \* an ingested message, else the beat it sums up
  job     \* each beat's message and the locals of its execution

vars == <<now, points, job>>

Beat == 1..MaxBeats
Time == 0..(Period * (MaxBeats + 1) - 1)

FreeJob ==
  [state |-> "free", due |-> 0, redelivered |-> 0, queried |-> 0, read |-> {},
   flap_count |-> 0]

Init ==
  /\ now = 0
  /\ points = {}
  /\ job = [k \in Beat |-> FreeJob]

-----------------------------------------------------------------------------
\* Mutant: the start of the range is left out.
InRange_Exclusive(age) == {p \in points : p.at > now - age /\ p.at < now}

\* range(start: -age): the start is in the range and the present is not.
InRange(age) == {p \in points : p.at >= now - age /\ p.at < now}

Total(ps) == SumFunction([p \in ps |-> p.flap_count])

NewPoint(flaps, k, neighbor) ==
  [no |-> Cardinality(points) + 1, at |-> now, flap_count |-> flaps, beat |-> k,
   neighbor |-> neighbor]

\* The clock waits for a due beat and for messages that are late.
Tick ==
  /\ now + 1 \in Time
  /\ \A k \in Beat : job[k].state = "free" => now < Period * k
  /\ \A k \in Beat : job[k].state = "queued" => now - job[k].due < MaxLatency
  /\ now' = now + 1
  /\ UNCHANGED <<points, job>>

\* An ingest writes its point with the neighbor's tag; a withdrawn prefix is a flap.
Ingest(flaps, neighbor) ==
  /\ Cardinality({p \in points : p.beat = 0}) < MaxIngested
  /\ points' = points \cup {NewPoint(flaps, 0, neighbor)}
  /\ UNCHANGED <<now, job>>

\* Celery beat sends the message.
Send(k) ==
  /\ job[k].state = "free" /\ now = Period * k
  /\ job' = [job EXCEPT ![k].state = "queued", ![k].due = now]
  /\ UNCHANGED <<now, points>>

\* A worker takes the message, queries and sums; without points it returns.
Query(k) ==
  /\ job[k].state = "queued"
  /\ LET found == InRange(Period) IN
     job' = [job EXCEPT ![k].state = IF found = {} THEN "written" ELSE "read",
                        ![k].queried = now,
                        ![k].read = {p.no : p \in found},
                        ![k].flap_count = Total(found)]
  /\ UNCHANGED <<now, points>>

\* Mutant: the rollup leaves flap_count out, and its readers take 0.
Write_NoFlapCount(k) ==
  /\ job[k].state = "read"
  /\ points' = points \cup {NewPoint(0, k, NoNeighbor)}
  /\ job' = [job EXCEPT ![k].state = "written"]
  /\ UNCHANGED now

\* The sum is written with the time of the write, into the same measurement.
Write(k) ==
  /\ job[k].state = "read"
  /\ points' = points \cup {NewPoint(job[k].flap_count, k, NoNeighbor)}
  /\ job' = [job EXCEPT ![k].state = "written"]
  /\ UNCHANGED now

Ack(k) ==
  /\ job[k].state = "written"
  /\ job' = [job EXCEPT ![k].state = "done"]
  /\ UNCHANGED <<now, points>>

\* The query or the write raises, or the child process dies: no retry.
Fail(k) ==
  /\ job[k].state \in {"queued", "read"}
  /\ job' = [job EXCEPT ![k].state = "failed"]
  /\ UNCHANGED <<now, points>>

\* The worker's host dies and the broker delivers the message again.
HostDies(k) ==
  /\ job[k].state \in {"read", "written"}
  /\ SumFunction([j \in Beat |-> job[j].redelivered]) < MaxRedeliveries
  /\ job' = [job EXCEPT ![k].state = "queued", ![k].due = now,
                        ![k].redelivered = @ + 1]
  /\ UNCHANGED <<now, points>>

Next ==
  \/ Tick
  \/ \E flaps \in FlapCount, neighbor \in Neighbor : Ingest(flaps, neighbor)
  \/ \E k \in Beat : Send(k)
  \/ \E k \in Beat : Query(k)
  \/ \E k \in Beat : Write(k)
  \/ \E k \in Beat : Ack(k)
  \/ \E k \in Beat : Fail(k)
  \/ \E k \in Beat : HostDies(k)

Spec == Init /\ [][Next]_vars

-----------------------------------------------------------------------------
\* Safety.

Queried(k) == job[k].state \in {"read", "written", "done"}

\* How long after its beat a rollup's latest execution has run its query.
Late(k) == job[k].queried - Period * k

\* Successive rollups divide the points among them only as far as they are equally
\* late, for the range ends at the query and not at the beat: one that is not later
\* than the one before it leaves no point between them out, and one that is not
\* earlier counts no point again.
EachFlapInOneRollup ==
  \A k \in Beat : k + 1 \in Beat /\ Queried(k) /\ Queried(k + 1) =>
    /\ Late(k + 1) <= Late(k) =>
         \A p \in points :
           p.at >= job[k].queried - Period /\ p.at < job[k + 1].queried =>
             p.no \in job[k].read \cup job[k + 1].read
    /\ Late(k + 1) >= Late(k) => job[k].read \cap job[k + 1].read = {}
=============================================================================
