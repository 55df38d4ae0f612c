----------------------------- MODULE RateLimiter -----------------------------
(***************************************************************************)
(* RateLimitMiddleware (src/api/middleware.py): several API processes      *)
(* share one Redis sorted set per client address and path.  A process      *)
(* reads its clock, then sends one transaction that removes what is too    *)
(* old, counts, adds the request and sets the key's expiry; requests of    *)
(* other processes and the expiry of the key come in between.              *)
(***************************************************************************)
EXTENDS Integers, FiniteSets

CONSTANTS
  Process,     \* API processes: each has one request between clock and Redis
  Client,      \* client addresses
  Path,        \* URL paths
  Class,       \* path -> the branch of _get_limit it takes
  Limit,       \* branch of _get_limit -> limit
  Window,      \* window, in ticks
  MaxStall,    \* ticks a request may spend between its clock and Redis
  MaxRequests, \* bound: requests
  MaxTime      \* bound: the clock

ASSUME LimitAssumption ==
  /\ Class \in [Path -> {"ingest", "anomalies", "other"}]
  /\ Limit \in [{"ingest", "anomalies", "other"} -> Nat \ {0}]

ASSUME TimeAssumption ==
  /\ Window \in Nat \ {0} /\ MaxStall \in 0..(Window - 1)
  /\ MaxRequests \in Nat /\ MaxTime \in Nat

VARIABLES
  now,       \* the clock
  inflight,  \* each process: the request, if any, that has read its clock
  zset,      \* Redis: members and scores of each key
  expires,   \* Redis: expiry of each key
  log        \* history: every request decided, in order

vars == <<now, inflight, zset, expires, log>>

Time == 0..MaxTime
Key == Client \X Path
_get_limit(path) == Limit[Class[path]]
LimitOf == [key \in Key |-> _get_limit(key[2])]

Pending == [key : Key, now : Time]
Member == [no : 1..MaxRequests, score : Time]
Decision == [no : 1..MaxRequests, key : Key, at : Time, admitted : BOOLEAN]

TypeOK ==
  /\ now \in Time
  /\ inflight \in [Process -> SUBSET Pending]
  /\ zset \in [Key -> SUBSET Member]
  /\ expires \in [Key -> 0..(MaxTime + Window)]
  /\ log \subseteq Decision

Init ==
  /\ now = 0
  /\ inflight = [p \in Process |-> {}]
  /\ zset = [key \in Key |-> {}]
  /\ expires = [key \in Key |-> 0]
  /\ log = {}

-----------------------------------------------------------------------------
\* Mutant: a member exactly as old as the window is kept.
Pruned_Exclusive(key, at) == {m \in zset[key] : m.score >= at - Window}

\* zremrangebyscore(key, 0, now - window)
Pruned(key, at) == {m \in zset[key] : m.score > at - Window}

\* Mutant: the limit itself is let through.
Admits_OneMore(key, count) == count <= LimitOf[key]

Admits(key, count) == count < LimitOf[key]

\* The clock moves when no request would stall for too long, and Redis has
\* removed every key that is due.
Tick ==
  /\ now < MaxTime
  /\ \A p \in Process : \A r \in inflight[p] : now - r.now < MaxStall
  /\ \A key \in Key : zset[key] # {} => now < expires[key]
  /\ now' = now + 1
  /\ UNCHANGED <<inflight, zset, expires, log>>

\* dispatch up to the pipeline: the key and the clock.
Arrive(p, client, path) ==
  /\ inflight[p] = {}
  /\ inflight' = [inflight EXCEPT ![p] = {[key |-> <<client, path>>, now |-> now]}]
  /\ UNCHANGED <<now, zset, expires, log>>

\* Mutant: the member's score is a tick ahead of the clock.
Execute_LateStamp(p) ==
  /\ Cardinality(log) < MaxRequests
  /\ \E r \in inflight[p] :
       LET kept == Pruned(r.key, r.now)
           no == Cardinality(log) + 1
       IN  /\ zset' = [zset EXCEPT ![r.key] =
                         kept \cup {[no |-> no, score |-> now + 1]}]
           /\ expires' = [expires EXCEPT ![r.key] = now + Window]
           /\ log' = log \cup {[no |-> no, key |-> r.key, at |-> r.now,
                                admitted |-> Admits(r.key, Cardinality(kept))]}
  /\ inflight' = [inflight EXCEPT ![p] = {}]
  /\ UNCHANGED now

\* pipe.execute() and the answer: remove, count, add and expire in one step;
\* a refused request is added like any other.
Execute(p) ==
  /\ Cardinality(log) < MaxRequests
  /\ \E r \in inflight[p] :
       LET kept == Pruned(r.key, r.now)
           no == Cardinality(log) + 1
       IN  /\ zset' = [zset EXCEPT ![r.key] = kept \cup {[no |-> no, score |-> r.now]}]
           /\ expires' = [expires EXCEPT ![r.key] = now + Window]
           /\ log' = log \cup {[no |-> no, key |-> r.key, at |-> r.now,
                                admitted |-> Admits(r.key, Cardinality(kept))]}
  /\ inflight' = [inflight EXCEPT ![p] = {}]
  /\ UNCHANGED now

\* Redis is unreachable: the request ends in a 500 and is not counted.
RedisFails(p) ==
  /\ inflight[p] # {}
  /\ inflight' = [inflight EXCEPT ![p] = {}]
  /\ UNCHANGED <<now, zset, expires, log>>

\* Redis drops the key, in the course of the tick in which it is due.
Expire(key) ==
  /\ zset[key] # {} /\ now >= expires[key]
  /\ zset' = [zset EXCEPT ![key] = {}]
  /\ UNCHANGED <<now, inflight, expires, log>>

Next ==
  \/ Tick
  \/ \E p \in Process, client \in Client, path \in Path : Arrive(p, client, path)
  \/ \E p \in Process : Execute(p)
  \/ \E p \in Process : RedisFails(p)
  \/ \E key \in Key : Expire(key)

Spec == Init /\ [][Next]_vars

-----------------------------------------------------------------------------
\* Safety.

\* Whatever the processes' requests and the key's expiry do to each other, a
\* client gets at most the limit through on a path in any window, less the time
\* its requests may stall between the clock and Redis.
AdmittedWithinLimit ==
  \A key \in Key : \A t \in Time :
    Cardinality({d \in log : /\ d.key = key /\ d.admitted
                             /\ d.at <= t /\ d.at > t - (Window - MaxStall)})
      <= LimitOf[key]

\* Forgetting old members and expired keys changes no decision: the limiter
\* behaves like one that remembers everything, up to the time its requests may
\* stall between the clock and Redis, and exactly like it if none does.
Ideal == INSTANCE SlidingWindow WITH Slack <- MaxStall
IsSlidingWindow == Ideal!Spec
=============================================================================
