------------------------------- MODULE RestApi -------------------------------
(***************************************************************************)
(* Requests that read a row and then write it: acknowledge_anomaly         *)
(* (src/api/routes/anomalies.py) and register_speaker                      *)
(* (src/api/routes/telemetry.py), behind the tokens of src/api/auth.py.    *)
(*                                                                         *)
(* A handler runs without awaiting from its query to its answer, so a      *)
(* process has at most one of them half done; the processes of the API     *)
(* overlap, each under READ COMMITTED.  What comes after the commit may    *)
(* still fail, and the client is then told so of a row that is there.  One *)
(* anomaly is modelled: the rows share nothing.                            *)
(***************************************************************************)
EXTENDS Integers, Sequences, FiniteSets

CONSTANTS
  Processes,     \* API processes
  Name,          \* values of acknowledged_by
  NoName,        \* acknowledged_by of a row nobody has acknowledged
  Hostname,      \* hostnames of speakers
  TokenLife,     \* expires_minutes, in ticks
  MaxRequests,   \* bound: requests
  MaxTime        \* bound: the clock

ASSUME ApiAssumption ==
  /\ Processes \in Nat \ {0}
  /\ NoName \notin Name /\ Name \cap Hostname = {}
  /\ TokenLife \in Nat /\ MaxRequests \in Nat /\ MaxTime \in Nat

VARIABLES
  now,        \* the clock
  req,        \* every request made so far
  anomaly,    \* the requests that last wrote acknowledged_by and acknowledged_at
  speakers    \* rows of bgp_speakers, as the requests that inserted them

apiVars == <<now, req, anomaly, speakers>>

RoleLevel == [readonly |-> 0, operator |-> 1, admin |-> 2]
NoToken == [role |-> "readonly", expires |-> 0]

\* A request has an op, "acknowledge" or "register", with the name or hostname
\* for arg, and a token; its state goes from "sent" to "admitted", "loaded",
\* "committed" and "done", and its status is then "ok" (200, 201), "conflict" (409)
\* or "refused".  saw: acknowledged_by as its handler loaded it; wrote: is it
\* committed.

ApiInit ==
  /\ now = 0
  /\ req = << >>
  /\ anomaly = [by |-> 0, at |-> 0]
  /\ speakers = {}

-----------------------------------------------------------------------------
Running == {r \in DOMAIN req : req[r].state \in {"loaded", "committed"}}
Acknowledged == anomaly.at # 0
NameIn(column) == IF column = 0 THEN NoName ELSE req[column].arg

\* The acknowledgements that were committed, whatever was answered.
Acks == {r \in DOMAIN req : req[r].op = "acknowledge" /\ req[r].wrote}

\* create_access_token: issued now for a user of the given role.
Issue(role) == [role |-> role, expires |-> now + TokenLife]

\* decode_token accepts a token up to and including its expiry, and
\* require_role("operator") the roles from operator upwards.
Authorised(token) ==
  token.expires >= now /\ RoleLevel[token.role] >= RoleLevel["operator"]

\* The answer; what the handler knew goes with it.
Answer(r, status) ==
  req' = [req EXCEPT ![r].state = "done", ![r].status = status,
                     ![r].token = NoToken, ![r].saw = NoName]

\* The commit is applied; the handler is not done.
Written(r) == req' = [req EXCEPT ![r].state = "committed", ![r].wrote = TRUE,
                                 ![r].saw = NoName]

\* The checks are passed, and the token is not looked at again.
Pass(r) == req' = [req EXCEPT ![r].state = "admitted", ![r].token = NoToken]

-----------------------------------------------------------------------------
Tick ==
  /\ now < MaxTime
  /\ now' = now + 1
  /\ UNCHANGED <<req, anomaly, speakers>>

\* A client sends a request.
Send(op, arg, token) ==
  /\ Len(req) < MaxRequests
  /\ req' = Append(req, [op |-> op, arg |-> arg, token |-> token,
                         state |-> "sent", saw |-> NoName, wrote |-> FALSE,
                         status |-> "none"])
  /\ UNCHANGED <<now, anomaly, speakers>>

\* get_current_user and require_role("operator"), where the route has them; the
\* session is opened in a worker thread before the handler goes on.
Admit(r) ==
  /\ req[r].state = "sent"
  /\ IF req[r].op = "register" \/ Authorised(req[r].token)
     THEN Pass(r) ELSE Answer(r, "refused")
  /\ UNCHANGED <<now, anomaly, speakers>>

\* The handler's query: the anomaly's row, or the speaker of that hostname.
Load(r) ==
  /\ req[r].state = "admitted" /\ Cardinality(Running) < Processes
  /\ IF req[r].op = "register" /\ \E s \in speakers : req[s].arg = req[r].arg
     THEN Answer(r, "conflict")
     ELSE req' = [req EXCEPT ![r].state = "loaded", ![r].saw = NameIn(anomaly.by)]
  /\ UNCHANGED <<now, anomaly, speakers>>

\* Mutant: the name is set only on a row that was loaded unacknowledged.
Acknowledge_NameOnce(r) ==
  /\ anomaly' = [by |-> IF req[r].saw = NoName THEN r ELSE anomaly.by, at |-> r]
  /\ Written(r)
  /\ UNCHANGED <<now, speakers>>

\* The commit of acknowledge_anomaly: SQLAlchemy leaves a column out of the UPDATE
\* when the value set is the one loaded.
Acknowledge(r) ==
  /\ anomaly' = [by |-> IF req[r].saw = req[r].arg THEN anomaly.by ELSE r, at |-> r]
  /\ Written(r)
  /\ UNCHANGED <<now, speakers>>

\* Mutant: the column is not unique.
Register_NotUnique(r) ==
  /\ speakers' = speakers \cup {r}
  /\ Written(r)
  /\ UNCHANGED <<now, anomaly>>

\* The commit of register_speaker: the unique constraint raises when another
\* process has inserted the hostname since the query.
Register(r) ==
  /\ IF \E s \in speakers : req[s].arg = req[r].arg
     THEN Answer(r, "refused") /\ UNCHANGED speakers
     ELSE Written(r) /\ speakers' = speakers \cup {r}
  /\ UNCHANGED <<now, anomaly>>

Commit(r) ==
  /\ req[r].state = "loaded"
  /\ IF req[r].op = "register" THEN Register(r) ELSE Acknowledge(r)

\* The row is read again (db.refresh, and once more after expire_all) and answered.
Respond(r) ==
  /\ req[r].state = "committed"
  /\ Answer(r, "ok")
  /\ UNCHANGED <<now, anomaly, speakers>>

\* The rate limiter refuses, the database raises, or the process dies: before the
\* commit, in it though it was applied, or after it.
RequestFails(r) ==
  /\ req[r].state # "done"
  /\ Answer(r, "refused")
  /\ UNCHANGED <<now, anomaly, speakers>>

\* What the API does with a request.
Handle(r) == Admit(r) \/ Load(r) \/ Commit(r) \/ Respond(r)

-----------------------------------------------------------------------------
\* Safety.

\* acknowledged_by and acknowledged_at come from two acknowledgements by
\* different people only when a third, by the name that is now missing, came
\* before them: its row was loaded, overwritten by somebody else, and then only
\* the time was written again (acknowledge_anomaly in two processes).
MixedOnlyAfterThree ==
  NameIn(anomaly.by) # NameIn(anomaly.at) =>
    \E r \in Acks \ {anomaly.by, anomaly.at} : req[r].arg = NameIn(anomaly.at)

\* A hostname has one row, and of the requests to register it only the one whose row
\* is there can be told so, however they overlap.  A conflict is reported only if
\* there is a row, though its requester may have been told that it failed.
OneWinnerPerHostname ==
  /\ \A r, s \in speakers : req[r].arg = req[s].arg => r = s
  /\ \A r \in DOMAIN req : req[r].op = "register" =>
       /\ req[r].status = "ok" => r \in speakers
       /\ req[r].status = "conflict" => \E s \in speakers : req[s].arg = req[r].arg
=============================================================================
