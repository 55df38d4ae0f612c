------------------------------ MODULE Dashboard ------------------------------
(***************************************************************************)
(* Acknowledging from the dashboard: the sessions of the anomaly page      *)
(* (src/dashboard/views/anomaly_timeline.py) and the one client they share *)
(* (src/dashboard/utils/session.py, api_client.py), beside other users of  *)
(* the API.                                                                *)
(*                                                                         *)
(* A click runs the page's script again from the top: it lists the         *)
(* anomalies anew, and the button only acts if the anomaly is still shown  *)
(* as unacknowledged.  An anomaly also leaves the list by its age, behind  *)
(* 200 newer ones and by the page's filters.  The client logs in when it   *)
(* has no token, and never again.                                          *)
(***************************************************************************)
EXTENDS RestApi

CONSTANTS
  Session,        \* browser sessions
  DashboardUser,  \* default acknowledged_by of acknowledge_anomaly
  MaxRestarts     \* bound: restarts of the dashboard

ASSUME DashboardAssumption ==
  /\ IsFiniteSet(Session) /\ DashboardUser \in Name /\ MaxRestarts \in Nat

VARIABLES
  token,      \* _access_token of the shared client
  session,    \* where each session's script is, and what it shows
  restarts    \* restarts so far

clientVars == <<token, session, restarts>>
vars == <<apiVars, clientVars>>

\* A session's page shows the anomaly with its button ("button"), beside the "error"
\* of its last request as well, or "acknowledged" until the script runs again, or no
\* button ("gone"); its script is at one of the states "clicked", "listed", "login"
\* and "waiting".  late: was it acknowledged when the button was clicked.
NewSession == [state |-> "page", shows |-> "button", request |-> 0, late |-> FALSE]

Init ==
  /\ ApiInit
  /\ token = NoToken
  /\ session = [s \in Session |-> NewSession]
  /\ restarts = 0

-----------------------------------------------------------------------------
\* Room for another request, when every running script may still make one: the
\* bound is on what is asked, never on a script that has begun.
Busy == {s \in Session : session[s].state \in {"clicked", "listed", "login"}}
Room == Len(req) + Cardinality(Busy) < MaxRequests

\* The script goes on, or ends with the page showing something.
Goto(s, state) == session' = [session EXCEPT ![s].state = state]
Show(s, what) ==
  session' = [session EXCEPT ![s].state = "page", ![s].shows = what, ![s].late = FALSE]

\* A page that still has the button is clicked, however old it is.
Click(s) ==
  /\ session[s].state = "page" /\ session[s].shows \in {"button", "error"}
  /\ Room
  /\ session' = [session EXCEPT ![s] = [state |-> "clicked", shows |-> "button",
                                        request |-> 0, late |-> Acknowledged]]
  /\ UNCHANGED <<apiVars, token, restarts>>

\* Mutant: the button acts on the anomalies of the page that was clicked.
List_Cached(s) ==
  /\ session[s].state = "clicked"
  /\ Goto(s, "listed")
  /\ UNCHANGED <<apiVars, token, restarts>>

\* list_anomalies(acknowledged=False), or with acknowledged ones but no button.
\* The anomaly may also be older than the time range, behind the limit, or not
\* among those that the filters select.
List(s) ==
  /\ session[s].state = "clicked"
  /\ \/ ~Acknowledged /\ Goto(s, "listed")
     \/ Show(s, "gone")
  /\ UNCHANGED <<apiVars, token, restarts>>

\* The script runs without a click: by a refresh, another filter, or st.rerun.
Refresh(s) ==
  /\ session[s].state = "page"
  /\ \E shows \in {"button", "gone"} :
       /\ shows = "button" => ~Acknowledged
       /\ session' = [session EXCEPT ![s] = [NewSession EXCEPT !.shows = shows]]
  /\ UNCHANGED <<apiVars, token, restarts>>

\* _auth_headers finds no token.
NeedsLogin(s) ==
  /\ session[s].state = "listed" /\ token = NoToken
  /\ Goto(s, "login")
  /\ UNCHANGED <<apiVars, token, restarts>>

Post(s) ==
  /\ Send("acknowledge", DashboardUser, token')
  /\ session' = [session EXCEPT ![s].state = "waiting", ![s].request = Len(req) + 1]
  /\ UNCHANGED restarts

\* _login, then the POST with whatever token the client has by then.
Login(s) ==
  /\ session[s].state = "login"
  /\ token' = Issue("operator")
  /\ Post(s)

\* The POST with the token found.
PostWithToken(s) ==
  /\ session[s].state = "listed" /\ token # NoToken
  /\ UNCHANGED <<token>>
  /\ Post(s)

\* Mutant: the answer's status is not looked at.
ReadAnswer_Unchecked(s) ==
  /\ session[s].state = "waiting" /\ req[session[s].request].state = "done"
  /\ Show(s, "acknowledged")
  /\ UNCHANGED <<apiVars, token, restarts>>

\* raise_for_status, and what the page makes of it.
ReadAnswer(s) ==
  /\ session[s].state = "waiting" /\ req[session[s].request].state = "done"
  /\ Show(s, IF req[session[s].request].status = "ok" THEN "acknowledged" ELSE "error")
  /\ UNCHANGED <<apiVars, token, restarts>>

\* A call fails or times out, whatever the API does with the request later.  Without
\* its list the page has no button.
CallFails(s) ==
  /\ session[s].state \in {"clicked", "login", "waiting"}
  /\ Show(s, IF session[s].state = "clicked" THEN "gone" ELSE "error")
  /\ UNCHANGED <<apiVars, token, restarts>>

\* The dashboard's process starts anew: its client and its sessions are gone.
RestartDashboard ==
  /\ restarts < MaxRestarts
  /\ restarts' = restarts + 1
  /\ token' = NoToken
  /\ session' = [s \in Session |-> NewSession]
  /\ UNCHANGED apiVars

-----------------------------------------------------------------------------
\* Other users: operators and readers under their own names, with a token they
\* just got, and, with no token at all, whoever registers a speaker.
UserAcknowledges ==
  Room /\ \E name \in Name \ {DashboardUser}, role \in {"readonly", "operator"} :
    Send("acknowledge", name, Issue(role))
UserRegisters == Room /\ \E host \in Hostname : Send("register", host, NoToken)

\* The script of a session runs until the page is shown.
Run(s) == \/ List(s)
          \/ NeedsLogin(s)
          \/ Login(s)
          \/ PostWithToken(s)
          \/ ReadAnswer(s)

ApiStep == \E r \in DOMAIN req : Handle(r)

Next ==
  \/ (Tick \/ UserAcknowledges \/ UserRegisters) /\ UNCHANGED clientVars
  \/ ApiStep /\ UNCHANGED clientVars
  \/ \E r \in DOMAIN req : RequestFails(r) /\ UNCHANGED clientVars
  \/ \E s \in Session : Click(s) \/ Run(s) \/ Refresh(s) \/ CallFails(s)
  \/ RestartDashboard

Spec == Init /\ [][Next]_vars

-----------------------------------------------------------------------------
\* Safety.

\* The page tells the truth: it shows Acknowledged only after the acknowledgement
\* that this session asked for was committed under the dashboard's name, whatever
\* other sessions, other users and a token that expires make of it.  That it drops
\* an anomaly, or shows an error, says nothing of what was committed.
ShownOnlyIfAcknowledged ==
  \A s \in Session :
    session[s].shows = "acknowledged" =>
      session[s].request \in Acks /\ NameIn(session[s].request) = DashboardUser

-----------------------------------------------------------------------------
\* Action properties.

\* A click never takes an anomaly away from whoever had acknowledged it before the
\* click, however old the page was: a session overwrites only what was
\* acknowledged while its script was running.
NeverStealsOld ==
  [][\A s \in Session :
       LET r == session[s].request IN
       session[s].state = "waiting" /\ r \notin Acks /\ r \in Acks' =>
         ~session[s].late]_vars
=============================================================================
