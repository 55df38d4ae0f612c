-------------------------- MODULE Dashboard_proofs --------------------------
(***************************************************************************)
(* Safety of the API's read-then-write requests (RestApi) and of the       *)
(* sessions of the dashboard (Dashboard), for any number of processes,     *)
(* sessions, users, hostnames and requests.                                *)
(***************************************************************************)
EXTENDS Dashboard, SequenceTheorems, TLAPS

-----------------------------------------------------------------------------
\* Types.
Token == [role : {"readonly", "operator", "admin"}, expires : Nat]

Request == [op : {"acknowledge", "register"}, arg : Name \cup Hostname, token : Token,
            state : {"sent", "admitted", "loaded", "committed", "done"},
            saw : Name \cup Hostname \cup {NoName}, wrote : BOOLEAN,
            status : {"none", "ok", "conflict", "refused"}]

\* A request is answered once, when it is done; it is written before it can be
\* answered with success; and an acknowledgement carries the name of a user.
RequestOK(q) ==
  /\ q.state = "done" <=> q.status # "none"
  /\ q.state \in {"sent", "admitted", "loaded"} => ~q.wrote
  /\ q.state = "committed" \/ q.status = "ok" => q.wrote
  /\ q.op = "acknowledge" => q.arg \in Name

ReqInv ==
  /\ now \in Nat
  /\ req \in Seq(Request)
  /\ \A r \in DOMAIN req : RequestOK(req[r])

\* What is written was acknowledged, and what a handler loaded was written before.
AnomalyInv ==
  /\ anomaly.by \in Acks \cup {0} /\ anomaly.at \in Acks \cup {0}
  /\ \A r \in DOMAIN req :
       req[r].saw # NoName => \E k \in Acks : req[k].arg = req[r].saw

\* The rows of speakers are those that requests have inserted.
SpeakersInv ==
  /\ \A s \in speakers : s \in DOMAIN req /\ req[s].op = "register"
  /\ \A r \in DOMAIN req : req[r].op = "register" /\ req[r].wrote => r \in speakers

ApiInv == ReqInv /\ AnomalyInv /\ SpeakersInv

\* Requests are numbered from 1.
LEMMA Numbers ==
  ASSUME ReqInv
  PROVE  /\ Len(req) \in Nat /\ DOMAIN req = 1..Len(req)
         /\ \A r \in DOMAIN req : req[r] \in Request /\ r \in Nat /\ r # 0
<1>1. Len(req) \in Nat /\ DOMAIN req = 1..Len(req)
  BY LenProperties DEF ReqInv
<1>2. \A r \in 1..Len(req) : req[r] \in Request
  BY ElementOfSeq DEF ReqInv
<1>. QED
  BY <1>1, <1>2

\* One request changes, within its type.
Changes(r, q) ==
  /\ req' \in Seq(Request) /\ DOMAIN req' = DOMAIN req
  /\ req'[r] = q
  /\ \A k \in DOMAIN req : k # r => req'[k] = req[k]

\* The effect of changing one request.
LEMMA ChangeEffect ==
  ASSUME ReqInv, NEW r \in DOMAIN req, NEW q \in Request, req' = [req EXCEPT ![r] = q]
  PROVE  Changes(r, q)
<1>1. /\ req \in Seq(Request) /\ r \in 1..Len(req)
      /\ Len(req) \in Nat /\ DOMAIN req = 1..Len(req)
  BY Numbers DEF ReqInv
<1>2. /\ req' \in Seq(Request) /\ Len(req') = Len(req)
      /\ \A j \in 1..Len(req) : req'[j] = IF j = r THEN q ELSE req[j]
  BY <1>1, ExceptSeq
<1>3. DOMAIN req' = 1..Len(req')
  BY <1>2, LenProperties
<1>. QED
  BY <1>1, <1>2, <1>3 DEF Changes

\* The parameters make tokens.
LEMMA Tokens ==
  /\ NoToken \in Token
  /\ now \in Nat => \A role \in {"readonly", "operator", "admin"} : Issue(role) \in Token
BY ApiAssumption DEF NoToken, Token, Issue, ApiAssumption

\* What an answer does to a request.
LEMMA AnswerEffect ==
  ASSUME ReqInv, NEW r \in DOMAIN req, NEW status \in {"ok", "conflict", "refused"},
         Answer(r, status)
  PROVE  \E q \in Request :
           /\ Changes(r, q)
           /\ q.op = req[r].op /\ q.arg = req[r].arg
           /\ q.state = "done" /\ q.status = status /\ q.saw = NoName
           /\ q.wrote = req[r].wrote
<1> DEFINE q == [req[r] EXCEPT !.state = "done", !.status = status,
                               !.token = NoToken, !.saw = NoName]
<1>1. req[r] \in Request
  BY Numbers
<1>2. q \in Request
  BY <1>1, Tokens DEF Request
<1>3. /\ q.op = req[r].op /\ q.arg = req[r].arg
      /\ q.state = "done" /\ q.status = status /\ q.saw = NoName
      /\ q.wrote = req[r].wrote
  BY <1>1 DEF Request
<1>4. req' = [req EXCEPT ![r] = q]
  BY <1>1 DEF Answer
<1> HIDE DEF q
<1>. QED
  BY <1>2, <1>3, <1>4, ChangeEffect

\* What a commit does to a request.
LEMMA WrittenEffect ==
  ASSUME ReqInv, NEW r \in DOMAIN req, Written(r)
  PROVE  \E q \in Request :
           /\ Changes(r, q)
           /\ q.op = req[r].op /\ q.arg = req[r].arg /\ q.status = req[r].status
           /\ q.state = "committed" /\ q.wrote /\ q.saw = NoName
<1> DEFINE q == [req[r] EXCEPT !.state = "committed", !.wrote = TRUE, !.saw = NoName]
<1>1. req[r] \in Request
  BY Numbers
<1>2. q \in Request
  BY <1>1 DEF Request
<1>3. /\ q.op = req[r].op /\ q.arg = req[r].arg /\ q.status = req[r].status
      /\ q.state = "committed" /\ q.wrote /\ q.saw = NoName
  BY <1>1 DEF Request
<1>4. req' = [req EXCEPT ![r] = q]
  BY <1>1 DEF Written
<1> HIDE DEF q
<1>. QED
  BY <1>2, <1>3, <1>4, ChangeEffect

\* A request that is not answered goes on.
GoesOn(r, q) ==
  /\ Changes(r, q)
  /\ q.op = req[r].op /\ q.arg = req[r].arg
  /\ q.state \in {"admitted", "loaded"} /\ q.status = req[r].status
  /\ q.wrote = req[r].wrote

\* What passing the checks does to a request.
LEMMA PassEffect ==
  ASSUME ReqInv, NEW r \in DOMAIN req, Pass(r)
  PROVE  \E q \in Request : GoesOn(r, q) /\ q.saw = req[r].saw
<1> DEFINE q == [req[r] EXCEPT !.state = "admitted", !.token = NoToken]
<1>1. req[r] \in Request
  BY Numbers
<1>2. q \in Request
  BY <1>1, Tokens DEF Request
<1>3. /\ q.op = req[r].op /\ q.arg = req[r].arg
      /\ q.state = "admitted" /\ q.status = req[r].status /\ q.saw = req[r].saw
      /\ q.wrote = req[r].wrote
  BY <1>1 DEF Request
<1>4. req' = [req EXCEPT ![r] = q]
  BY <1>1 DEF Pass
<1> HIDE DEF q
<1>. QED
  BY <1>2, <1>3, <1>4, ChangeEffect DEF GoesOn

\* The name in a column is that of an acknowledgement, or none.
LEMMA NameTyped ==
  ASSUME ApiInv
  PROVE  /\ NameIn(anomaly.by) \in Name \cup {NoName}
         /\ NameIn(anomaly.by) # NoName => \E k \in Acks : req[k].arg = NameIn(anomaly.by)
BY Numbers DEF ApiInv, AnomalyInv, ReqInv, RequestOK, NameIn, Acks

\* What a query that finds nothing in the way does to a request.
LEMMA LoadEffect ==
  ASSUME ApiInv, NEW r \in DOMAIN req,
         req' = [req EXCEPT ![r].state = "loaded", ![r].saw = NameIn(anomaly.by)]
  PROVE  \E q \in Request : GoesOn(r, q) /\ q.saw = NameIn(anomaly.by)
<1> DEFINE q == [req[r] EXCEPT !.state = "loaded", !.saw = NameIn(anomaly.by)]
<1>1. req[r] \in Request /\ ReqInv
  BY Numbers DEF ApiInv
<1>2. q \in Request
  BY <1>1, NameTyped DEF Request
<1>3. /\ q.op = req[r].op /\ q.arg = req[r].arg
      /\ q.state = "loaded" /\ q.status = req[r].status /\ q.saw = NameIn(anomaly.by)
      /\ q.wrote = req[r].wrote
  BY <1>1 DEF Request
<1>4. req' = [req EXCEPT ![r] = q]
  BY <1>1
<1> HIDE DEF q
<1>. QED
  BY <1>1, <1>2, <1>3, <1>4, ChangeEffect DEF GoesOn

-----------------------------------------------------------------------------
\* The steps of the API, by what they do to the requests and the rows.
Answers(r, status) ==
  /\ req[r].state # "done"
  /\ \E q \in Request :
       /\ Changes(r, q)
       /\ q.op = req[r].op /\ q.arg = req[r].arg
       /\ q.state = "done" /\ q.status = status /\ q.saw = NoName
       /\ q.wrote = req[r].wrote

\* A request's commit is applied.
Writes(r) ==
  /\ req[r].state = "loaded"
  /\ \E q \in Request :
       /\ Changes(r, q)
       /\ q.op = req[r].op /\ q.arg = req[r].arg /\ q.status = req[r].status
       /\ q.state = "committed" /\ q.wrote /\ q.saw = NoName

\* A client sends one.
NewRequest ==
  /\ \E q \in Request :
       /\ RequestOK(q) /\ q.state = "sent" /\ q.saw = NoName
       /\ req' = Append(req, q)
  /\ UNCHANGED <<anomaly, speakers>>

\* One is admitted, or loads its row.
Progress ==
  /\ \E r \in DOMAIN req, q \in Request :
       /\ GoesOn(r, q) /\ req[r].state \in {"sent", "admitted"}
       /\ q.saw = req[r].saw \/ q.saw = NameIn(anomaly.by)
  /\ UNCHANGED <<anomaly, speakers>>

\* One is answered, which writes nothing.
NoWrite ==
  /\ \E r \in DOMAIN req, status \in {"ok", "conflict", "refused"} :
       /\ Answers(r, status)
       /\ status = "ok" => req[r].state = "committed"
       /\ status = "conflict" => \E s \in speakers : req[s].arg = req[r].arg
  /\ UNCHANGED <<anomaly, speakers>>

\* One acknowledges the anomaly.
Acknowledges ==
  /\ \E r \in DOMAIN req :
       /\ Writes(r) /\ req[r].op = "acknowledge"
       /\ anomaly' = [by |-> IF req[r].saw = req[r].arg THEN anomaly.by ELSE r, at |-> r]
  /\ UNCHANGED speakers

\* One registers its hostname.
Registers ==
  /\ \E r \in DOMAIN req :
       /\ Writes(r) /\ req[r].op = "register"
       /\ \A s \in speakers : req[s].arg # req[r].arg
       /\ speakers' = speakers \cup {r}
  /\ UNCHANGED anomaly

\* A request that is sent is well formed.
LEMMA SendIsNew ==
  ASSUME ReqInv, NEW op \in {"acknowledge", "register"},
         NEW arg \in Name \cup Hostname, op = "acknowledge" => arg \in Name,
         NEW tok \in Token, Send(op, arg, tok)
  PROVE  NewRequest
<1> DEFINE q == [op |-> op, arg |-> arg, token |-> tok,
                 state |-> "sent", saw |-> NoName, wrote |-> FALSE, status |-> "none"]
<1>1. q \in Request /\ q.state = "sent" /\ q.saw = NoName /\ RequestOK(q)
  BY DEF Request, RequestOK
<1>2. req' = Append(req, q) /\ UNCHANGED <<anomaly, speakers>>
  BY DEF Send
<1> HIDE DEF q
<1>. QED
  BY <1>1, <1>2 DEF NewRequest

\* What the API does with a request is one of these.
LEMMA HandleSteps ==
  ASSUME ApiInv, NEW r \in DOMAIN req, Handle(r) \/ RequestFails(r)
  PROVE  Progress \/ NoWrite \/ Acknowledges \/ Registers
<1>1. ReqInv /\ req[r] \in Request
  BY Numbers DEF ApiInv
<1>2. CASE RequestFails(r)
  <2>1. Answers(r, "refused")
    BY <1>1, <1>2, AnswerEffect DEF RequestFails, Answers
  <2>. QED
    BY <1>2, <2>1 DEF RequestFails, NoWrite
<1>3. CASE Admit(r)
  <2>1. req[r].state = "sent" /\ UNCHANGED <<anomaly, speakers>>
    BY <1>3 DEF Admit
  <2>2. CASE Pass(r)
    BY <1>1, <2>1, <2>2, PassEffect DEF Progress
  <2>3. CASE Answer(r, "refused")
    <3>1. Answers(r, "refused")
      BY <1>1, <2>1, <2>3, AnswerEffect DEF Answers
    <3>. QED
      BY <2>1, <3>1 DEF NoWrite
  <2>. QED
    BY <1>3, <2>2, <2>3 DEF Admit
<1>4. CASE Load(r)
  <2>1. req[r].state = "admitted" /\ UNCHANGED <<anomaly, speakers>>
    BY <1>4 DEF Load
  <2>2. CASE /\ \E s \in speakers : req[s].arg = req[r].arg
             /\ Answer(r, "conflict")
    <3>1. Answers(r, "conflict")
      BY <1>1, <2>1, <2>2, AnswerEffect DEF Answers
    <3>. QED
      BY <2>1, <2>2, <3>1 DEF NoWrite
  <2>3. CASE req' = [req EXCEPT ![r].state = "loaded", ![r].saw = NameIn(anomaly.by)]
    BY <2>1, <2>3, LoadEffect DEF Progress
  <2>. QED
    BY <1>4, <2>2, <2>3 DEF Load
<1>5. CASE Commit(r) /\ req[r].op # "register"
  <2>1. req[r].op = "acknowledge" /\ req[r].state = "loaded" /\ Acknowledge(r)
    BY <1>1, <1>5 DEF Commit, Request
  <2>2. Writes(r)
    BY <1>1, <2>1, WrittenEffect DEF Writes, Acknowledge
  <2>. QED
    BY <2>1, <2>2 DEF Acknowledges, Acknowledge
<1>6. CASE Commit(r) /\ req[r].op = "register"
  <2>1. req[r].state = "loaded" /\ Register(r)
    BY <1>6 DEF Commit
  <2>2. CASE Answer(r, "refused") /\ UNCHANGED speakers
    <3>1. Answers(r, "refused")
      BY <1>1, <2>1, <2>2, AnswerEffect DEF Answers
    <3>. QED
      BY <2>1, <2>2, <3>1 DEF NoWrite, Register
  <2>3. CASE /\ \A s \in speakers : req[s].arg # req[r].arg
             /\ Written(r) /\ speakers' = speakers \cup {r}
    <3>1. Writes(r)
      BY <1>1, <2>1, <2>3, WrittenEffect DEF Writes
    <3>. QED
      BY <1>6, <2>1, <2>3, <3>1 DEF Registers, Register
  <2>. QED
    BY <2>1, <2>2, <2>3 DEF Register
<1>7. CASE Respond(r)
  <2>1. Answers(r, "ok")
    BY <1>1, <1>7, AnswerEffect DEF Respond, Answers
  <2>. QED
    BY <1>7, <2>1 DEF Respond, NoWrite
<1>. QED
  BY <1>2, <1>3, <1>4, <1>5, <1>6, <1>7 DEF Handle

\* The sessions of the dashboard and their client.
SessionStates == {"page", "clicked", "listed", "login", "waiting"}

SessionRecord == [state : SessionStates,
                  shows : {"button", "acknowledged", "gone", "error"},
                  request : Nat, late : BOOLEAN]

ClientTyped == token \in Token /\ session \in [Session -> SessionRecord]

\* A posted acknowledgement is a new request.
LEMMA PostIsNew ==
  ASSUME ReqInv, NEW s \in Session, Post(s), token' \in Token
  PROVE  NewRequest
<1>1. DashboardUser \in Name
  BY DashboardAssumption DEF DashboardAssumption
<1>. QED
  BY <1>1, SendIsNew DEF Post

\* Every step of the system, by what it does to the API.
LEMMA ApiSteps ==
  ASSUME ApiInv, ClientTyped, [Next]_vars
  PROVE  \/ UNCHANGED <<req, anomaly, speakers>>
         \/ NewRequest \/ Progress \/ NoWrite \/ Acknowledges \/ Registers
<1>1. CASE UNCHANGED vars \/ (Tick /\ UNCHANGED clientVars) \/ RestartDashboard
  BY <1>1 DEF vars, apiVars, Tick, RestartDashboard
<1>2. CASE UserAcknowledges
  BY <1>2, SendIsNew, Tokens DEF UserAcknowledges, ApiInv, ReqInv
<1>3. CASE UserRegisters
  BY <1>3, SendIsNew, Tokens DEF UserRegisters, ApiInv, ReqInv
<1>4. CASE \E r \in DOMAIN req : Handle(r) \/ RequestFails(r)
  BY <1>4, HandleSteps
<1>5. ASSUME NEW s \in Session, Click(s) \/ Run(s) \/ Refresh(s) \/ CallFails(s)
      PROVE  UNCHANGED <<req, anomaly, speakers>> \/ NewRequest
  <2>1. CASE \/ Click(s) \/ List(s) \/ NeedsLogin(s) \/ ReadAnswer(s) \/ Refresh(s)
             \/ CallFails(s)
    BY <2>1 DEF Click, List, NeedsLogin, ReadAnswer, Refresh, CallFails, apiVars
  <2>2. CASE Login(s)
    BY <2>2, PostIsNew, Tokens DEF Login, ApiInv, ReqInv
  <2>3. CASE PostWithToken(s)
    BY <2>3, PostIsNew DEF PostWithToken, ClientTyped, ApiInv
  <2>. QED
    BY <1>5, <2>1, <2>2, <2>3 DEF Run
<1>. QED
  BY <1>1, <1>2, <1>3, <1>4, <1>5 DEF Next, ApiStep

-----------------------------------------------------------------------------
\* A request that is sent leaves the others alone.
LEMMA NewRequestEffect ==
  ASSUME ReqInv, NewRequest
  PROVE  /\ \E q \in Request : /\ RequestOK(q) /\ q.state = "sent" /\ q.saw = NoName
                               /\ req'[Len(req) + 1] = q
         /\ req' \in Seq(Request) /\ DOMAIN req' = DOMAIN req \cup {Len(req) + 1}
         /\ Len(req) + 1 \notin DOMAIN req
         /\ \A r \in DOMAIN req : req'[r] = req[r]
         /\ UNCHANGED <<anomaly, speakers>>
<1>1. PICK q \in Request : /\ RequestOK(q) /\ q.state = "sent" /\ q.saw = NoName
                           /\ req' = Append(req, q)
  BY DEF NewRequest
<1>2. req \in Seq(Request) /\ Len(req) \in Nat /\ DOMAIN req = 1..Len(req)
  BY Numbers DEF ReqInv
<1>3. /\ req' \in Seq(Request) /\ DOMAIN req' = 1..(Len(req) + 1)
      /\ req'[Len(req) + 1] = q /\ \A r \in 1..Len(req) : req'[r] = req[r]
  BY <1>1, <1>2
<1>. QED
  BY <1>1, <1>2, <1>3 DEF NewRequest

\* What was asked stays what it was, and an answer is final.
LEMMA RequestsStay ==
  ASSUME ApiInv, ClientTyped, [Next]_vars, NEW r \in DOMAIN req
  PROVE  /\ r \in DOMAIN req' /\ req'[r].op = req[r].op /\ req'[r].arg = req[r].arg
         /\ req[r].state = "done" => req'[r].status = req[r].status
         /\ req[r].status = "ok" => req'[r].status = "ok"
         /\ req[r].wrote => req'[r].wrote
<1>1. req[r].status = "ok" => req[r].state = "done"
  BY Numbers DEF ApiInv, ReqInv, RequestOK, Request
<1>2. CASE UNCHANGED req
  BY <1>2
<1>3. CASE NewRequest
  BY <1>3, NewRequestEffect DEF ApiInv
<1>4. CASE Progress
  BY <1>1, <1>4 DEF Progress, GoesOn, Changes
<1>5. CASE NoWrite
  BY <1>1, <1>5 DEF NoWrite, Answers, Changes
<1>6. CASE Acknowledges
  BY <1>1, <1>6 DEF Acknowledges, Writes, Changes
<1>7. CASE Registers
  BY <1>1, <1>7 DEF Registers, Writes, Changes
<1>. QED
  BY <1>2, <1>3, <1>4, <1>5, <1>6, <1>7, ApiSteps

\* Acknowledgements that were committed stay so, and one is added by an
\* acknowledgement only.
LEMMA AcksStay ==
  ASSUME ApiInv, ClientTyped, [Next]_vars
  PROVE  /\ Acks \subseteq Acks'
         /\ Acks' # Acks => Acknowledges
<1>1. Acks \subseteq Acks'
  BY RequestsStay DEF Acks
<1>2. CASE UNCHANGED req
  BY <1>2 DEF Acks
<1>3. CASE NewRequest
  <2>1. Len(req) + 1 \notin Acks'
    BY <1>3, NewRequestEffect DEF ApiInv, RequestOK, Acks
  <2>. QED
    BY <1>1, <1>3, <2>1, NewRequestEffect DEF ApiInv, Acks
<1>4. CASE Progress
  BY <1>1, <1>4 DEF Progress, GoesOn, Changes, Acks
<1>5. CASE NoWrite
  BY <1>1, <1>5 DEF NoWrite, Answers, Changes, Acks
<1>6. CASE Registers
  BY <1>1, <1>6 DEF Registers, Writes, Changes, Acks
<1>. QED
  BY <1>1, <1>2, <1>3, <1>4, <1>5, <1>6, ApiSteps

\* The one that is added is the one that is committed.
LEMMA AckAdded ==
  ASSUME ReqInv, NEW r \in DOMAIN req, Writes(r), req[r].op = "acknowledge"
  PROVE  Acks' = Acks \cup {r} /\ r \notin Acks /\ req'[r].arg = req[r].arg
<1>1. ~req[r].wrote
  BY DEF Writes, ReqInv, RequestOK
<1>. QED
  BY <1>1 DEF Writes, Changes, Acks

\* A well-formed request stays so.
LEMMA ReqInvStep ==
  ASSUME ApiInv, ClientTyped, [Next]_vars
  PROVE  ReqInv'
<1>1. now' \in Nat
  <2>1. now' = now \/ now' = now + 1
    BY DEF Next, vars, apiVars, Tick, UserAcknowledges, UserRegisters, Send, ApiStep,
           Handle, Admit, Load, Commit, Register, Acknowledge, Respond, RequestFails,
           Click, Run, List, NeedsLogin, Login, PostWithToken, Post, ReadAnswer,
           Refresh, CallFails, RestartDashboard
  <2>. QED
    BY <2>1 DEF ApiInv, ReqInv
<1>2. ReqInv /\ \A r \in DOMAIN req : RequestOK(req[r])
  BY DEF ApiInv, ReqInv
<1>3. CASE UNCHANGED req
  BY <1>1, <1>2, <1>3 DEF ReqInv
<1>4. CASE NewRequest
  BY <1>1, <1>2, <1>4, NewRequestEffect DEF ReqInv
<1>5. CASE Progress
  <2>1. PICK r \in DOMAIN req, q \in Request :
          GoesOn(r, q) /\ req[r].state \in {"sent", "admitted"}
    BY <1>5 DEF Progress
  <2>2. RequestOK(q)
    BY <1>2, <2>1 DEF GoesOn, RequestOK
  <2>. QED
    BY <1>1, <1>2, <2>1, <2>2 DEF GoesOn, Changes, ReqInv
<1>6. CASE NoWrite
  <2>1. PICK r \in DOMAIN req, status \in {"ok", "conflict", "refused"} :
          Answers(r, status) /\ (status = "ok" => req[r].state = "committed")
    BY <1>6 DEF NoWrite
  <2>2. PICK q \in Request : /\ Changes(r, q)
                             /\ q.op = req[r].op /\ q.arg = req[r].arg
                             /\ q.state = "done" /\ q.status = status
                             /\ q.wrote = req[r].wrote
    BY <2>1 DEF Answers
  <2>3. RequestOK(q)
    BY <1>2, <2>1, <2>2 DEF RequestOK
  <2>. QED
    BY <1>1, <1>2, <2>2, <2>3 DEF Changes, ReqInv
<1>7. ASSUME NEW r \in DOMAIN req, Writes(r) PROVE ReqInv'
  <2>1. PICK q \in Request : /\ Changes(r, q)
                             /\ q.op = req[r].op /\ q.arg = req[r].arg
                             /\ q.status = req[r].status
                             /\ q.state = "committed" /\ q.wrote
    BY <1>7 DEF Writes
  <2>2. RequestOK(q)
    BY <1>2, <1>7, <2>1 DEF RequestOK, Writes
  <2>. QED
    BY <1>1, <1>2, <2>1, <2>2 DEF Changes, ReqInv
<1>. QED
  BY <1>3, <1>4, <1>5, <1>6, <1>7, ApiSteps DEF Acknowledges, Registers

\* Rows hold what was committed, and handlers what they loaded of it.
LEMMA AnomalyInvStep ==
  ASSUME ApiInv, ClientTyped, [Next]_vars
  PROVE  AnomalyInv'
<1>1. /\ Acks \subseteq Acks'
      /\ \A k \in Acks : k \in DOMAIN req /\ req'[k].arg = req[k].arg
  BY AcksStay, RequestsStay DEF Acks
<1>2. AnomalyInv /\ ReqInv
  BY DEF ApiInv
<1>3. anomaly.by' \in Acks' \cup {0} /\ anomaly.at' \in Acks' \cup {0}
  <2>1. CASE UNCHANGED anomaly
    BY <1>1, <1>2, <2>1 DEF AnomalyInv
  <2>2. CASE Acknowledges
    <3>1. PICK r \in DOMAIN req :
            /\ Writes(r) /\ req[r].op = "acknowledge"
            /\ anomaly' = [by |-> IF req[r].saw = req[r].arg THEN anomaly.by ELSE r,
                           at |-> r]
      BY <2>2 DEF Acknowledges
    <3>2. r \in Acks'
      BY <1>2, <3>1, AckAdded
    <3>. QED
      BY <1>1, <1>2, <3>1, <3>2 DEF AnomalyInv
  <2>. QED
    BY <2>1, <2>2, ApiSteps DEF NewRequest, Progress, NoWrite, Registers
<1>4. ASSUME NEW r \in DOMAIN req', req'[r].saw # NoName
      PROVE  \E k \in Acks : req[k].arg = req'[r].saw
  <2>1. CASE r \in DOMAIN req /\ req'[r].saw = req[r].saw
    BY <1>2, <1>4, <2>1 DEF AnomalyInv
  <2>2. CASE req'[r].saw = NameIn(anomaly.by)
    BY <1>4, <2>2, NameTyped
  <2>3. \/ r \in DOMAIN req /\ req'[r].saw = req[r].saw
        \/ req'[r].saw = NameIn(anomaly.by) \/ req'[r].saw = NoName
    <3>1. CASE UNCHANGED req
      BY <3>1
    <3>2. CASE NewRequest
      BY <1>2, <3>2, NewRequestEffect
    <3>3. CASE Progress
      BY <3>3 DEF Progress, GoesOn, Changes
    <3>4. CASE NoWrite \/ Acknowledges \/ Registers
      BY <3>4 DEF NoWrite, Acknowledges, Registers, Answers, Writes, Changes
    <3>. QED
      BY <3>1, <3>2, <3>3, <3>4, ApiSteps
  <2>. QED
    BY <1>4, <2>1, <2>2, <2>3
<1>. QED
  BY <1>1, <1>3, <1>4 DEF AnomalyInv

\* Rows of speakers belong to the requests that inserted them.
LEMMA SpeakersInvStep ==
  ASSUME ApiInv, ClientTyped, [Next]_vars
  PROVE  SpeakersInv'
<1>1. /\ ReqInv /\ SpeakersInv
      /\ \A s \in speakers : s \in DOMAIN req' /\ req'[s].op = "register"
      /\ \A r \in DOMAIN req : req'[r].op = req[r].op
  BY RequestsStay DEF ApiInv, SpeakersInv
<1>2. ASSUME UNCHANGED speakers,
             \A r \in DOMAIN req' : r \in DOMAIN req /\ req'[r].wrote = req[r].wrote
      PROVE  SpeakersInv'
  BY <1>1, <1>2 DEF SpeakersInv
<1>3. CASE UNCHANGED <<req, anomaly, speakers>>
  BY <1>2, <1>3
<1>4. CASE NewRequest
  <2>1. /\ ~req'[Len(req) + 1].wrote /\ UNCHANGED speakers
        /\ \A r \in DOMAIN req' : r = Len(req) + 1 \/ (r \in DOMAIN req /\ req'[r] = req[r])
    BY <1>1, <1>4, NewRequestEffect DEF RequestOK
  <2>. QED
    BY <1>1, <2>1 DEF SpeakersInv
<1>5. CASE Progress
  BY <1>2, <1>5 DEF Progress, GoesOn, Changes
<1>6. CASE NoWrite
  BY <1>2, <1>6 DEF NoWrite, Answers, Changes
<1>7. CASE Acknowledges
  <2>1. PICK r \in DOMAIN req : Writes(r) /\ req[r].op = "acknowledge" /\ UNCHANGED speakers
    BY <1>7 DEF Acknowledges
  <2>2. /\ DOMAIN req' = DOMAIN req /\ req'[r].op # "register"
        /\ \A k \in DOMAIN req : k # r => req'[k] = req[k]
    BY <2>1 DEF Writes, Changes
  <2>. QED
    BY <1>1, <2>1, <2>2 DEF SpeakersInv
<1>8. CASE Registers
  <2>1. PICK r \in DOMAIN req : /\ Writes(r) /\ req[r].op = "register"
                                /\ speakers' = speakers \cup {r}
    BY <1>8 DEF Registers
  <2>2. /\ DOMAIN req' = DOMAIN req /\ req'[r].op = "register"
        /\ \A k \in DOMAIN req : k # r => req'[k] = req[k]
    BY <2>1 DEF Writes, Changes
  <2>. QED
    BY <1>1, <2>1, <2>2 DEF SpeakersInv
<1>. QED
  BY <1>3, <1>4, <1>5, <1>6, <1>7, <1>8, ApiSteps

-----------------------------------------------------------------------------
\* The sessions.  A posted request is an acknowledgement by the dashboard; what a
\* page shows of it was so when its answer was read, and a success was committed; and a session that got as far
\* as its list was clicked when nobody had acknowledged the anomaly.
SessionInv(s) ==
  /\ session[s].state = "waiting" \/ session[s].shows = "acknowledged" =>
       /\ session[s].request \in DOMAIN req
       /\ req[session[s].request].op = "acknowledge"
       /\ req[session[s].request].arg = DashboardUser
  /\ session[s].shows = "acknowledged" => req[session[s].request].status = "ok"
  /\ session[s].late => Acknowledged
  /\ session[s].state \in {"listed", "login", "waiting"} => ~session[s].late
  /\ session[s].state # "page" => session[s].shows = "button"

ClientInv == ClientTyped /\ \A s \in Session : SessionInv(s)

\* It stays acknowledged.
LEMMA AcknowledgedStays ==
  ASSUME ApiInv, ClientTyped, [Next]_vars, Acknowledged
  PROVE  Acknowledged'
<1>1. CASE UNCHANGED anomaly
  BY <1>1 DEF Acknowledged
<1>2. CASE Acknowledges
  BY <1>2, Numbers DEF Acknowledges, Acknowledged, ApiInv
<1>. QED
  BY <1>1, <1>2, ApiSteps DEF NewRequest, Progress, NoWrite, Registers

\* A step that leaves a session alone keeps what is said of it.
LEMMA SessionStays ==
  ASSUME ApiInv, ClientTyped, [Next]_vars, NEW s \in Session, SessionInv(s),
         session'[s] = session[s]
  PROVE  SessionInv(s)'
<1>1. Acks \subseteq Acks'
  BY AcksStay
<1>2. session[s].request \in DOMAIN req =>
        /\ session[s].request \in DOMAIN req'
        /\ req'[session[s].request].op = req[session[s].request].op
        /\ req'[session[s].request].arg = req[session[s].request].arg
        /\ req[session[s].request].status = "ok" => req'[session[s].request].status = "ok"
  BY RequestsStay
<1>. QED
  BY <1>1, <1>2, AcknowledgedStays DEF SessionInv

\* One session changes, within its type.
LEMMA SessionStep ==
  ASSUME ApiInv, ClientInv, [Next]_vars, NEW s \in Session, NEW r \in SessionRecord,
         session' = [session EXCEPT ![s] = r], token' \in Token,
         session'[s] = r => SessionInv(s)'
  PROVE  ClientInv'
<1>1. session' \in [Session -> SessionRecord] /\ session'[s] = r
  BY DEF ClientInv, ClientTyped
<1>2. \A u \in Session : u # s => session'[u] = session[u]
  BY DEF ClientInv, ClientTyped
<1>3. \A u \in Session : SessionInv(u)'
  BY <1>1, <1>2, SessionStays DEF ClientInv
<1>. QED
  BY <1>1, <1>3 DEF ClientInv, ClientTyped

\* A session that goes on or ends, by what its page then shows.
LEMMA ScriptStep ==
  ASSUME ApiInv, ClientInv, [Next]_vars, NEW s \in Session,
         \/ Click(s) \/ List(s) \/ NeedsLogin(s) \/ ReadAnswer(s) \/ Refresh(s)
         \/ CallFails(s)
  PROVE  ClientInv'
<1>1. /\ session[s] \in SessionRecord /\ session \in [Session -> SessionRecord]
      /\ SessionInv(s) /\ token \in Token
  BY DEF ClientInv, ClientTyped
<1>2. token' \in Token /\ UNCHANGED <<req, anomaly>>
  BY <1>1 DEF Click, List, NeedsLogin, ReadAnswer, Refresh, CallFails, apiVars
<1>3. UNCHANGED Acks /\ Acknowledged' = Acknowledged
  BY <1>2 DEF Acks, Acknowledged
<1>4. CASE Click(s)
  <2> DEFINE r == [state |-> "clicked", shows |-> "button", request |-> 0,
                   late |-> Acknowledged]
  <2>1. r \in SessionRecord /\ session' = [session EXCEPT ![s] = r]
    BY <1>4 DEF Click, SessionRecord, SessionStates, Acknowledged
  <2>2. ASSUME session'[s] = r PROVE SessionInv(s)'
    BY <1>3, <2>2 DEF SessionInv
  <2> HIDE DEF r
  <2>. QED
    BY <1>2, <2>1, <2>2, SessionStep
<1>5. ASSUME NEW st \in {"listed", "login"}, Goto(s, st),
             \/ session[s].state = "clicked" /\ ~Acknowledged
             \/ session[s].state = "listed"
      PROVE  ClientInv'
  <2> DEFINE r == [session[s] EXCEPT !.state = st]
  <2>1. session' = [session EXCEPT ![s].state = st]
    BY <1>5 DEF Goto
  <2>2. session' = [session EXCEPT ![s] = r]
    BY <1>1, <2>1
  <2>3. r \in SessionRecord /\ r.state = st /\ r.shows = session[s].shows
        /\ r.request = session[s].request /\ r.late = session[s].late
    BY <1>1 DEF SessionRecord, SessionStates
  <2>4. ~session[s].late /\ session[s].shows = "button"
    BY <1>1, <1>5 DEF SessionInv
  <2>5. ASSUME session'[s] = r PROVE SessionInv(s)'
    BY <1>1, <1>2, <1>3, <2>3, <2>4, <2>5 DEF SessionInv
  <2> HIDE DEF r
  <2>. QED
    BY <1>2, <2>2, <2>3, <2>5, SessionStep
<1>6. ASSUME NEW what \in {"acknowledged", "gone", "error"}, Show(s, what),
             what = "acknowledged" =>
               session[s].state = "waiting" /\ req[session[s].request].status = "ok"
      PROVE  ClientInv'
  <2> DEFINE r == [session[s] EXCEPT !.state = "page", !.shows = what, !.late = FALSE]
  <2>1. session' = [session EXCEPT ![s] = r]
    BY <1>1, <1>6 DEF Show
  <2>2. r \in SessionRecord /\ r.state = "page" /\ r.shows = what
        /\ r.request = session[s].request /\ r.late = FALSE
    BY <1>1 DEF SessionRecord, SessionStates
  <2>3. ASSUME session'[s] = r PROVE SessionInv(s)'
    BY <1>1, <1>2, <1>3, <1>6, <2>2, <2>3 DEF SessionInv
  <2> HIDE DEF r
  <2>. QED
    BY <1>2, <2>1, <2>2, <2>3, SessionStep
<1>7. CASE List(s) \/ NeedsLogin(s)
  BY <1>5, <1>6, <1>7 DEF List, NeedsLogin
<1>8. CASE ReadAnswer(s)
  BY <1>6, <1>8 DEF ReadAnswer
<1>9. CASE CallFails(s)
  BY <1>6, <1>9 DEF CallFails
<1>10. CASE Refresh(s)
  <2>1. PICK shows \in {"button", "gone"} :
          session' = [session EXCEPT ![s] = [NewSession EXCEPT !.shows = shows]]
    BY <1>10 DEF Refresh
  <2> DEFINE r == [NewSession EXCEPT !.shows = shows]
  <2>2. /\ r \in SessionRecord /\ r.state = "page" /\ r.shows = shows /\ r.late = FALSE
        /\ session' = [session EXCEPT ![s] = r]
    BY <2>1 DEF NewSession, SessionRecord, SessionStates
  <2>3. ASSUME session'[s] = r PROVE SessionInv(s)'
    BY <2>2, <2>3 DEF SessionInv
  <2> HIDE DEF r
  <2>. QED
    BY <1>2, <2>2, <2>3, SessionStep
<1>. QED
  BY <1>4, <1>7, <1>8, <1>9, <1>10

\* A session that posts waits for a request of its own.
LEMMA PostStep ==
  ASSUME ApiInv, ClientInv, [Next]_vars, NEW s \in Session, Post(s), token' \in Token,
         session[s].state \in {"listed", "login"}
  PROVE  ClientInv'
<1>1. /\ session[s] \in SessionRecord /\ session \in [Session -> SessionRecord]
      /\ SessionInv(s)
  BY DEF ClientInv, ClientTyped
<1>2. /\ req \in Seq(Request) /\ Len(req) \in Nat
      /\ req' = Append(req, [op |-> "acknowledge", arg |-> DashboardUser,
                             token |-> token', state |-> "sent", saw |-> NoName,
                             wrote |-> FALSE, status |-> "none"])
  BY Numbers DEF Post, Send, ApiInv, ReqInv
<1>3. /\ Len(req) + 1 \in DOMAIN req' /\ req'[Len(req) + 1].op = "acknowledge"
      /\ req'[Len(req) + 1].arg = DashboardUser
  BY <1>2
<1> DEFINE n == Len(req) + 1
           r == [session[s] EXCEPT !.state = "waiting", !.request = n]
<1>4. session' = [session EXCEPT ![s] = r]
  BY <1>1 DEF Post
<1>5. n \in Nat
  BY <1>2
<1>6. n \in DOMAIN req' /\ req'[n].op = "acknowledge" /\ req'[n].arg = DashboardUser
  BY <1>3
<1>7. ~session[s].late /\ session[s].shows = "button"
  BY <1>1 DEF SessionInv
<1> HIDE DEF n
<1>8. /\ r \in SessionRecord /\ r.state = "waiting" /\ r.shows = "button"
      /\ r.request = n /\ ~r.late
  BY <1>1, <1>5, <1>7 DEF SessionRecord, SessionStates
<1> HIDE DEF r
<1>9. ASSUME session'[s] = r PROVE SessionInv(s)'
  BY <1>6, <1>8, <1>9 DEF SessionInv
<1>. QED
  BY <1>4, <1>8, <1>9, SessionStep

\* The dashboard starts anew, or nothing of it changes.
LEMMA ClientStays ==
  ASSUME ApiInv, ClientInv, [Next]_vars, RestartDashboard \/ UNCHANGED clientVars
  PROVE  ClientInv'
<1>1. CASE UNCHANGED clientVars
  BY <1>1, SessionStays DEF ClientInv, ClientTyped, clientVars
<1>2. CASE RestartDashboard
  <2>1. NewSession \in SessionRecord
    BY DEF NewSession, SessionRecord, SessionStates
  <2>2. ClientTyped'
    BY <1>2, <2>1, Tokens DEF RestartDashboard, ClientTyped
  <2>3. ASSUME NEW s \in Session PROVE SessionInv(s)'
    <3>1. session'[s] = NewSession
      BY <1>2 DEF RestartDashboard
    <3>. QED
      BY <3>1 DEF SessionInv, NewSession
  <2>. QED
    BY <2>2, <2>3 DEF ClientInv
<1>. QED
  BY <1>1, <1>2

\* Requests, rows and sessions agree throughout.
Inv == ApiInv /\ ClientInv

\* It holds in every reachable state: no request, answer or restart of the dashboard breaks it.
THEOREM Invariance == Spec => []Inv
<1>1. Init => Inv
  <2> SUFFICES ASSUME Init PROVE Inv
    OBVIOUS
  <2>1. ReqInv
    BY DEF Init, ApiInit, ReqInv
  <2>2. AnomalyInv /\ SpeakersInv
    BY DEF Init, ApiInit, AnomalyInv, SpeakersInv
  <2>3. ClientTyped
    BY Tokens DEF Init, ClientTyped, NewSession, SessionRecord, SessionStates
  <2>4. \A s \in Session : SessionInv(s)
    BY DEF Init, SessionInv, NewSession
  <2>. QED
    BY <2>1, <2>2, <2>3, <2>4 DEF Inv, ApiInv, ClientInv
<1>2. Inv /\ [Next]_vars => Inv'
  <2> SUFFICES ASSUME Inv, [Next]_vars PROVE Inv'
    OBVIOUS
  <2>0. ApiInv /\ ClientInv /\ ClientTyped
    BY DEF Inv, ClientInv
  <2>1. ApiInv'
    BY <2>0, ReqInvStep, AnomalyInvStep, SpeakersInvStep DEF ApiInv
  <2>2. CASE UNCHANGED clientVars \/ RestartDashboard
    BY <2>0, <2>1, <2>2, ClientStays DEF Inv
  <2>3. ASSUME NEW s \in Session, Click(s) \/ Run(s) \/ Refresh(s) \/ CallFails(s)
        PROVE  ClientInv'
    <3>1. CASE Login(s)
      <4>1. /\ Post(s) /\ session[s].state = "login" /\ token' \in Token
        BY <2>0, <3>1, Tokens DEF Login, ApiInv, ReqInv
      <4>. QED
        BY <2>0, <4>1, PostStep
    <3>2. CASE PostWithToken(s)
      <4>1. /\ Post(s) /\ session[s].state = "listed" /\ token' \in Token
        BY <2>0, <3>2 DEF PostWithToken, ClientTyped
      <4>. QED
        BY <2>0, <4>1, PostStep
    <3>. QED
      BY <2>0, <2>3, <3>1, <3>2, ScriptStep DEF Run
  <2>4. \/ UNCHANGED clientVars \/ RestartDashboard
        \/ \E s \in Session : Click(s) \/ Run(s) \/ Refresh(s) \/ CallFails(s)
    BY DEF Next, vars
  <2>. QED
    BY <2>0, <2>1, <2>2, <2>3, <2>4 DEF Inv
<1>. QED
  BY <1>1, <1>2, PTL DEF Spec

-----------------------------------------------------------------------------
\* What the API promises.

\* A hostname gets one row, and a success or a conflict is told only of a row that is
\* there, however the processes of the API overlap between query and commit and
\* whatever fails after the commit (register_speaker).
THEOREM OneRegistrationWins == Spec => []OneWinnerPerHostname
<1>1. Init => OneWinnerPerHostname
  BY DEF Init, ApiInit, OneWinnerPerHostname
<1>2. Inv /\ Inv' /\ OneWinnerPerHostname /\ [Next]_vars => OneWinnerPerHostname'
  <2> SUFFICES ASSUME Inv, Inv', OneWinnerPerHostname, [Next]_vars
               PROVE  OneWinnerPerHostname'
    OBVIOUS
  <2>0. /\ ApiInv /\ ClientTyped /\ ReqInv
        /\ \A s \in speakers : s \in DOMAIN req
    BY DEF Inv, ClientInv, ApiInv, SpeakersInv
  <2>1. \A r \in DOMAIN req : /\ r \in DOMAIN req' /\ req'[r].arg = req[r].arg
                              /\ req'[r].op = req[r].op
    BY <2>0, RequestsStay
  <2>2. /\ speakers \subseteq speakers'
        /\ \A r, s \in speakers' : req'[r].arg = req'[s].arg => r = s
    <3>1. CASE UNCHANGED speakers
      BY <2>0, <2>1, <3>1 DEF OneWinnerPerHostname
    <3>2. CASE Registers
      <4>1. PICK r \in DOMAIN req : /\ \A s \in speakers : req[s].arg # req[r].arg
                                    /\ speakers' = speakers \cup {r}
        BY <3>2 DEF Registers
      <4>. QED
        BY <2>0, <2>1, <4>1 DEF OneWinnerPerHostname
    <3>. QED
      BY <2>0, <3>1, <3>2, ApiSteps DEF NewRequest, Progress, NoWrite, Acknowledges
  <2>3. ASSUME NEW r \in DOMAIN req', req'[r].op = "register", req'[r].status = "ok"
        PROVE  r \in speakers'
    <3>1. ReqInv' /\ SpeakersInv'
      BY DEF Inv, ApiInv
    <3>. QED
      BY <2>3, <3>1 DEF ReqInv, RequestOK, SpeakersInv
  <2>4. ASSUME NEW r \in DOMAIN req', req'[r].op = "register", req'[r].status = "conflict"
        PROVE  \E s \in speakers' : req'[s].arg = req'[r].arg
    <3>1. SUFFICES \E s \in speakers : r \in DOMAIN req /\ req[s].arg = req[r].arg
      BY <2>0, <2>1, <2>2
    <3>2. CASE r \in DOMAIN req /\ req'[r].status = req[r].status
      BY <2>1, <2>4, <3>2 DEF OneWinnerPerHostname
    <3>3. CASE NoWrite
      <4>1. PICK k \in DOMAIN req, status \in {"ok", "conflict", "refused"} :
              /\ Answers(k, status)
              /\ status = "conflict" => \E s \in speakers : req[s].arg = req[k].arg
        BY <3>3 DEF NoWrite
      <4>2. /\ r \in DOMAIN req /\ req'[k].status = status
            /\ \A m \in DOMAIN req : m # k => req'[m] = req[m]
        BY <4>1 DEF Answers, Changes
      <4>. QED
        BY <2>4, <3>2, <4>1, <4>2
    <3>4. CASE UNCHANGED <<req, anomaly, speakers>>
      BY <3>2, <3>4
    <3>5. CASE NewRequest
      <4>1. req'[Len(req) + 1].status = "none"
        BY <2>0, <3>5, NewRequestEffect DEF RequestOK
      <4>2. r = Len(req) + 1 \/ (r \in DOMAIN req /\ req'[r] = req[r])
        BY <2>0, <3>5, NewRequestEffect
      <4>. QED
        BY <2>4, <3>2, <4>1, <4>2
    <3>6. CASE Progress \/ Acknowledges \/ Registers
      <4>1. r \in DOMAIN req /\ req'[r].status = req[r].status
        BY <3>6 DEF Progress, GoesOn, Acknowledges, Registers, Writes, Changes
      <4>. QED
        BY <3>2, <4>1
    <3>. QED
      BY <2>0, <3>3, <3>4, <3>5, <3>6, ApiSteps
  <2>. QED
    BY <2>2, <2>3, <2>4 DEF OneWinnerPerHostname
<1>. QED
  BY <1>1, <1>2, Invariance, PTL DEF Spec

\* Name and time of the acknowledgement come from different people only when a
\* third wrote in between: an acknowledgement that leaves the name out loaded that
\* name, so somebody had written it before (acknowledge_anomaly in two processes).
THEOREM MixedByThree == Spec => []MixedOnlyAfterThree
<1>1. Init => MixedOnlyAfterThree
  BY DEF Init, ApiInit, MixedOnlyAfterThree, NameIn
<1>2. Inv /\ MixedOnlyAfterThree /\ [Next]_vars => MixedOnlyAfterThree'
  <2> SUFFICES ASSUME Inv, MixedOnlyAfterThree, [Next]_vars,
                      NameIn(anomaly.by)' # NameIn(anomaly.at)'
               PROVE  \E r \in Acks' \ {anomaly'.by, anomaly'.at} :
                        req'[r].arg = NameIn(anomaly.at)'
    BY DEF MixedOnlyAfterThree
  <2>0. ApiInv /\ ClientTyped /\ ReqInv /\ AnomalyInv
    BY DEF Inv, ClientInv, ApiInv
  <2>1. /\ Acks \subseteq Acks'
        /\ \A k \in Acks : req'[k].arg = req[k].arg
    BY <2>0, AcksStay, RequestsStay DEF Acks
  <2>2. /\ req'[anomaly.by].arg = req[anomaly.by].arg \/ anomaly.by = 0
        /\ req'[anomaly.at].arg = req[anomaly.at].arg \/ anomaly.at = 0
    BY <2>0, <2>1 DEF AnomalyInv
  <2>3. CASE UNCHANGED anomaly
    <3>1. /\ NameIn(anomaly.by)' = NameIn(anomaly.by)
          /\ NameIn(anomaly.at)' = NameIn(anomaly.at)
      BY <2>2, <2>3 DEF NameIn
    <3>. QED
      BY <2>1, <2>3, <3>1 DEF MixedOnlyAfterThree
  <2>4. CASE Acknowledges
    <3>1. PICK r \in DOMAIN req :
            /\ Writes(r) /\ req[r].op = "acknowledge"
            /\ anomaly' = [by |-> IF req[r].saw = req[r].arg THEN anomaly.by ELSE r,
                           at |-> r]
      BY <2>4 DEF Acknowledges
    <3>2. /\ r # 0 /\ req'[r].arg = req[r].arg /\ r \notin Acks
          /\ req[r].arg \in Name /\ req[r].arg # NoName
      BY <2>0, <3>1, AckAdded, Numbers, ApiAssumption DEF ReqInv, RequestOK, ApiAssumption
    <3>3. NameIn(anomaly.at)' = req[r].arg
      BY <3>1, <3>2 DEF NameIn
    <3>4. CASE req[r].saw # req[r].arg
      <4>1. anomaly'.by = r /\ anomaly'.at = r
        BY <3>1, <3>4
      <4>. QED
        BY <4>1
    <3>5. CASE req[r].saw = req[r].arg
      <4>1. anomaly'.by = anomaly.by /\ anomaly'.at = r
        BY <3>1, <3>5
      <4>2. PICK k \in Acks : req[k].arg = req[r].arg
        BY <2>0, <3>2, <3>5 DEF AnomalyInv
      <4>3. k # r /\ k # 0
        BY <2>0, <3>2, Numbers DEF Acks
      <4>4. k # anomaly.by
        BY <2>1, <3>3, <4>1, <4>2, <4>3 DEF NameIn
      <4>. QED
        BY <2>1, <3>3, <4>1, <4>2, <4>3, <4>4
    <3>. QED
      BY <3>4, <3>5
  <2>. QED
    BY <2>0, <2>3, <2>4, ApiSteps DEF NewRequest, Progress, NoWrite, Registers
<1>. QED
  BY <1>1, <1>2, Invariance, PTL DEF Spec

-----------------------------------------------------------------------------
\* What the dashboard promises.

\* The page shows Acknowledged only for an acknowledgement of its own that was
\* committed (render of the anomaly page and acknowledge_anomaly of its client).
THEOREM PageTellsTruth == Spec => []ShownOnlyIfAcknowledged
<1>1. Inv => ShownOnlyIfAcknowledged
  BY Numbers DEF Inv, ApiInv, ReqInv, RequestOK, ClientInv, SessionInv,
                 ShownOnlyIfAcknowledged, Acks, NameIn
<1>. QED
  BY <1>1, Invariance, PTL

\* A click never takes an anomaly away from whoever had acknowledged it before the
\* click: the script lists the anomalies anew and finds no button any more.
THEOREM OldAcknowledgementsStay == Spec => NeverStealsOld
<1>1. Inv => [\A s \in Session :
                LET r == session[s].request IN
                session[s].state = "waiting" /\ r \notin Acks /\ r \in Acks' =>
                  ~session[s].late]_vars
  BY DEF Inv, ClientInv, SessionInv
<1>. QED
  BY <1>1, Invariance, PTL DEF NeverStealsOld
=============================================================================
