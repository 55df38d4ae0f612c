-------------------------- MODULE BmpServer_proofs --------------------------
(***************************************************************************)
(* Safety of BmpServer for every set of processes, connections, routers    *)
(* and speakers, however addresses match, and for every bound on messages, *)
(* failures and restarts.                                                  *)
(***************************************************************************)
EXTENDS BmpServer, TLAPS

-----------------------------------------------------------------------------
\* Types, and the prefix of a connection's messages that is queued.

\* The last message that was read is queued.
LastIsQueued == \A c \in Conn : read[c] > 0 => <<c, read[c]>> \in queue

\* Only a registered speaker has ever been CONNECTED.
ConnectedAreRegistered == \A s \in Speaker : status[s] = "CONNECTED" => s \in speakers

MessageInv == TypeOK /\ NoGaps /\ LastIsQueued /\ ConnectedAreRegistered

\* The bounds are natural numbers.
LEMMA Bounds == MaxMessages \in Nat /\ MaxFailures \in Nat /\ MaxRestarts \in Nat
BY BoundsAssumption DEF BoundsAssumption

\* A row that gets a status is one of the registered rows that match.
LEMMA SetStatusEffect ==
  ASSUME TypeOK, NEW c \in Conn, NEW v \in {"CONNECTED", "DISCONNECTED"},
         SetStatus(Peer[c], v)
  PROVE  /\ status' \in [Speaker -> {"CONNECTED", "DISCONNECTED"}]
         /\ \/ UNCHANGED status /\ Matches[Peer[c]] \cap speakers = {}
            \/ \E s \in Matches[Peer[c]] \cap speakers :
                 \A r \in Speaker : status'[r] = IF r = s THEN v ELSE status[r]
<1>1. Matches[Peer[c]] \subseteq Speaker
  BY RouterAssumption DEF RouterAssumption
<1>2. status \in [Speaker -> {"CONNECTED", "DISCONNECTED"}]
  BY DEF TypeOK
<1>3. CASE Matches[Peer[c]] \cap speakers = {}
  BY <1>2, <1>3 DEF SetStatus
<1>4. CASE Matches[Peer[c]] \cap speakers # {}
  <2>1. PICK s \in Matches[Peer[c]] \cap speakers : status' = [status EXCEPT ![s] = v]
    BY <1>4 DEF SetStatus
  <2>2. s \in Speaker
    BY <1>1
  <2>. QED
    BY <1>2, <2>1, <2>2
<1>. QED
  BY <1>3, <1>4

\* A teardown keeps the types, and marks no row as CONNECTED.
LEMMA TeardownTyped ==
  ASSUME TypeOK, ConnectedAreRegistered, NEW c \in Conn, Teardown(c)
  PROVE  /\ conn' \in [Conn -> ConnState] /\ connections' \subseteq Conn
         /\ status' \in [Speaker -> {"CONNECTED", "DISCONNECTED"}]
         /\ failures' \in 0..MaxFailures
         /\ ConnectedAreRegistered'
         /\ UNCHANGED <<host, eof, sent, read, speakers, restarts, crashed>>
<1>1. connections' \subseteq Conn
  BY DEF TypeOK, Teardown, WithoutEntry
<1>2. /\ conn' \in [Conn -> ConnState]
      /\ UNCHANGED <<host, eof, sent, read, speakers, restarts, crashed>>
  BY DEF TypeOK, Teardown, ConnState
<1>3. CASE SetStatus(Peer[c], "DISCONNECTED") /\ UNCHANGED failures
  <2>1. /\ status' \in [Speaker -> {"CONNECTED", "DISCONNECTED"}]
        /\ \A s \in Speaker : status'[s] = "CONNECTED" => status[s] = "CONNECTED"
    BY <1>3, SetStatusEffect
  <2>. QED
    BY <1>1, <1>2, <1>3, <2>1 DEF TypeOK, ConnectedAreRegistered
<1>4. CASE failures < MaxFailures /\ failures' = failures + 1 /\ UNCHANGED status
  BY <1>1, <1>2, <1>4, Bounds DEF TypeOK, ConnectedAreRegistered
<1>. QED
  BY <1>3, <1>4 DEF Teardown

\* What the end of a process leaves is typed.
LEMMA GoDownTyped ==
  ASSUME TypeOK, NEW p \in Server, GoDown(p)
  PROVE  /\ process' \in [Server -> {"starting", "running", "stopping", "down"}]
         /\ listener' \in Server \cup {None}
         /\ conn' \in [Conn -> ConnState] /\ connections' \subseteq Conn
         /\ UNCHANGED <<eof, sent, read, queue, rows, failures>>
<1>1. /\ process' \in [Server -> {"starting", "running", "stopping", "down"}]
      /\ UNCHANGED <<eof, sent, read, queue, rows, failures>>
  BY DEF TypeOK, GoDown
<1>2. CASE listener = p
  BY <1>1, <1>2 DEF TypeOK, GoDown, ConnState
<1>3. CASE listener # p
  BY <1>1, <1>3 DEF TypeOK, GoDown
<1>. QED
  BY <1>2, <1>3

\* Types and the queued prefix are kept together.
THEOREM MessageInvariance == Spec => []MessageInv
<1>1. Init => MessageInv
  <2> SUFFICES ASSUME Init PROVE MessageInv
    OBVIOUS
  <2>1. TypeOK
    <3>1. 0 \in 0..MaxMessages /\ 0 \in 0..MaxFailures /\ 0 \in 0..MaxRestarts
      BY Bounds
    <3>. QED
      BY <3>1, RouterAssumption DEF RouterAssumption, Init, TypeOK, ConnState
  <2>. QED
    BY <2>1 DEF Init, MessageInv, NoGaps, LastIsQueued, ConnectedAreRegistered
<1>2. MessageInv /\ [Next]_vars => MessageInv'
  <2> SUFFICES ASSUME MessageInv, [Next]_vars PROVE MessageInv'
    OBVIOUS
  <2>a. TypeOK /\ NoGaps /\ LastIsQueued /\ ConnectedAreRegistered
    BY DEF MessageInv
  <2> USE DEF host, handlers, rows, faults
  <2>1. ASSUME NEW s \in Speaker, RegisterSpeaker(s) PROVE MessageInv'
    BY <2>a, <2>1 DEF RegisterSpeaker, MessageInv, TypeOK, NoGaps, LastIsQueued,
                      ConnectedAreRegistered
  <2>2. ASSUME NEW c \in Conn, Send(c) \/ RouterCloses(c) PROVE MessageInv'
    <3>1. TypeOK'
      BY <2>a, <2>2, Bounds DEF Send, RouterCloses, TypeOK
    <3>. QED
      BY <2>a, <2>2, <3>1 DEF Send, RouterCloses, MessageInv, NoGaps, LastIsQueued,
                              ConnectedAreRegistered
  <2>3. ASSUME NEW c \in Conn, Accept(c) PROVE MessageInv'
    <3>1. /\ status' \in [Speaker -> {"CONNECTED", "DISCONNECTED"}]
          /\ \A s \in Speaker : status'[s] = "CONNECTED" =>
               status[s] = "CONNECTED" \/ s \in speakers
      BY <2>a, <2>3, SetStatusEffect DEF Accept
    <3>2. TypeOK'
      BY <2>a, <2>3, <3>1 DEF Accept, TypeOK, WithEntry, ConnState
    <3>3. NoGaps' /\ LastIsQueued' /\ ConnectedAreRegistered'
      BY <2>a, <2>3, <3>1 DEF Accept, NoGaps, LastIsQueued, ConnectedAreRegistered
    <3>. QED
      BY <3>2, <3>3 DEF MessageInv
  <2>4. ASSUME NEW c \in Conn, AcceptFails(c) PROVE MessageInv'
    <3>1. TypeOK'
      BY <2>a, <2>4, Bounds DEF AcceptFails, TypeOK, WithEntry, ConnState
    <3>. QED
      BY <2>a, <2>4, <3>1 DEF AcceptFails, MessageInv, NoGaps, LastIsQueued,
                              ConnectedAreRegistered
  <2>5. ASSUME NEW c \in Conn, Receive(c) PROVE MessageInv'
    <3>1. /\ read[c] \in Nat /\ read[c] + 1 \in 1..MaxMessages
          /\ \A d \in Conn : read'[d] = IF d = c THEN read[c] + 1 ELSE read[d]
          /\ queue' = queue \cup {<<c, read[c] + 1>>}
      BY <2>a, <2>5, Bounds DEF Receive, Unread, TypeOK
    <3>2. TypeOK'
      BY <2>a, <2>5, <3>1, Bounds DEF Receive, TypeOK
    <3>3. NoGaps' /\ LastIsQueued'
      BY <2>a, <3>1 DEF NoGaps, LastIsQueued
    <3>4. ConnectedAreRegistered'
      BY <2>a, <2>5 DEF Receive, ConnectedAreRegistered
    <3>. QED
      BY <3>2, <3>3, <3>4 DEF MessageInv
  <2>6. ASSUME NEW c \in Conn, EndOfStream(c) \/ Cancelled(c) PROVE MessageInv'
    <3>1. Teardown(c) /\ UNCHANGED queue
      BY <2>6 DEF EndOfStream, Cancelled
    <3>2. TypeOK' /\ ConnectedAreRegistered'
      BY <2>a, <3>1, TeardownTyped DEF TypeOK
    <3>3. UNCHANGED read
      BY <2>a, <3>1, TeardownTyped
    <3>. QED
      BY <2>a, <3>1, <3>2, <3>3 DEF MessageInv, NoGaps, LastIsQueued
  <2>7. ASSUME NEW c \in Conn, MessageFails(c) PROVE MessageInv'
    <3>1. Teardown(c) /\ queue' \in {queue, queue \cup {<<c, read[c] + 1>>}}
      BY <2>7 DEF MessageFails
    <3>2. UNCHANGED <<host, eof, sent, read, speakers, restarts, crashed>>
      BY <2>a, <3>1, TeardownTyped
    <3>3. read[c] \in Nat /\ read[c] + 1 \in 1..MaxMessages
      BY <2>a, <2>7, Bounds DEF MessageFails, Unread, TypeOK
    <3>4. TypeOK' /\ ConnectedAreRegistered'
      BY <2>a, <3>1, <3>3, TeardownTyped DEF TypeOK
    <3>5. NoGaps' /\ LastIsQueued'
      BY <2>a, <3>1, <3>2, <3>3 DEF NoGaps, LastIsQueued
    <3>. QED
      BY <3>4, <3>5 DEF MessageInv
  <2>8. ASSUME NEW p \in Server, Start(p) PROVE MessageInv'
    BY <2>a, <2>8 DEF Start, MessageInv, TypeOK, NoGaps, LastIsQueued, ConnectedAreRegistered
  <2>9. CASE Stop \/ Restart
    <3>1. TypeOK'
      BY <2>a, <2>9, Bounds DEF Stop, Restart, TypeOK
    <3>. QED
      BY <2>a, <2>9, <3>1 DEF Stop, Restart, MessageInv, NoGaps, LastIsQueued,
                              ConnectedAreRegistered
  <2>10. ASSUME NEW p \in Server, Exit(p) \/ Crash(p) PROVE MessageInv'
    <3>1. GoDown(p) /\ restarts' \in 0..MaxRestarts /\ crashed' \in BOOLEAN
      <4>1. restarts \in 0..MaxRestarts /\ crashed \in BOOLEAN
        BY <2>a DEF TypeOK
      <4>2. CASE Exit(p)
        BY <4>1, <4>2 DEF Exit
      <4>3. CASE Crash(p)
        BY <4>1, <4>3, Bounds DEF Crash
      <4>. QED
        BY <2>10, <4>2, <4>3
    <3>2. TypeOK'
      BY <2>a, <3>1, GoDownTyped DEF TypeOK
    <3>3. UNCHANGED <<read, queue, rows>>
      BY <2>a, <3>1, GoDownTyped
    <3>. QED
      BY <2>a, <3>2, <3>3 DEF MessageInv, NoGaps, LastIsQueued, ConnectedAreRegistered
  <2>11. CASE UNCHANGED vars
    BY <2>a, <2>11 DEF vars, MessageInv, TypeOK, NoGaps, LastIsQueued, ConnectedAreRegistered
  <2>. QED
    BY <2>1, <2>2, <2>3, <2>4, <2>5, <2>6, <2>7, <2>8, <2>9, <2>10, <2>11 DEF Next, Serve
<1>. QED
  BY <1>1, <1>2, PTL DEF Spec

\* Every reachable state is well typed.
THEOREM TypeCorrect == Spec => []TypeOK
<1>1. MessageInv => TypeOK
  BY DEF MessageInv
<1>. QED
  BY <1>1, MessageInvariance, PTL

\* The parse tasks of a connection are a gap-free prefix of what the router sent,
\* however its connection ends (_handle_connection).
THEOREM NoMessageIsSkipped == Spec => []NoGaps
<1>1. MessageInv => NoGaps
  BY DEF MessageInv
<1>. QED
  BY <1>1, MessageInvariance, PTL

-----------------------------------------------------------------------------
\* The table of connections.

\* A teardown takes the entry of its router away, whichever handler it names.
LEMMA TeardownTable ==
  ASSUME TypeOK, NEW c \in Conn, Teardown(c)
  PROVE  /\ connections' = {d \in connections : Peer[d] # Peer[c]}
         /\ \A d \in Conn \ {c} : conn'[d] = conn[d]
         /\ conn'[c] \in {"closed", "dead"}
BY DEF TypeOK, Teardown, WithoutEntry

\* The table never holds a handler that is over, unless its on_connect had failed
\* (BMPServer._connections, _handle_connection).
THEOREM TableIsLive == Spec => []TableHoldsNoEndedHandler
<1>1. Init => TableHoldsNoEndedHandler
  BY DEF Init, TableHoldsNoEndedHandler
<1>2. TypeOK /\ TableHoldsNoEndedHandler /\ [Next]_vars => TableHoldsNoEndedHandler'
  <2> SUFFICES ASSUME TypeOK, TableHoldsNoEndedHandler, [Next]_vars
               PROVE  TableHoldsNoEndedHandler'
    OBVIOUS
  <2>a. conn \in [Conn -> ConnState] /\ connections \subseteq Conn
    BY DEF TypeOK
  <2> USE DEF host, handlers, rows, faults
  <2>1. ASSUME NEW c \in Conn, Accept(c) \/ AcceptFails(c) PROVE TableHoldsNoEndedHandler'
    <3>1. /\ connections' \subseteq connections \cup {c}
          /\ conn'[c] \in {"open", "orphan"}
          /\ \A d \in Conn \ {c} : conn'[d] = conn[d]
      BY <2>a, <2>1 DEF Accept, AcceptFails, WithEntry
    <3>. QED
      BY <2>a, <3>1 DEF TableHoldsNoEndedHandler
  <2>2. ASSUME NEW c \in Conn, EndOfStream(c) \/ Cancelled(c) \/ MessageFails(c)
        PROVE  TableHoldsNoEndedHandler'
    <3>1. Teardown(c)
      BY <2>2 DEF EndOfStream, Cancelled, MessageFails
    <3>2. /\ connections' = {d \in connections : Peer[d] # Peer[c]}
          /\ \A d \in Conn \ {c} : conn'[d] = conn[d]
      BY <3>1, TeardownTable
    <3>. QED
      BY <2>a, <3>2 DEF TableHoldsNoEndedHandler
  <2>3. ASSUME NEW p \in Server, Exit(p) \/ Crash(p) PROVE TableHoldsNoEndedHandler'
    <3>1. connections' = {} \/ UNCHANGED <<conn, connections>>
      BY <2>3 DEF Exit, Crash, GoDown
    <3>. QED
      BY <3>1 DEF TableHoldsNoEndedHandler
  <2>4. CASE UNCHANGED <<conn, connections>>
    BY <2>4 DEF TableHoldsNoEndedHandler
  <2>. QED
    BY <2>1, <2>2, <2>3, <2>4 DEF Next, Serve, RegisterSpeaker, Send, RouterCloses, Receive,
                                  Start, Stop, Restart, vars
<1>. QED
  BY <1>1, <1>2, TypeCorrect, PTL DEF Spec

-----------------------------------------------------------------------------
\* The processes and the port.

\* A stop of the container leaves no process behind that runs or is about to, and
\* none is started before all of them are gone.
OnePhase ==
  \A p, q \in Server : process[p] \in {"starting", "running"} => process[q] # "stopping"

\* The port is held by a process that is up, and by some process as long as one
\* that started runs and none was killed.
PortInv ==
  /\ OnePhase
  /\ listener # None => process[listener] \in {"running", "stopping"}
  /\ (\E p \in Server : process[p] = "running") /\ ~crashed => listener # None

\* Ports and phases are kept together.
THEOREM PortInvariance == Spec => []PortInv
<1>1. Init => PortInv
  BY DEF Init, PortInv, OnePhase
<1>2. TypeOK /\ PortInv /\ [Next]_vars => PortInv'
  <2> SUFFICES ASSUME TypeOK, PortInv, [Next]_vars PROVE PortInv'
    OBVIOUS
  <2>a. /\ process \in [Server -> {"starting", "running", "stopping", "down"}]
        /\ listener \in Server \cup {None} /\ None \notin Server
    BY RouterAssumption DEF RouterAssumption, TypeOK
  <2> USE DEF host, handlers, rows, faults
  <2>1. ASSUME NEW p \in Server, Start(p) PROVE PortInv'
    <3>1. \A q \in Server : process'[q] = IF q = p THEN "running" ELSE process[q]
      BY <2>a, <2>1 DEF Start
    <3>2. /\ process[p] = "starting" /\ listener' = IF listener = None THEN p ELSE listener
      BY <2>1 DEF Start
    <3>. QED
      BY <2>a, <3>1, <3>2 DEF PortInv, OnePhase
  <2>2. CASE Stop
    <3>1. /\ \A q \in Server : process'[q] = IF process[q] = "running" THEN "stopping" ELSE
                                             IF process[q] = "starting" THEN "down"
                                             ELSE process[q]
          /\ UNCHANGED <<listener, crashed>>
      BY <2>a, <2>2 DEF Stop
    <3>2. \A q \in Server : process'[q] \in {"stopping", "down"}
      BY <2>a, <3>1
    <3>. QED
      BY <2>a, <3>1, <3>2 DEF PortInv, OnePhase
  <2>3. CASE Restart
    <3>1. listener = None
      BY <2>a, <2>3 DEF Restart, PortInv
    <3>2. UNCHANGED listener /\ \A q \in Server : process'[q] = "starting"
      BY <2>3 DEF Restart
    <3>. QED
      BY <3>1, <3>2 DEF PortInv, OnePhase
  <2>4. ASSUME NEW p \in Server, Exit(p) \/ Crash(p) PROVE PortInv'
    <3>1. /\ \A q \in Server : process'[q] = IF q = p THEN "down" ELSE process[q]
          /\ listener' = IF listener = p THEN None ELSE listener
      BY <2>a, <2>4 DEF Exit, Crash, GoDown
    <3>2. \/ process[p] = "stopping" /\ UNCHANGED crashed
          \/ crashed'
      BY <2>4 DEF Exit, Crash
    <3>3. OnePhase'
      BY <2>a, <3>1 DEF PortInv, OnePhase
    <3>4. listener' # None => process'[listener'] \in {"running", "stopping"}
      BY <2>a, <3>1 DEF PortInv
    <3>5. (\E q \in Server : process'[q] = "running") /\ ~crashed' => listener' # None
      BY <2>a, <3>1, <3>2 DEF PortInv, OnePhase
    <3>. QED
      BY <3>3, <3>4, <3>5 DEF PortInv
  <2>5. ASSUME NEW c \in Conn, EndOfStream(c) \/ Cancelled(c) \/ MessageFails(c)
        PROVE  PortInv'
    <3>1. UNCHANGED <<process, listener, crashed>>
      BY <2>5 DEF EndOfStream, Cancelled, MessageFails, Teardown
    <3>. QED
      BY <3>1 DEF PortInv, OnePhase
  <2>6. CASE UNCHANGED <<process, listener, crashed>>
    BY <2>6 DEF PortInv, OnePhase
  <2>. QED
    BY <2>1, <2>2, <2>3, <2>4, <2>5, <2>6
       DEF Next, Serve, RegisterSpeaker, Send, RouterCloses, Accept, AcceptFails, Receive, vars
<1>. QED
  BY <1>1, <1>2, TypeCorrect, PTL DEF Spec

\* The port has a holder whenever a process runs, unless one was killed: a process
\* that does not get it never tries again (on_startup of src/api/main.py).
THEOREM PortIsServed == Spec => []UnservedOnlyByCrash
<1>1. TypeOK /\ PortInv => UnservedOnlyByCrash
  BY RouterAssumption DEF RouterAssumption, TypeOK, PortInv, OnePhase, UnservedOnlyByCrash,
                          Serving
<1>. QED
  BY <1>1, TypeCorrect, PortInvariance, PTL

-----------------------------------------------------------------------------
\* The status of the speakers.

\* A router address means one speaker.
OneSpeakerPerAddress == \A ip \in Ip : \A a, b \in Matches[ip] : a = b

\* A connected speaker has a running handler as long as nothing failed.
StatusInv ==
  \A s \in Speaker : status[s] = "CONNECTED" /\ failures = 0 /\ ~crashed =>
    \E c \in Open : s \in Matches[Peer[c]]

\* A teardown that does not fail leaves no speaker CONNECTED that only its
\* connection stood for.
LEMMA TeardownStatus ==
  ASSUME OneSpeakerPerAddress, TypeOK, ConnectedAreRegistered, StatusInv,
         NEW c \in Conn, Teardown(c)
  PROVE  StatusInv'
<1>1. Peer[c] \in Ip /\ \A d \in Conn : Matches[Peer[d]] \subseteq Speaker
  BY RouterAssumption DEF RouterAssumption
<1>2. /\ \A d \in Conn \ {c} : conn'[d] = conn[d]
      /\ UNCHANGED crashed /\ failures \in Nat
  BY TeardownTable DEF Teardown, TypeOK
<1> SUFFICES ASSUME NEW s \in Speaker, status'[s] = "CONNECTED", failures' = 0, ~crashed'
             PROVE  \E d \in Open' : s \in Matches[Peer[d]]
  BY DEF StatusInv
<1>3. SetStatus(Peer[c], "DISCONNECTED") /\ UNCHANGED failures
  BY <1>2 DEF Teardown
<1>4. status[s] = "CONNECTED" /\ s \notin Matches[Peer[c]]
  <2>1. CASE UNCHANGED status /\ Matches[Peer[c]] \cap speakers = {}
    BY <2>1 DEF ConnectedAreRegistered
  <2>2. CASE \E r \in Matches[Peer[c]] \cap speakers :
               \A t \in Speaker : status'[t] = IF t = r THEN "DISCONNECTED" ELSE status[t]
    BY <1>1, <2>2 DEF OneSpeakerPerAddress
  <2>. QED
    BY <1>3, <2>1, <2>2, SetStatusEffect
<1>5. PICK d \in Open : s \in Matches[Peer[d]]
  BY <1>2, <1>3, <1>4 DEF StatusInv
<1>6. d \in Open'
  BY <1>2, <1>4, <1>5 DEF Open
<1>. QED
  BY <1>5, <1>6

\* Every step keeps status and connections together, if addresses tell speakers
\* apart.
LEMMA StatusStep ==
  ASSUME OneSpeakerPerAddress, MessageInv, StatusInv, [Next]_vars
  PROVE  StatusInv'
<1>a. /\ TypeOK /\ ConnectedAreRegistered /\ failures \in Nat
      /\ conn \in [Conn -> ConnState]
  BY DEF MessageInv, TypeOK
<1> USE DEF host, handlers, rows, faults
<1>1. ASSUME NEW c \in Conn, Accept(c) PROVE StatusInv'
  <2>1. /\ \A d \in Open : d \in Open'
        /\ c \in Open' /\ UNCHANGED <<failures, crashed>>
    BY <1>a, <1>1 DEF Accept, Open
  <2>2. \A s \in Speaker : status'[s] = "CONNECTED" =>
          status[s] = "CONNECTED" \/ s \in Matches[Peer[c]]
    BY <1>a, <1>1, SetStatusEffect DEF Accept
  <2>. QED
    BY <2>1, <2>2 DEF StatusInv
<1>2. ASSUME NEW c \in Conn, AcceptFails(c) PROVE StatusInv'
  BY <1>a, <1>2 DEF AcceptFails, StatusInv
<1>3. ASSUME NEW c \in Conn, EndOfStream(c) \/ Cancelled(c) \/ MessageFails(c)
      PROVE  StatusInv'
  BY <1>a, <1>3, TeardownStatus DEF EndOfStream, Cancelled, MessageFails
<1>4. ASSUME NEW p \in Server, Exit(p) PROVE StatusInv'
  <2>1. CASE listener = p
    <3>1. Open = {} /\ UNCHANGED <<status, failures, crashed>>
      BY <1>4, <2>1 DEF Exit, GoDown
    <3>. QED
      BY <3>1 DEF StatusInv
  <2>2. CASE listener # p
    <3>1. UNCHANGED <<conn, status, failures, crashed>>
      BY <1>4, <2>2 DEF Exit, GoDown
    <3>. QED
      BY <3>1 DEF StatusInv, Open
  <2>. QED
    BY <2>1, <2>2
<1>5. ASSUME NEW p \in Server, Crash(p) PROVE StatusInv'
  BY <1>5 DEF Crash, StatusInv
<1>6. CASE UNCHANGED <<conn, status, failures, crashed>>
  BY <1>6 DEF StatusInv, Open
<1>. QED
  BY <1>1, <1>2, <1>3, <1>4, <1>5, <1>6
     DEF Next, Serve, RegisterSpeaker, Send, RouterCloses, Receive, Start, Stop, Restart, vars

\* A speaker shown as CONNECTED has a running handler, while a router address means
\* one speaker, unless a database failure or a crash left the row behind: closing,
\* cancelling and overlapping connections never do (on_connect, on_disconnect).
THEOREM StatusIsCurrent == Spec => []StaleOnlyByFailure
<1>1. StaleOnlyByFailure <=> (OneSpeakerPerAddress => StatusInv)
  BY DEF StaleOnlyByFailure, OneSpeakerPerAddress, StatusInv
<1>2. Init => (OneSpeakerPerAddress => StatusInv)
  BY DEF Init, StatusInv
<1>3. MessageInv /\ (OneSpeakerPerAddress => StatusInv) /\ [Next]_vars =>
        (OneSpeakerPerAddress => StatusInv)'
  BY StatusStep DEF OneSpeakerPerAddress
<1>. QED
  BY <1>1, <1>2, <1>3, MessageInvariance, PTL DEF Spec
=============================================================================
