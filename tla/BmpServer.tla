------------------------------ MODULE BmpServer ------------------------------
(***************************************************************************)
(* The BMP listener of the API (src/api/bmp_server.py): one asyncio task   *)
(* per router connection, the table of connections by router address, and  *)
(* the status of the bgp_speakers rows.                                    *)
(*                                                                         *)
(* uvicorn runs several processes of the API and each of them starts a     *)
(* BMPServer in a task that nobody awaits: the first to bind the port has  *)
(* all the connections, and the others never try again.                    *)
(*                                                                         *)
(* A handler gives up control only where it awaits, so accepting a         *)
(* connection, queueing a message and tearing a connection down are steps  *)
(* of their own; the connections of one router overlap when it comes back  *)
(* before its old connection is noticed to be gone.                        *)
(***************************************************************************)
EXTENDS Integers

CONSTANTS
  Server,        \* the API processes of one container
  None,          \* nobody holds the port
  Conn,          \* TCP connections
  Ip,            \* router addresses
  Speaker,       \* BGPSpeaker rows that may be registered
  Registered,    \* the rows registered at the start
  Peer,          \* connection -> address it comes from
  Matches,       \* address -> speakers whose bmp_listen_address contains it
  MaxMessages,   \* bound: messages a router sends over one connection
  MaxFailures,   \* bound: database failures
  MaxRestarts    \* bound: stops of the container, crashes of a process

ASSUME RouterAssumption ==
  /\ Peer \in [Conn -> Ip]
  /\ Registered \subseteq Speaker
  /\ None \notin Server
  /\ Matches \in [Ip -> SUBSET Speaker]

ASSUME BoundsAssumption ==
  MaxMessages \in Nat /\ MaxFailures \in Nat /\ MaxRestarts \in Nat

VARIABLES
  process,      \* the state of each API process
  listener,     \* the process that holds the BMP port
  conn,         \* each connection's handler
  eof,          \* connections the router has closed
  sent, read,   \* messages written by the router and read by the handler
  queue,        \* messages queued as parse tasks, by connection and number
  connections,  \* BMPServer._connections: at most one handler an address
  speakers,     \* registered BGPSpeaker rows
  status,       \* their status column
  failures,     \* database failures so far
  restarts,     \* stops and crashes so far
  crashed       \* has a process ever been killed

host == <<process, listener>>
handlers == <<conn, eof, sent, read, queue, connections>>
rows == <<speakers, status>>
faults == <<failures, restarts, crashed>>
vars == <<host, handlers, rows, faults>>

\* orphan: on_connect raised and the handler never ran; dead: on_disconnect
\* raised and the socket was never closed.
ConnState == {"new", "open", "closed", "orphan", "dead"}

TypeOK ==
  /\ process \in [Server -> {"starting", "running", "stopping", "down"}]
  /\ listener \in Server \cup {None}
  /\ conn \in [Conn -> ConnState]
  /\ eof \subseteq Conn
  /\ sent \in [Conn -> 0..MaxMessages] /\ read \in [Conn -> 0..MaxMessages]
  /\ queue \subseteq Conn \X (1..MaxMessages)
  /\ connections \subseteq Conn
  /\ speakers \subseteq Speaker
  /\ status \in [Speaker -> {"CONNECTED", "DISCONNECTED"}]
  /\ failures \in 0..MaxFailures /\ restarts \in 0..MaxRestarts
  /\ crashed \in BOOLEAN

-----------------------------------------------------------------------------
\* The process that holds the port, and with it every connection, is in state p.
Serving(p) == listener # None /\ process[listener] = p
Open == {c \in Conn : conn[c] = "open"}
Unread(c) == read[c] < sent[c]

\* The row, if any, that .filter(contains(ip)).first() finds gets status v.
SetStatus(ip, v) ==
  LET found == Matches[ip] \cap speakers
  IN  IF found = {} THEN UNCHANGED status
      ELSE \E s \in found : status' = [status EXCEPT ![s] = v]

\* self._connections[ip] = handler
WithEntry(c) == {d \in connections : Peer[d] # Peer[c]} \cup {c}

\* self._connections.pop(ip, None): whichever handler is there.
WithoutEntry(c) == {d \in connections : Peer[d] # Peer[c]}

Init ==
  /\ process = [p \in Server |-> "starting"]
  /\ listener = None
  /\ conn = [c \in Conn |-> "new"]
  /\ eof = {}
  /\ sent = [c \in Conn |-> 0] /\ read = [c \in Conn |-> 0]
  /\ queue = {}
  /\ connections = {}
  /\ speakers = Registered
  /\ status = [s \in Speaker |-> "DISCONNECTED"]
  /\ failures = 0 /\ restarts = 0 /\ crashed = FALSE

-----------------------------------------------------------------------------
\* Routers and operators.

\* POST /api/telemetry/speakers
RegisterSpeaker(s) ==
  /\ s \notin speakers
  /\ speakers' = speakers \cup {s}
  /\ UNCHANGED <<host, handlers, status, faults>>

Send(c) ==
  /\ conn[c] = "open" /\ c \notin eof /\ sent[c] < MaxMessages
  /\ sent' = [sent EXCEPT ![c] = @ + 1]
  /\ UNCHANGED <<host, conn, eof, read, queue, connections, rows, faults>>

RouterCloses(c) ==
  /\ conn[c] = "open" /\ c \notin eof
  /\ eof' = eof \cup {c}
  /\ UNCHANGED <<host, conn, sent, read, queue, connections, rows, faults>>

-----------------------------------------------------------------------------
\* The handlers.

\* _handle_connection and on_connect, up to the first await.
Accept(c) ==
  /\ Serving("running") /\ conn[c] = "new"
  /\ conn' = [conn EXCEPT ![c] = "open"]
  /\ connections' = WithEntry(c)
  /\ SetStatus(Peer[c], "CONNECTED")
  /\ UNCHANGED <<host, eof, sent, read, queue, speakers, faults>>

\* on_connect raises, outside of the try block: the entry stays.
AcceptFails(c) ==
  /\ Serving("running") /\ conn[c] = "new" /\ failures < MaxFailures
  /\ conn' = [conn EXCEPT ![c] = "orphan"]
  /\ connections' = WithEntry(c)
  /\ failures' = failures + 1
  /\ UNCHANGED <<host, eof, sent, read, queue, rows, restarts, crashed>>

\* Mutant: what is read is not checked, an end of stream counts as a message.
Receive_Unchecked(c) ==
  /\ Serving("running") /\ conn[c] = "open"
  /\ read' = [read EXCEPT ![c] = @ + 1]
  /\ UNCHANGED <<host, conn, eof, sent, queue, connections, rows, faults>>

\* Mutant: of a burst of messages only the last is queued.
Receive_Batch(c) ==
  /\ Serving("running") /\ conn[c] = "open" /\ Unread(c)
  /\ read' = [read EXCEPT ![c] = sent[c]]
  /\ queue' = queue \cup {<<c, sent[c]>>}
  /\ UNCHANGED <<host, conn, eof, sent, connections, rows, faults>>

\* One whole message is read and queued with parse_bmp_message_task.delay.
Receive(c) ==
  /\ Serving("running") /\ conn[c] = "open" /\ Unread(c)
  /\ read' = [read EXCEPT ![c] = @ + 1]
  /\ queue' = queue \cup {<<c, read[c] + 1>>}
  /\ UNCHANGED <<host, conn, eof, sent, connections, rows, faults>>

\* Mutant: the entry is removed after the database was written.
Teardown_PopLast(c) ==
  /\ \/ /\ conn' = [conn EXCEPT ![c] = "closed"]
        /\ connections' = WithoutEntry(c)
        /\ SetStatus(Peer[c], "DISCONNECTED")
        /\ UNCHANGED failures
     \/ /\ failures < MaxFailures
        /\ conn' = [conn EXCEPT ![c] = "dead"]
        /\ failures' = failures + 1
        /\ UNCHANGED <<connections, status>>
  /\ UNCHANGED <<host, eof, sent, read, speakers, restarts, crashed>>

\* The finally block: on_disconnect, then the socket is closed.
Teardown(c) ==
  /\ connections' = WithoutEntry(c)
  /\ \/ /\ conn' = [conn EXCEPT ![c] = "closed"]
        /\ SetStatus(Peer[c], "DISCONNECTED")
        /\ UNCHANGED failures
     \/ \* on_disconnect raises after the pop
        /\ failures < MaxFailures
        /\ conn' = [conn EXCEPT ![c] = "dead"]
        /\ failures' = failures + 1
        /\ UNCHANGED status
  /\ UNCHANGED <<host, eof, sent, read, speakers, restarts, crashed>>

\* Mutant: the end is noticed only on a connection that sent something.
EndOfStream_AfterMessages(c) ==
  /\ Serving("running") /\ conn[c] = "open" /\ c \in eof /\ ~Unread(c) /\ sent[c] > 0
  /\ UNCHANGED queue
  /\ Teardown(c)

\* The stream ends, between two messages or in the middle of one.
EndOfStream(c) ==
  /\ Serving("running") /\ conn[c] = "open" /\ c \in eof /\ ~Unread(c)
  /\ UNCHANGED queue
  /\ Teardown(c)

\* The next message has a wrong version or length, or the broker raises, with or
\* without the message in its queue: the connection is given up.
MessageFails(c) ==
  /\ Serving("running") /\ conn[c] = "open" /\ Unread(c)
  /\ queue' \in {queue, queue \cup {<<c, read[c] + 1>>}}
  /\ Teardown(c)

\* Mutant: the status is left to except Exception, which a cancellation is not.
Cancelled_NotAnException(c) ==
  /\ Serving("stopping") /\ conn[c] = "open"
  /\ conn' = [conn EXCEPT ![c] = "closed"]
  /\ connections' = WithoutEntry(c)
  /\ UNCHANGED <<host, eof, sent, read, queue, rows, faults>>

\* The event loop is shut down: the handler is cancelled where it awaits.
Cancelled(c) ==
  /\ Serving("stopping") /\ conn[c] = "open"
  /\ UNCHANGED queue
  /\ Teardown(c)

-----------------------------------------------------------------------------
\* The processes.

\* on_startup: BMPServer.start binds the port, or its task dies unnoticed.
Start(p) ==
  /\ process[p] = "starting"
  /\ process' = [process EXCEPT ![p] = "running"]
  /\ listener' = IF listener = None THEN p ELSE listener
  /\ UNCHANGED <<handlers, rows, faults>>

\* The container is stopped, and with it the processes that still run.
Stop ==
  /\ \E p \in Server : process[p] = "running"
  /\ restarts < MaxRestarts
  /\ process' = [p \in Server |-> IF process[p] = "running" THEN "stopping" ELSE
                                   IF process[p] = "starting" THEN "down" ELSE process[p]]
  /\ restarts' = restarts + 1
  /\ UNCHANGED <<listener, handlers, rows, failures, crashed>>

\* Whatever is left of its connections goes with the process.
GoDown(p) ==
  /\ process' = [process EXCEPT ![p] = "down"]
  /\ IF listener = p
     THEN /\ listener' = None
          /\ conn' = [c \in Conn |-> IF conn[c] = "new" THEN "new" ELSE "closed"]
          /\ connections' = {}
     ELSE UNCHANGED <<listener, conn, connections>>
  /\ UNCHANGED <<eof, sent, read, queue, rows, failures>>

\* Mutant: the port is not given back, a child of the process still has it.
Exit_KeepsPort(p) ==
  /\ process[p] = "stopping" /\ (listener = p => Open = {})
  /\ process' = [process EXCEPT ![p] = "down"]
  /\ UNCHANGED <<listener, handlers, rows, faults>>

Exit(p) ==
  /\ process[p] = "stopping"
  /\ listener = p => Open = {}
  /\ GoDown(p)
  /\ UNCHANGED <<restarts, crashed>>

Crash(p) ==
  /\ process[p] = "running" /\ restarts < MaxRestarts
  /\ GoDown(p)
  /\ restarts' = restarts + 1
  /\ crashed' = TRUE

\* The container is started again: its supervisor does not replace a process
\* that died on its own.
Restart ==
  /\ \A p \in Server : process[p] = "down"
  /\ process' = [p \in Server |-> "starting"]
  /\ UNCHANGED <<listener, handlers, rows, faults>>

-----------------------------------------------------------------------------
\* What the event loop does for a connection that is there.
Serve(c) == Receive(c) \/ EndOfStream(c) \/ Cancelled(c)

Next ==
  \/ \E s \in Speaker : RegisterSpeaker(s)
  \/ \E c \in Conn : Send(c) \/ RouterCloses(c)
  \/ \E c \in Conn : Accept(c) \/ AcceptFails(c)
  \/ \E c \in Conn : Serve(c)
  \/ \E c \in Conn : MessageFails(c)
  \/ \E p \in Server : Start(p) \/ Exit(p) \/ Crash(p)
  \/ Stop
  \/ Restart

Spec == Init /\ [][Next]_vars

\* The event loop resumes every handler whose awaited bytes are there.
FairSpec == Spec /\ \A c \in Conn : WF_vars(Serve(c))

-----------------------------------------------------------------------------
\* Safety.

\* The parse tasks of a connection are a gap-free prefix of what the router
\* sent: a message that cannot be queued ends the connection.
NoGaps ==
  \A m \in queue : m[2] > 1 => <<m[1], m[2] - 1>> \in queue

\* The table never holds a handler that is over: it is running, or its
\* on_connect failed and left it there.
TableHoldsNoEndedHandler ==
  \A c \in connections : conn[c] \in {"open", "orphan"}

\* While a router address means one speaker, a speaker shown as CONNECTED has a
\* running handler unless a database failure or a crash left the row behind:
\* closing, cancelling and overlapping connections never do.
StaleOnlyByFailure ==
  (\A ip \in Ip : \A a, b \in Matches[ip] : a = b) =>
    \A s \in Speaker :
      status[s] = "CONNECTED" /\ failures = 0 /\ ~crashed =>
        \E c \in Open : s \in Matches[Peer[c]]

\* The port has a holder whenever a process runs, unless one was killed: then
\* it may stay unserved beside processes that run, for they never try again.
UnservedOnlyByCrash ==
  (\E p \in Server : process[p] = "running") /\ ~crashed => Serving("running")

-----------------------------------------------------------------------------
\* Liveness.

\* A connection the router has closed does not stay open.
ClosedIsNoticed == \A c \in Conn : c \in eof ~> c \notin Open

-----------------------------------------------------------------------------
\* What the documents say and the code does not do.

\* "Return real-time health for a BGP speaker": without any failure, a speaker
\* that was marked CONNECTED stays so while one of its router's connections is
\* open.
ConnectedWhileOpen ==
  \A c \in Open : \A s \in speakers :
    Matches[Peer[c]] = {s} => status[s] = "CONNECTED"
=============================================================================
