------------------------------ MODULE RouteLog ------------------------------
(***************************************************************************)
(* The route log (RouteEvent, src/api/models.py: "Immutable append-only    *)
(* log of every BGP route change") as its readers may rely on it: what a   *)
(* message changes is appended as a whole, for one speaker and with one    *)
(* time, as long as the message is in work; nothing is appended for a      *)
(* message that nobody sent or that is settled, and nothing ever leaves    *)
(* the log or is altered.  A message may be appended more than once, or    *)
(* never: that is all the code keeps of "every".                           *)
(***************************************************************************)
EXTENDS Integers

CONSTANTS
  Task,      \* messages sent for ingestion
  Message,   \* what they may carry
  NoMessage, \* what one not yet sent carries
  Speaker,
  Change,    \* message -> its route changes
  MaxTime    \* bound: the workers' clock

VARIABLES
  carries,   \* the message of each task
  closed,    \* tasks that are settled
  log

vars == <<carries, closed, log>>

Init ==
  /\ carries = [t \in Task |-> NoMessage]
  /\ closed = {}
  /\ log = {}

Send(t, m) ==
  /\ carries[t] = NoMessage
  /\ carries' = [carries EXCEPT ![t] = m]
  /\ UNCHANGED <<closed, log>>

\* One copy of what t changes.
Copy(t, c, s, ts) ==
  {[task |-> t, copy |-> c, change |-> x, speaker |-> s, timestamp |-> ts] :
     x \in Change[carries[t]]}

Write(t) ==
  /\ carries[t] # NoMessage /\ t \notin closed
  /\ \E s \in Speaker, ts \in 0..MaxTime, c \in {e.copy : e \in log'} :
       /\ \A e \in log : ~(e.task = t /\ e.copy = c)
       /\ log' = log \cup Copy(t, c, s, ts)
  /\ UNCHANGED <<carries, closed>>

Close(T) ==
  /\ T # {} /\ \A t \in T : carries[t] # NoMessage /\ t \notin closed
  /\ closed' = closed \cup T
  /\ UNCHANGED <<carries, log>>

Next ==
  \/ \E t \in Task, m \in Message : Send(t, m)
  \/ \E t \in Task : Write(t)
  \/ \E T \in SUBSET Task : Close(T)

Spec == Init /\ [][Next]_vars
=============================================================================
