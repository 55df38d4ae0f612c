-------------------------- MODULE Ingestion_proofs --------------------------
(***************************************************************************)
(* Safety of Ingestion for every stream of messages, any number of workers *)
(* and every retry and redelivery bound.                                   *)
(***************************************************************************)
EXTENDS Ingestion, SequenceTheorems, FiniteSetTheorems, TLAPS

-----------------------------------------------------------------------------
\* Types.  A message is in the queue exactly once while it is queued, and every
\* execution beyond the first is paid for by a retry or a redelivery; a message
\* that waits has already paid for its next one.
Waiting == {"queued", "delayed"}
Working == {"parsed", "stamped", "stored", "written", "returned"}

Accounted(m) ==
  /\ m.exec <= 1 + m.retries + m.redelivered
  /\ m.state \in Waiting => m.exec <= m.retries + m.redelivered
  /\ m.state = "free" => m.exec = 0 /\ m.message = NoMessage
  /\ m.state # "free" => m.message \in Message
  /\ m.state \in Working => m.exec > 0 /\ m.attempt > 0 /\ Valid[m.message]
  /\ m.state = "delayed" => ~Valid[m.message]
  /\ m.state = "queued" /\ m.redelivered = 0 => m.exec = 0

QueueInv ==
  /\ \A i \in DOMAIN queue : task[queue[i]].state = "queued"
  /\ \A i, j \in DOMAIN queue : queue[i] = queue[j] => i = j
  /\ \A t \in Task : task[t].state = "queued" => \E i \in DOMAIN queue : queue[i] = t

Typed ==
  /\ now \in 0..MaxTime
  /\ failures \in 0..MaxFailures
  /\ queue \in Seq(Task)
  /\ speakers \subseteq Speaker
  /\ task \in [Task -> TaskRecord]
  /\ events \subseteq EventRow
  /\ points \subseteq Attempt
  /\ detections \subseteq [attempt : Attempt, speaker : Speaker]

TypeInv == Typed /\ QueueInv /\ \A t \in Task : Accounted(task[t])

\* The bounds are natural numbers.
LEMMA Bounds ==
  /\ TaskRetries \in Nat /\ IngestRetries \in Nat /\ MaxRedeliveries \in Nat
  /\ MaxTime \in Nat /\ MaxFailures \in Nat /\ MaxExec \in Nat
BY BoundsAssumption DEF BoundsAssumption, MaxExec

\* The router sends messages.
LEMMA StreamOfMessages == \A t \in Task : Stream[t] \subseteq Message
<1> SUFFICES ASSUME NEW t \in Task PROVE Stream[t] \in SUBSET Message
  OBVIOUS
<1>1. Stream \in Seq(SUBSET Message)
  BY MessageAssumption DEF MessageAssumption
<1>2. t \in 1..Len(Stream)
  BY <1>1, LenProperties DEF Task
<1>. QED
  BY <1>1, <1>2, ElementOfSeq

\* The counters of a message are natural numbers.
LEMMA TaskFields ==
  ASSUME NEW m \in TaskRecord
  PROVE  /\ m.retries \in Nat /\ m.redelivered \in Nat /\ m.exec \in Nat
         /\ m.attempt \in Nat
<1>1. /\ m.retries \in 0..TaskRetries /\ m.redelivered \in 0..MaxRedeliveries
      /\ m.exec \in 0..MaxExec /\ m.attempt \in 0..(IngestRetries + 1)
  BY DEF TaskRecord
<1>. QED
  BY <1>1

\* A step that changes one message within its type, and keeps its accounts, keeps
\* those of all.
LEMMA TaskStep ==
  ASSUME TypeInv, NEW t \in Task, NEW m \in TaskRecord, Accounted(m),
         task' = [task EXCEPT ![t] = m]
  PROVE  /\ task' \in [Task -> TaskRecord]
         /\ \A u \in Task : Accounted(task'[u])
         /\ task'[t] = m
         /\ \A u \in Task : u # t => task'[u] = task[u]
<1>1. task \in [Task -> TaskRecord] /\ \A u \in Task : Accounted(task[u])
  BY DEF TypeInv, Typed
<1>2. \A u \in Task : task'[u] = IF u = t THEN m ELSE task[u]
  BY <1>1
<1>3. task' \in [Task -> TaskRecord]
  BY <1>1
<1>. QED
  BY <1>1, <1>2, <1>3

\* A message that is not in the queue changes, outside the queue.
LEMMA QueueStays ==
  ASSUME TypeInv, NEW t \in Task, task[t].state # "queued", task'[t].state # "queued",
         \A u \in Task : u # t => task'[u] = task[u], queue' = queue
  PROVE  QueueInv'
<1>1. \A i \in DOMAIN queue : queue[i] \in Task /\ queue[i] # t
  <2> SUFFICES ASSUME NEW i \in DOMAIN queue PROVE queue[i] \in Task /\ queue[i] # t
    OBVIOUS
  <2>1. queue[i] \in Task
    BY LenProperties, ElementOfSeq DEF TypeInv, Typed
  <2>. QED
    BY <2>1 DEF TypeInv, QueueInv
<1>. QED
  BY <1>1 DEF TypeInv, QueueInv

\* A worker takes a message out of the queue, or one that is delayed.
LEMMA TakeQueue ==
  ASSUME TypeInv, NEW t \in Task, Take(t), task'[t].state # "queued",
         \A u \in Task : u # t => task'[u] = task[u]
  PROVE  QueueInv' /\ queue' \in Seq(Task)
<1>1. CASE task[t].state = "delayed" /\ UNCHANGED queue
  BY <1>1, QueueStays DEF TypeInv, Typed
<1>2. CASE queue # <<>> /\ t = Head(queue) /\ queue' = Tail(queue)
  <2>1. /\ queue \in Seq(Task) /\ Len(queue) \in Nat /\ Len(queue) # 0
        /\ DOMAIN queue = 1..Len(queue)
    BY <1>2, LenProperties, EmptySeq DEF TypeInv, Typed
  <2>2. t = queue[1]
    BY <1>2, <2>1
  <2>3. /\ queue' \in Seq(Task) /\ Len(queue') = Len(queue) - 1
        /\ \A i \in 1..Len(queue') : queue'[i] = queue[i + 1]
    BY <1>2, <2>1, HeadTailProperties
  <2>4. DOMAIN queue' = 1..Len(queue')
    BY <2>3, LenProperties
  <2>5. \A i \in DOMAIN queue' : /\ i + 1 \in DOMAIN queue /\ queue'[i] = queue[i + 1]
                                 /\ queue'[i] # t /\ queue'[i] \in Task
    <3> SUFFICES ASSUME NEW i \in DOMAIN queue'
                 PROVE  /\ i + 1 \in DOMAIN queue /\ queue'[i] = queue[i + 1]
                        /\ queue'[i] # t /\ queue'[i] \in Task
      OBVIOUS
    <3>1. i \in Nat /\ i + 1 \in DOMAIN queue /\ 1 \in DOMAIN queue /\ i + 1 # 1
      BY <2>1, <2>3, <2>4
    <3>2. queue'[i] = queue[i + 1]
      BY <2>3, <2>4
    <3>3. queue[i + 1] # queue[1]
      BY <3>1 DEF TypeInv, QueueInv
    <3>4. queue[i + 1] \in Task
      BY <2>1, <3>1, ElementOfSeq
    <3>. QED
      BY <2>2, <3>1, <3>2, <3>3, <3>4
  <2>6. \A i \in DOMAIN queue' : task'[queue'[i]].state = "queued"
    BY <2>5 DEF TypeInv, QueueInv
  <2>7. \A i, j \in DOMAIN queue' : queue'[i] = queue'[j] => i = j
    <3> SUFFICES ASSUME NEW i \in DOMAIN queue', NEW j \in DOMAIN queue',
                        queue'[i] = queue'[j]
                 PROVE  i = j
      OBVIOUS
    <3>1. i + 1 = j + 1
      BY <2>5 DEF TypeInv, QueueInv
    <3>. QED
      BY <2>3, <2>4, <3>1
  <2>8. ASSUME NEW u \in Task, task'[u].state = "queued"
        PROVE  \E i \in DOMAIN queue' : queue'[i] = u
    <3>1. u # t /\ task[u].state = "queued"
      BY <2>8
    <3>2. PICK j \in DOMAIN queue : queue[j] = u
      BY <3>1 DEF TypeInv, QueueInv
    <3>3. j # 1
      BY <2>2, <3>1, <3>2
    <3>4. j - 1 \in DOMAIN queue' /\ (j - 1) + 1 = j
      BY <2>1, <2>3, <2>4, <3>2, <3>3
    <3>5. queue'[j - 1] = queue[j]
      BY <2>3, <2>4, <3>4
    <3>. QED
      BY <3>2, <3>4, <3>5
  <2>. QED
    BY <2>3, <2>6, <2>7, <2>8 DEF QueueInv
<1>. QED
  BY <1>1, <1>2 DEF Take

\* What a step of message t leaves of the types, the queue and the accounts.
StepTyped(t) ==
  /\ task' \in [Task -> TaskRecord] /\ queue' \in Seq(Task) /\ QueueInv'
  /\ \A u \in Task : Accounted(task'[u])
  /\ \A u \in Task : u # t => task'[u] = task[u]

\* A message is submitted: it goes to the end of the queue.
LEMMA SubmitTyped ==
  ASSUME TypeInv, NEW t \in Task, NEW m \in Stream[t], Submit(t, m)
  PROVE  /\ StepTyped(t)
         /\ task'[t] = [task[t] EXCEPT !.state = "queued", !.message = m]
<1> DEFINE r == [task[t] EXCEPT !.state = "queued", !.message = m]
<1>1. task[t] \in TaskRecord /\ Accounted(task[t]) /\ task[t].state = "free"
  BY DEF TypeInv, Typed, Submit
<1>2. m \in Message
  BY StreamOfMessages
<1>3. r \in TaskRecord /\ task' = [task EXCEPT ![t] = r]
  BY <1>1, <1>2 DEF Submit, TaskRecord, TypeInv, Typed
<1>4. /\ r.state = "queued" /\ r.message = m /\ r.exec = task[t].exec
      /\ r.retries = task[t].retries /\ r.redelivered = task[t].redelivered
  BY <1>1 DEF TaskRecord
<1>5. Accounted(r)
  BY <1>1, <1>2, <1>4, TaskFields DEF Accounted, Waiting, Working
<1> HIDE DEF r
<1>6. /\ task' \in [Task -> TaskRecord] /\ \A u \in Task : Accounted(task'[u])
      /\ task'[t] = r /\ \A u \in Task : u # t => task'[u] = task[u]
  BY <1>3, <1>5, TaskStep
<1>7. /\ queue \in Seq(Task) /\ Len(queue) \in Nat /\ DOMAIN queue = 1..Len(queue)
      /\ \A i \in DOMAIN queue : queue[i] \in Task
  BY LenProperties, ElementOfSeq DEF TypeInv, Typed
<1>8. /\ queue' \in Seq(Task) /\ DOMAIN queue' = 1..(Len(queue) + 1)
      /\ \A i \in DOMAIN queue : queue'[i] = queue[i]
      /\ queue'[Len(queue) + 1] = t
  BY <1>7 DEF Submit
<1>9. \A i \in DOMAIN queue' : i \in DOMAIN queue \/ i = Len(queue) + 1
  BY <1>7, <1>8
<1>10. \A i \in DOMAIN queue : queue'[i] # t /\ i # Len(queue) + 1
  BY <1>1, <1>7, <1>8 DEF TypeInv, QueueInv
<1>11. QueueInv'
  <2>1. \A i \in DOMAIN queue' : task'[queue'[i]].state = "queued"
    BY <1>4, <1>6, <1>7, <1>8, <1>9, <1>10 DEF TypeInv, QueueInv
  <2>2. \A i, j \in DOMAIN queue' : queue'[i] = queue'[j] => i = j
    BY <1>8, <1>9, <1>10 DEF TypeInv, QueueInv
  <2>3. ASSUME NEW u \in Task, task'[u].state = "queued"
        PROVE  \E i \in DOMAIN queue' : queue'[i] = u
    <3>1. CASE u = t
      BY <1>7, <1>8, <3>1
    <3>2. CASE u # t
      <4>1. PICK j \in DOMAIN queue : queue[j] = u
        BY <1>6, <2>3, <3>2 DEF TypeInv, QueueInv
      <4>. QED
        BY <1>7, <1>8, <4>1
    <3>. QED
      BY <3>1, <3>2
  <2>. QED
    BY <2>1, <2>2, <2>3 DEF QueueInv
<1>. QED
  BY <1>6, <1>8, <1>11 DEF StepTyped, r

\* A message that a worker takes has an execution left.
LEMMA TakenWaits ==
  ASSUME TypeInv, NEW t \in Task, Take(t)
  PROVE  /\ task[t].state \in Waiting /\ task[t].message \in Message
         /\ task[t].exec <= task[t].retries + task[t].redelivered
         /\ task[t].exec + 1 \in 0..MaxExec
<1>1. task[t] \in TaskRecord /\ Accounted(task[t])
  BY DEF TypeInv, Typed
<1>2. task[t].state \in Waiting
  <2>1. CASE task[t].state = "delayed"
    BY <2>1 DEF Waiting
  <2>2. CASE queue # <<>> /\ t = Head(queue)
    <3>1. 1 \in DOMAIN queue /\ queue[1] = t
      BY <2>2, LenProperties, EmptySeq DEF TypeInv, Typed
    <3>. QED
      BY <3>1 DEF TypeInv, QueueInv, Waiting
  <2>. QED
    BY <2>1, <2>2 DEF Take
<1>3. task[t].exec <= task[t].retries + task[t].redelivered /\ task[t].message \in Message
  BY <1>1, <1>2 DEF Accounted, Waiting
<1>4. /\ task[t].retries \in 0..TaskRetries
      /\ task[t].redelivered \in 0..MaxRedeliveries /\ task[t].exec \in Nat
  BY <1>1, TaskFields DEF TaskRecord
<1>. QED
  BY <1>2, <1>3, <1>4, Bounds DEF MaxExec

\* The first attempt of an execution begins.
LEMMA ParseTyped ==
  ASSUME TypeInv, NEW t \in Task, Parse(t)
  PROVE  /\ StepTyped(t)
         /\ task[t].state \in Waiting /\ Valid[task[t].message]
         /\ task'[t] = [task[t] EXCEPT !.state = "parsed", !.exec = @ + 1, !.attempt = 1]
<1> DEFINE r == [task[t] EXCEPT !.state = "parsed", !.exec = @ + 1, !.attempt = 1]
<1>1. task[t] \in TaskRecord /\ Accounted(task[t])
  BY DEF TypeInv, Typed
<1>2. /\ task[t].state \in Waiting /\ task[t].message \in Message
      /\ task[t].exec <= task[t].retries + task[t].redelivered
      /\ task[t].exec + 1 \in 0..MaxExec /\ Valid[task[t].message]
  BY TakenWaits DEF Parse
<1>3. r \in TaskRecord /\ task' = [task EXCEPT ![t] = r]
  <2>1. 1 \in 0..(IngestRetries + 1)
    BY Bounds
  <2>. QED
    BY <1>1, <1>2, <2>1 DEF Parse, TaskRecord, TypeInv, Typed
<1>4. /\ r.state = "parsed" /\ r.message = task[t].message /\ r.exec = task[t].exec + 1
      /\ r.retries = task[t].retries /\ r.redelivered = task[t].redelivered
      /\ r.attempt = 1
  BY <1>1 DEF TaskRecord
<1>5. Accounted(r)
  BY <1>1, <1>2, <1>4, TaskFields DEF Accounted, Waiting, Working
<1> HIDE DEF r
<1>6. /\ task' \in [Task -> TaskRecord] /\ \A u \in Task : Accounted(task'[u])
      /\ task'[t] = r /\ \A u \in Task : u # t => task'[u] = task[u]
  BY <1>3, <1>5, TaskStep
<1>7. QueueInv' /\ queue' \in Seq(Task)
  BY <1>4, <1>6, TakeQueue DEF Parse
<1>. QED
  BY <1>2, <1>6, <1>7 DEF StepTyped, r

\* A message that does not parse waits for its retry, which is counted, or fails.
LEMMA ParseFailsTyped ==
  ASSUME TypeInv, NEW t \in Task, ParseFails(t)
  PROVE  /\ StepTyped(t)
         /\ task[t].state \in Waiting /\ ~Valid[task[t].message]
         /\ task'[t].state \in {"delayed", "failed"}
         /\ task'[t].message = task[t].message
<1> DEFINE again == task[t].retries < TaskRetries
           r == [task[t] EXCEPT !.state = IF again THEN "delayed" ELSE "failed",
                                !.retries = IF again THEN @ + 1 ELSE @,
                                !.exec = @ + 1]
<1>1. task[t] \in TaskRecord /\ Accounted(task[t])
  BY DEF TypeInv, Typed
<1>2. /\ task[t].state \in Waiting /\ task[t].message \in Message
      /\ task[t].exec <= task[t].retries + task[t].redelivered
      /\ task[t].exec + 1 \in 0..MaxExec /\ ~Valid[task[t].message]
  BY TakenWaits DEF ParseFails
<1>3. /\ r.state = (IF again THEN "delayed" ELSE "failed")
      /\ r.message = task[t].message /\ r.exec = task[t].exec + 1
      /\ r.retries = (IF again THEN task[t].retries + 1 ELSE task[t].retries)
      /\ r.redelivered = task[t].redelivered
  BY <1>1 DEF TaskRecord
<1>4. r \in TaskRecord /\ task' = [task EXCEPT ![t] = r]
  <2>1. (IF again THEN task[t].retries + 1 ELSE task[t].retries) \in 0..TaskRetries
    BY <1>1, Bounds DEF TaskRecord
  <2>2. r \in TaskRecord
    BY <1>1, <1>2, <2>1 DEF TaskRecord
  <2>3. task' = [task EXCEPT ![t] = r]
    BY <1>1 DEF ParseFails, TypeInv, Typed
  <2>. QED
    BY <2>2, <2>3
<1>5. Accounted(r)
  <2> HIDE DEF r
  <2>. QED
    BY <1>1, <1>2, <1>3, TaskFields DEF Accounted, Waiting, Working
<1> HIDE DEF r
<1>6. /\ task' \in [Task -> TaskRecord] /\ \A u \in Task : Accounted(task'[u])
      /\ task'[t] = r /\ \A u \in Task : u # t => task'[u] = task[u]
  BY <1>4, <1>5, TaskStep
<1>7. QueueInv' /\ queue' \in Seq(Task)
  BY <1>3, <1>6, TakeQueue DEF ParseFails
<1>. QED
  BY <1>2, <1>3, <1>6, <1>7 DEF StepTyped

\* A running message goes on, in the same execution, or ends.
LEMMA WorkTyped ==
  ASSUME TypeInv, NEW t \in Task, Running(t), NEW m \in TaskRecord,
         task' = [task EXCEPT ![t] = m], queue' = queue,
         m.state \in Working \cup {"done", "lost"}, m.message = task[t].message,
         m.retries = task[t].retries, m.redelivered = task[t].redelivered,
         m.exec = task[t].exec, m.attempt >= task[t].attempt
  PROVE  StepTyped(t) /\ task'[t] = m
<1>1. task[t] \in TaskRecord /\ Accounted(task[t]) /\ task[t].state \in Working
  BY DEF TypeInv, Typed, Running, Ingesting, Working
<1>2. Accounted(m)
  BY <1>1, TaskFields DEF Accounted, Waiting, Working
<1>3. /\ task' \in [Task -> TaskRecord] /\ \A u \in Task : Accounted(task'[u])
      /\ task'[t] = m /\ \A u \in Task : u # t => task'[u] = task[u]
  BY <1>2, TaskStep
<1>4. QueueInv' /\ queue' \in Seq(Task)
  <2>1. task[t].state # "queued" /\ m.state # "queued"
    BY <1>1 DEF Working
  <2>. QED
    BY <1>3, <2>1, QueueStays DEF TypeInv, Typed
<1>. QED
  BY <1>3, <1>4 DEF StepTyped

\* What a step that stays within an attempt does to its message.
GoesOn(t) ==
  /\ StepTyped(t)
  /\ task'[t].exec = task[t].exec /\ task'[t].attempt = task[t].attempt
  /\ task'[t].message = task[t].message
  /\ task'[t].redelivered = task[t].redelivered

With(t, st, ts, sp) == [task EXCEPT ![t].state = st, ![t].ts = ts, ![t].speaker = sp]

\* An attempt goes on to its next step, or the execution ends.
LEMMA GoOnTyped ==
  ASSUME TypeInv, NEW t \in Task, Running(t), NEW st \in Working \cup {"done", "lost"},
         NEW ts \in 0..MaxTime, NEW sp \in SUBSET Speaker, queue' = queue,
         task' = With(t, st, ts, sp)
  PROVE  /\ GoesOn(t)
         /\ task'[t].state = st /\ task'[t].ts = ts /\ task'[t].speaker = sp
<1> DEFINE m == [task[t] EXCEPT !.state = st, !.ts = ts, !.speaker = sp]
<1>1. task[t] \in TaskRecord /\ task \in [Task -> TaskRecord]
  BY DEF TypeInv, Typed
<1>2. m \in TaskRecord
  BY <1>1 DEF TaskRecord, Working
<1>3. task' = [task EXCEPT ![t] = m]
  BY <1>1 DEF With
<1>4. /\ m.state = st /\ m.ts = ts /\ m.speaker = sp /\ m.message = task[t].message
      /\ m.retries = task[t].retries /\ m.redelivered = task[t].redelivered
      /\ m.exec = task[t].exec /\ m.attempt = task[t].attempt
  BY <1>1 DEF TaskRecord
<1>5. m.attempt >= task[t].attempt
  BY <1>1, <1>4, TaskFields
<1> HIDE DEF m
<1>6. StepTyped(t) /\ task'[t] = m
  BY <1>2, <1>3, <1>4, <1>5, WorkTyped
<1>. QED
  BY <1>4, <1>6 DEF GoesOn

\* The steps of an attempt, by what they do to its message.
LEMMA AttemptSteps ==
  ASSUME TypeInv, NEW t \in Task
  PROVE  /\ Stamp(t) => GoesOn(t) /\ task[t].state = "parsed" /\ task'[t].state = "stamped"
         /\ NoSpeaker(t) => GoesOn(t) /\ task[t].state = "stamped"
                              /\ task'[t].state = "returned"
         /\ StoreEvents(t) => GoesOn(t) /\ task[t].state = "stamped"
                                /\ task'[t].state = "stored" /\ task'[t].ts = task[t].ts
                                /\ \E s \in Resolved(t) : /\ task'[t].speaker = {s}
                                                          /\ events' = events \cup Rows(t, s)
         /\ WritePoint(t) => GoesOn(t) /\ task[t].state = "stored"
                               /\ task'[t].state = "written"
                               /\ task'[t].speaker = task[t].speaker
                               /\ task'[t].ts = task[t].ts
         /\ SubmitDetection(t) => GoesOn(t) /\ task[t].state = "written"
                                    /\ task'[t].state = "returned"
         /\ Ack(t) => GoesOn(t) /\ task[t].state = "returned" /\ task'[t].state = "done"
         /\ ChildDies(t) => GoesOn(t) /\ task'[t].state = "lost"
<1>1. /\ task[t] \in TaskRecord /\ task \in [Task -> TaskRecord] /\ speakers \subseteq Speaker
      /\ now \in Nat
  BY DEF TypeInv, Typed
<1>2. /\ task[t].ts \in 0..MaxTime /\ task[t].speaker \in SUBSET Speaker
  BY <1>1 DEF TaskRecord
<1>3. \A st : [task EXCEPT ![t].state = st] =
         With(t, st, task[t].ts, task[t].speaker)
  BY <1>1 DEF TaskRecord, With
<1>4. \A st, sp : [task EXCEPT ![t].state = st, ![t].speaker = sp] =
         With(t, st, task[t].ts, sp)
  BY <1>1 DEF TaskRecord, With
<1>5. \A st, ts : [task EXCEPT ![t].state = st, ![t].ts = ts] =
         With(t, st, ts, task[t].speaker)
  BY <1>1 DEF TaskRecord, With
<1>a. /\ "stamped" \in Working \cup {"done", "lost"}
      /\ "stored" \in Working \cup {"done", "lost"}
      /\ "written" \in Working \cup {"done", "lost"}
      /\ "returned" \in Working \cup {"done", "lost"}
      /\ "done" \in Working \cup {"done", "lost"}
      /\ "lost" \in Working \cup {"done", "lost"}
  BY DEF Working
<1>6. ASSUME Stamp(t)
      PROVE  GoesOn(t) /\ task[t].state = "parsed" /\ task'[t].state = "stamped"
  <2>1. now' \in 0..MaxTime
    BY <1>1, <1>6, Bounds DEF Stamp
  <2>2. /\ task[t].state = "parsed" /\ Running(t) /\ queue' = queue
        /\ task' = With(t, "stamped", now', task[t].speaker)
    BY <1>5, <1>6 DEF Stamp, Running, Ingesting
  <2>. QED
    BY <1>2, <1>a, <2>1, <2>2, GoOnTyped
<1>7. ASSUME NoSpeaker(t)
      PROVE  GoesOn(t) /\ task[t].state = "stamped" /\ task'[t].state = "returned"
  <2>1. /\ task[t].state = "stamped" /\ Running(t) /\ queue' = queue
        /\ task' = With(t, "returned", task[t].ts, task[t].speaker)
    BY <1>3, <1>7 DEF NoSpeaker, Running, Ingesting
  <2>. QED
    BY <1>2, <1>a, <2>1, GoOnTyped
<1>8. ASSUME StoreEvents(t)
      PROVE  /\ GoesOn(t) /\ task[t].state = "stamped"
             /\ task'[t].state = "stored" /\ task'[t].ts = task[t].ts
             /\ \E s \in Resolved(t) : /\ task'[t].speaker = {s}
                                       /\ events' = events \cup Rows(t, s)
  <2>1. PICK s \in Resolved(t) :
          /\ task' = [task EXCEPT ![t].state = "stored", ![t].speaker = {s}]
          /\ events' = events \cup Rows(t, s)
    BY <1>8 DEF StoreEvents
  <2> DEFINE sp == {s}
  <2>2. sp \in SUBSET Speaker
    BY <1>1 DEF Resolved
  <2>3. task' = With(t, "stored", task[t].ts, sp)
    BY <1>4, <2>1
  <2> HIDE DEF sp
  <2>4. task[t].state = "stamped" /\ Running(t) /\ queue' = queue
    BY <1>8 DEF StoreEvents, Running, Ingesting
  <2>5. /\ GoesOn(t) /\ task'[t].state = "stored" /\ task'[t].ts = task[t].ts
        /\ task'[t].speaker = sp
    BY <1>2, <1>a, <2>2, <2>3, <2>4, GoOnTyped
  <2>. QED
    BY <2>1, <2>4, <2>5 DEF sp
<1>9. ASSUME WritePoint(t)
      PROVE  /\ GoesOn(t) /\ task[t].state = "stored" /\ task'[t].state = "written"
             /\ task'[t].speaker = task[t].speaker /\ task'[t].ts = task[t].ts
  <2>1. /\ task[t].state = "stored" /\ Running(t) /\ queue' = queue
        /\ task' = With(t, "written", task[t].ts, task[t].speaker)
    BY <1>3, <1>9 DEF WritePoint, Running, Ingesting
  <2>. QED
    BY <1>2, <1>a, <2>1, GoOnTyped
<1>10. ASSUME SubmitDetection(t)
       PROVE  GoesOn(t) /\ task[t].state = "written" /\ task'[t].state = "returned"
  <2>1. /\ task[t].state = "written" /\ Running(t) /\ queue' = queue
        /\ task' = With(t, "returned", task[t].ts, {})
    BY <1>4, <1>10 DEF SubmitDetection, Running, Ingesting
  <2>. QED
    BY <1>2, <1>a, <2>1, GoOnTyped
<1>11. ASSUME Ack(t)
       PROVE  GoesOn(t) /\ task[t].state = "returned" /\ task'[t].state = "done"
  <2>1. /\ task[t].state = "returned" /\ Running(t) /\ queue' = queue
        /\ task' = With(t, "done", task[t].ts, task[t].speaker)
    BY <1>3, <1>11 DEF Ack, Running
  <2>. QED
    BY <1>2, <1>a, <2>1, GoOnTyped
<1>12. ASSUME ChildDies(t) PROVE GoesOn(t) /\ task'[t].state = "lost"
  <2>1. /\ Running(t) /\ queue' = queue
        /\ task' = With(t, "lost", task[t].ts, {})
    BY <1>4, <1>12 DEF ChildDies
  <2>. QED
    BY <1>2, <1>a, <2>1, GoOnTyped
<1>. QED
  BY <1>6, <1>7, <1>8, <1>9, <1>10, <1>11, <1>12

\* After a failure the next attempt of the execution begins, or the task returns.
LEMMA AttemptFailsTyped ==
  ASSUME TypeInv, NEW t \in Task, IngestFails(t) \/ RowsRefused(t)
  PROVE  /\ StepTyped(t) /\ Ingesting(t)
         /\ task'[t].exec = task[t].exec /\ task'[t].message = task[t].message
         /\ task'[t].redelivered = task[t].redelivered
         /\ \/ task'[t].state = "parsed" /\ task'[t].attempt = task[t].attempt + 1
            \/ task'[t].state = "returned" /\ task'[t].attempt = task[t].attempt
<1>1. /\ task[t] \in TaskRecord /\ task \in [Task -> TaskRecord]
      /\ task[t].attempt \in 0..(IngestRetries + 1) /\ task[t].attempt \in Nat
  BY TaskFields DEF TypeInv, Typed, TaskRecord
<1>2. AttemptFails(t) /\ Ingesting(t) /\ queue' = queue
  BY DEF IngestFails, RowsRefused, Ingesting
<1> DEFINE again == task[t].attempt <= IngestRetries
           m == [task[t] EXCEPT !.state = IF again THEN "parsed" ELSE "returned",
                                !.attempt = IF again THEN @ + 1 ELSE @,
                                !.speaker = {}]
<1>3. /\ m.state = (IF again THEN "parsed" ELSE "returned")
      /\ m.attempt = (IF again THEN task[t].attempt + 1 ELSE task[t].attempt)
      /\ m.message = task[t].message /\ m.exec = task[t].exec
      /\ m.retries = task[t].retries /\ m.redelivered = task[t].redelivered
  BY <1>1 DEF TaskRecord
<1>4. task' = [task EXCEPT ![t] = m]
  BY <1>1, <1>2 DEF AttemptFails
<1>5. (IF again THEN task[t].attempt + 1 ELSE task[t].attempt) \in 0..(IngestRetries + 1)
  BY <1>1, Bounds
<1>6. m \in TaskRecord
  BY <1>1, <1>5 DEF TaskRecord
<1>7. m.attempt >= task[t].attempt
  BY <1>1, <1>3
<1>8. m.state \in Working \cup {"done", "lost"}
  BY <1>3 DEF Working
<1> HIDE DEF m
<1>9. StepTyped(t) /\ task'[t] = m
  BY <1>2, <1>3, <1>4, <1>6, <1>7, <1>8, WorkTyped DEF Running
<1>. QED
  BY <1>2, <1>3, <1>9

\* A message delivered again goes to the front of the queue, and may be executed
\* once more.
LEMMA HostDiesTyped ==
  ASSUME TypeInv, NEW t \in Task, HostDies(t)
  PROVE  /\ StepTyped(t)
         /\ task[t].state \in Working \cup {"delayed"} /\ task'[t].state = "queued"
         /\ task'[t].exec = task[t].exec /\ task'[t].attempt = task[t].attempt
         /\ task'[t].message = task[t].message
         /\ task'[t].redelivered = task[t].redelivered + 1
<1> DEFINE m == [task[t] EXCEPT !.state = "queued", !.redelivered = @ + 1,
                                !.speaker = {}]
<1>1. /\ task[t] \in TaskRecord /\ task \in [Task -> TaskRecord] /\ Accounted(task[t])
      /\ task[t].state \in Working \cup {"delayed"}
  BY DEF TypeInv, Typed, HostDies, Running, Ingesting, Working
<1>2. task[t].redelivered + 1 \in 0..MaxRedeliveries
  BY <1>1, Bounds DEF HostDies, TaskRecord
<1>3. m \in TaskRecord
  BY <1>1, <1>2 DEF TaskRecord
<1>4. task' = [task EXCEPT ![t] = m]
  BY <1>1 DEF HostDies
<1>5. /\ m.state = "queued" /\ m.message = task[t].message /\ m.exec = task[t].exec
      /\ m.retries = task[t].retries /\ m.redelivered = task[t].redelivered + 1
      /\ m.attempt = task[t].attempt
  BY <1>1 DEF TaskRecord
<1> HIDE DEF m
<1>6. Accounted(m)
  BY <1>1, <1>5, TaskFields DEF Accounted, Waiting, Working
<1>7. /\ task' \in [Task -> TaskRecord] /\ \A u \in Task : Accounted(task'[u])
      /\ task'[t] = m /\ \A u \in Task : u # t => task'[u] = task[u]
  BY <1>3, <1>4, <1>6, TaskStep
<1>8. /\ queue \in Seq(Task) /\ Len(queue) \in Nat /\ DOMAIN queue = 1..Len(queue)
      /\ \A i \in DOMAIN queue : queue[i] \in Task /\ queue[i] # t
  <2>1. /\ queue \in Seq(Task) /\ Len(queue) \in Nat /\ DOMAIN queue = 1..Len(queue)
        /\ \A i \in DOMAIN queue : queue[i] \in Task
    BY LenProperties, ElementOfSeq DEF TypeInv, Typed
  <2>. QED
    BY <1>1, <2>1 DEF TypeInv, QueueInv, Working
<1>9. /\ queue' \in Seq(Task) /\ DOMAIN queue' = 1..(Len(queue) + 1) /\ queue'[1] = t
      /\ \A i \in DOMAIN queue : queue'[i + 1] = queue[i]
  <2>1. /\ <<t>> \in Seq(Task) /\ Len(<<t>>) = 1 /\ <<t>>[1] = t
    OBVIOUS
  <2>2. /\ queue' \in Seq(Task) /\ Len(queue') = 1 + Len(queue)
        /\ \A i \in 1..(1 + Len(queue)) :
             queue'[i] = IF i <= 1 THEN <<t>>[i] ELSE queue[i - 1]
    BY <1>8, <2>1, ConcatProperties DEF HostDies
  <2>3. DOMAIN queue' = 1..(Len(queue) + 1)
    BY <1>8, <2>2, LenProperties
  <2>. QED
    BY <1>8, <2>1, <2>2, <2>3
<1>10. \A i \in DOMAIN queue' : i = 1 \/ (i - 1 \in DOMAIN queue /\ queue'[i] = queue[i - 1])
  BY <1>8, <1>9
<1>11. QueueInv'
  <2>1. \A i \in DOMAIN queue' : task'[queue'[i]].state = "queued"
    BY <1>5, <1>7, <1>8, <1>9, <1>10 DEF TypeInv, QueueInv
  <2>2. ASSUME NEW i \in DOMAIN queue', NEW j \in DOMAIN queue', queue'[i] = queue'[j]
        PROVE  i = j
    <3>1. CASE i = 1 \/ j = 1
      BY <1>8, <1>9, <1>10, <2>2, <3>1
    <3>2. CASE i # 1 /\ j # 1
      <4>1. i - 1 = j - 1
        BY <1>10, <2>2, <3>2 DEF TypeInv, QueueInv
      <4>. QED
        BY <1>8, <1>9, <4>1
    <3>. QED
      BY <3>1, <3>2
  <2>3. ASSUME NEW u \in Task, task'[u].state = "queued"
        PROVE  \E i \in DOMAIN queue' : queue'[i] = u
    <3>1. CASE u = t
      BY <1>8, <1>9, <3>1
    <3>2. CASE u # t
      <4>1. PICK j \in DOMAIN queue : queue[j] = u
        BY <1>7, <2>3, <3>2 DEF TypeInv, QueueInv
      <4>. QED
        BY <1>8, <1>9, <4>1
    <3>. QED
      BY <3>1, <3>2
  <2>. QED
    BY <2>1, <2>2, <2>3 DEF QueueInv
<1>. QED
  BY <1>1, <1>5, <1>7, <1>9, <1>11 DEF StepTyped

\* The queue is lost with all its messages.
LEMMA EvictedTyped ==
  ASSUME TypeInv, QueueEvicted
  PROVE  /\ task' \in [Task -> TaskRecord] /\ queue' \in Seq(Task) /\ QueueInv'
         /\ \A u \in Task :
              /\ Accounted(task'[u])
              /\ task[u].state # "queued" => task'[u] = task[u]
              /\ task[u].state = "queued" => task'[u].state = "lost"
              /\ task'[u].exec = task[u].exec /\ task'[u].attempt = task[u].attempt
              /\ task'[u].message = task[u].message
              /\ task'[u].redelivered = task[u].redelivered
<1>1. task' = [t \in Task |-> IF task[t].state = "queued"
                             THEN [task[t] EXCEPT !.state = "lost"] ELSE task[t]]
  BY DEF QueueEvicted
<1>2. ASSUME NEW u \in Task
      PROVE  /\ task'[u] \in TaskRecord /\ Accounted(task'[u])
             /\ task[u].state # "queued" => task'[u] = task[u]
             /\ task[u].state = "queued" => task'[u].state = "lost"
             /\ task'[u].exec = task[u].exec /\ task'[u].attempt = task[u].attempt
             /\ task'[u].message = task[u].message
             /\ task'[u].redelivered = task[u].redelivered
  <2>1. task[u] \in TaskRecord /\ Accounted(task[u])
    BY DEF TypeInv, Typed
  <2>2. CASE task[u].state # "queued"
    BY <1>1, <2>1, <2>2
  <2>3. CASE task[u].state = "queued"
    <3> DEFINE m == [task[u] EXCEPT !.state = "lost"]
    <3>1. /\ m \in TaskRecord /\ m.state = "lost" /\ m.exec = task[u].exec
          /\ m.attempt = task[u].attempt /\ m.message = task[u].message
          /\ m.retries = task[u].retries /\ m.redelivered = task[u].redelivered
      BY <2>1 DEF TaskRecord
    <3>2. task'[u] = m
      BY <1>1, <2>3
    <3> HIDE DEF m
    <3>3. Accounted(m)
      BY <2>1, <2>3, <3>1 DEF Accounted, Waiting, Working
    <3>. QED
      BY <2>3, <3>1, <3>2, <3>3
  <2>. QED
    BY <2>2, <2>3
<1>3. task' \in [Task -> TaskRecord]
  <2>1. task' = [u \in Task |-> task'[u]]
    BY <1>1
  <2>. QED
    BY <1>2, <2>1
<1>4. queue' \in Seq(Task) /\ QueueInv'
  <2>1. queue' = <<>> /\ DOMAIN queue' = {}
    BY DEF QueueEvicted
  <2>2. \A u \in Task : task'[u].state # "queued"
    BY <1>2
  <2>. QED
    BY <2>1, <2>2 DEF QueueInv
<1>. QED
  BY <1>2, <1>3, <1>4

\* An attempt that runs is numbered within its bounds.
LEMMA RunningAttempt ==
  ASSUME TypeInv, NEW t \in Task, Running(t)
  PROVE  /\ ThisAttempt(t) \in Attempt /\ task[t].message \in Message
         /\ Valid[task[t].message]
<1>1. task[t] \in TaskRecord /\ Accounted(task[t]) /\ task[t].state \in Working
  BY DEF TypeInv, Typed, Running, Ingesting, Working
<1>2. /\ task[t].exec \in 0..MaxExec /\ task[t].attempt \in 0..(IngestRetries + 1)
      /\ task[t].exec > 0 /\ task[t].attempt > 0 /\ task[t].message \in Message
      /\ Valid[task[t].message]
  BY <1>1 DEF TaskRecord, Accounted, Working
<1>3. task[t].exec \in 1..MaxExec /\ task[t].attempt \in 1..(IngestRetries + 1)
  BY <1>2, Bounds
<1>. QED
  BY <1>2, <1>3 DEF ThisAttempt, Attempt

\* The speakers that _resolve_speaker may choose are registered.
LEMMA ResolvedRegistered == \A t \in Task : Resolved(t) \subseteq speakers
BY DEF Resolved

\* The rows of an attempt are rows of the log.
LEMMA RowsTyped ==
  ASSUME TypeInv, NEW t \in Task, Running(t), NEW s \in Speaker
  PROVE  /\ Rows(t, s) \subseteq EventRow
         /\ \A e \in Rows(t, s) : /\ e.attempt = ThisAttempt(t) /\ e.speaker = s
                                  /\ e.timestamp = task[t].ts
<1>1. /\ ThisAttempt(t) \in Attempt /\ task[t].message \in Message
      /\ task[t].ts \in 0..MaxTime
  BY RunningAttempt DEF TypeInv, Typed, TaskRecord
<1>2. /\ Nlri[task[t].message] \subseteq Prefix
      /\ Withdrawn[task[t].message] \subseteq Prefix
  BY <1>1, MessageAssumption DEF MessageAssumption
<1>. QED
  BY <1>1, <1>2 DEF Rows, EventRow

\* The types, the queue and the accounts hold throughout.
THEOREM TypeInvariance == Spec => []TypeInv
<1>1. Init => TypeInv
  <2> SUFFICES ASSUME Init PROVE TypeInv
    OBVIOUS
  <2>1. FreeTask \in TaskRecord
    BY Bounds DEF FreeTask, TaskRecord
  <2>2. Accounted(FreeTask)
    BY DEF FreeTask, Accounted, Waiting, Working
  <2>3. Typed
    BY <2>1, Bounds, MessageAssumption DEF Init, Typed, MessageAssumption
  <2>4. QueueInv
    BY DEF Init, QueueInv, FreeTask
  <2>. QED
    BY <2>2, <2>3, <2>4 DEF Init, TypeInv
<1>2. TypeInv /\ [Next]_vars => TypeInv'
  <2> SUFFICES ASSUME TypeInv, [Next]_vars PROVE TypeInv'
    OBVIOUS
  <2> USE DEF TypeInv
  <2>1. CASE (\E s \in Speaker : RegisterSpeaker(s)) \/ UNCHANGED vars
    BY <2>1 DEF RegisterSpeaker, vars, Typed, QueueInv
  <2>2. ASSUME NEW t \in Task, NEW m \in Stream[t], Submit(t, m) PROVE TypeInv'
    <3>1. StepTyped(t)
      BY <2>2, SubmitTyped
    <3>. QED
      BY <2>2, <3>1 DEF StepTyped, Submit, Typed
  <2>3. ASSUME NEW t \in Task, Parse(t) \/ ParseFails(t) PROVE TypeInv'
    <3>1. StepTyped(t)
      BY <2>3, ParseTyped, ParseFailsTyped
    <3>. QED
      BY <2>3, <3>1 DEF StepTyped, Parse, ParseFails, Typed
  <2>4. ASSUME NEW t \in Task, Stamp(t) \/ NoSpeaker(t) \/ Ack(t) \/ RowsRefused(t)
        PROVE  TypeInv'
    <3>1. StepTyped(t)
      BY <2>4, AttemptSteps, AttemptFailsTyped DEF GoesOn
    <3>2. /\ UNCHANGED <<failures, speakers, events, points, detections>>
          /\ now' \in 0..MaxTime
      BY <2>4, Bounds DEF Stamp, NoSpeaker, Ack, RowsRefused, Typed
    <3>. QED
      BY <3>1, <3>2 DEF StepTyped, Typed
  <2>5. ASSUME NEW t \in Task, IngestFails(t) \/ ChildDies(t) \/ HostDies(t)
        PROVE  TypeInv'
    <3>1. StepTyped(t)
      BY <2>5, AttemptSteps, AttemptFailsTyped, HostDiesTyped DEF GoesOn
    <3>2. /\ UNCHANGED <<now, speakers, events, points, detections>>
          /\ failures' \in 0..MaxFailures
      BY <2>5, Bounds DEF IngestFails, ChildDies, HostDies, Failure, Typed
    <3>. QED
      BY <3>1, <3>2 DEF StepTyped, Typed
  <2>6. ASSUME NEW t \in Task, StoreEvents(t) PROVE TypeInv'
    <3>1. StepTyped(t) /\ task[t].state = "stamped"
      BY <2>6, AttemptSteps DEF GoesOn
    <3>2. PICK s \in Resolved(t) : events' = events \cup Rows(t, s)
      BY <2>6 DEF StoreEvents
    <3>3. s \in Speaker /\ Running(t)
      BY <3>1, ResolvedRegistered DEF Typed, Running, Ingesting
    <3>4. events' \subseteq EventRow
      BY <3>2, <3>3, RowsTyped DEF Typed
    <3>. QED
      BY <2>6, <3>1, <3>4 DEF StoreEvents, StepTyped, Typed
  <2>7. ASSUME NEW t \in Task, WritePoint(t) PROVE TypeInv'
    <3>1. StepTyped(t) /\ ThisAttempt(t) \in Attempt
      BY <2>7, AttemptSteps, RunningAttempt DEF GoesOn, Running, Ingesting
    <3>2. points' \subseteq Attempt
      BY <2>7, <3>1 DEF WritePoint, Typed
    <3>. QED
      BY <2>7, <3>1, <3>2 DEF WritePoint, StepTyped, Typed
  <2>8. ASSUME NEW t \in Task, SubmitDetection(t) PROVE TypeInv'
    <3>1. StepTyped(t) /\ ThisAttempt(t) \in Attempt
      BY <2>8, AttemptSteps, RunningAttempt DEF GoesOn, Running, Ingesting
    <3>2. task[t].speaker \subseteq Speaker
      BY DEF Typed, TaskRecord
    <3>3. detections' \subseteq [attempt : Attempt, speaker : Speaker]
      BY <2>8, <3>1, <3>2 DEF SubmitDetection, Typed
    <3>. QED
      BY <2>8, <3>1, <3>3 DEF SubmitDetection, StepTyped, Typed
  <2>9. CASE QueueEvicted
    <3>1. /\ task' \in [Task -> TaskRecord] /\ queue' \in Seq(Task) /\ QueueInv'
          /\ \A u \in Task : Accounted(task'[u])
      BY <2>9, EvictedTyped
    <3>. QED
      BY <2>9, <3>1 DEF QueueEvicted, Typed
  <2>. QED
    BY <2>1, <2>2, <2>3, <2>4, <2>5, <2>6, <2>7, <2>8, <2>9 DEF Next, Advance
<1>. QED
  BY <1>1, <1>2, PTL DEF Spec

\* The variables keep their types, and a message is in the broker's queue exactly
\* once while it waits there (the task queue of src/tasks/ingestion.py).
THEOREM TypeCorrect == Spec => []TypeOK
<1>1. TypeInv => TypeOK
  <2> SUFFICES ASSUME TypeInv, NEW t \in Task
               PROVE  task[t].state = "queued" <=>
                        Cardinality({i \in DOMAIN queue : queue[i] = t}) = 1
    BY DEF TypeInv, Typed, TypeOK
  <2> DEFINE places == {i \in DOMAIN queue : queue[i] = t}
  <2>1. CASE task[t].state = "queued"
    <3>1. PICK i \in DOMAIN queue : queue[i] = t
      BY <2>1 DEF TypeInv, QueueInv
    <3>2. places = {i}
      BY <3>1 DEF TypeInv, QueueInv
    <3>. QED
      BY <2>1, <3>2, FS_Singleton
  <2>2. CASE task[t].state # "queued"
    <3>1. places = {}
      BY <2>2 DEF TypeInv, QueueInv
    <3>. QED
      BY <2>2, <3>1, FS_EmptySet
  <2>. QED
    BY <2>1, <2>2
<1>. QED
  BY <1>1, TypeInvariance, PTL

-----------------------------------------------------------------------------
\* Attempts.  The executions of a message and the attempts of each are numbered
\* upwards, so what the stores hold of a message stems from attempts that have
\* begun, and from the one in work only once it is past the step that stores it.
BeforeStore == {"parsed", "stamped"}
BeforeWrite == BeforeStore \cup {"stored"}
BeforeSubmit == BeforeWrite \cup {"written"}

Begun(a) ==
  \/ a.exec < task[a.task].exec
  \/ a.exec = task[a.task].exec /\ a.no <= task[a.task].attempt

Past(a, before) ==
  /\ Begun(a) /\ Valid[task[a.task].message]
  /\ task[a.task].state \in before => a # ThisAttempt(a.task)

\* What is stored for a message that was never delivered again stems from its only
\* execution, and a speaker once chosen stays registered.
EventsInv ==
  \A e \in events :
    /\ Past(e.attempt, BeforeStore)
    /\ task[e.attempt.task].redelivered = 0 => e.attempt.exec = task[e.attempt.task].exec
    /\ e.speaker \in speakers

PointsInv == \A a \in points : Past(a, BeforeWrite)

DetectionsInv == \A d \in detections : Past(d.attempt, BeforeSubmit)

\* An attempt that has stored its rows finds them all there, and no others.
StoredInv ==
  \A t \in Task :
    /\ task[t].state \in {"stored", "written"} =>
         \E s \in Speaker :
           task[t].speaker = {s} /\ {e \in events : e.attempt = ThisAttempt(t)} = Rows(t, s)
    /\ task[t].state = "written" =>
         (ThisAttempt(t) \in points <=> HasRows(task[t].message))

StoreInv == EventsInv /\ PointsInv /\ DetectionsInv /\ StoredInv

SameAttempt(t) ==
  /\ task'[t].exec = task[t].exec /\ task'[t].attempt = task[t].attempt
  /\ \A before \in {BeforeStore, BeforeWrite, BeforeSubmit} :
       task'[t].state \in before => task[t].state \in before

NewAttempt(t) ==
  \/ task'[t].exec = task[t].exec + 1
  \/ task'[t].exec = task[t].exec /\ task'[t].attempt = task[t].attempt + 1

\* What a step does to a message that has been executed.
LEMMA ExecutedStep ==
  ASSUME TypeInv, [Next]_vars, NEW u \in Task,
         task[u].exec > 0, Valid[task[u].message]
  PROVE  /\ SameAttempt(u) \/ NewAttempt(u)
         /\ task'[u].message = task[u].message
         /\ task'[u].redelivered = 0 =>
              task[u].redelivered = 0 /\ task'[u].exec = task[u].exec
<1> USE DEF BeforeStore, BeforeWrite, BeforeSubmit
<1>1. task[u] \in TaskRecord /\ Accounted(task[u]) /\ task[u].redelivered \in Nat
  BY TaskFields DEF TypeInv, Typed
<1>2. CASE task'[u] = task[u]
  BY <1>2 DEF SameAttempt
<1>3. ASSUME NEW m \in Stream[u], Submit(u, m) PROVE FALSE
  BY <1>1, <1>3 DEF Submit, Accounted
<1>4. ASSUME Parse(u)
      PROVE  NewAttempt(u) /\ task'[u].message = task[u].message /\ task'[u].redelivered # 0
  <2>1. /\ task[u].state \in Waiting
        /\ task'[u] = [task[u] EXCEPT !.state = "parsed", !.exec = @ + 1, !.attempt = 1]
    BY <1>4, ParseTyped
  <2>2. task[u].redelivered # 0
    BY <1>1, <2>1 DEF Accounted, Waiting
  <2>. QED
    BY <1>1, <2>1, <2>2 DEF NewAttempt, TaskRecord
<1>5. ASSUME ParseFails(u) PROVE FALSE
  BY <1>5, ParseFailsTyped
<1>6. ASSUME \/ Stamp(u) \/ NoSpeaker(u) \/ StoreEvents(u) \/ WritePoint(u)
             \/ SubmitDetection(u) \/ Ack(u) \/ ChildDies(u)
      PROVE  /\ SameAttempt(u) /\ task'[u].message = task[u].message
             /\ task'[u].redelivered = task[u].redelivered
  <2>1. CASE Stamp(u)
    BY <2>1, AttemptSteps DEF GoesOn, SameAttempt
  <2>2. CASE NoSpeaker(u)
    BY <2>2, AttemptSteps DEF GoesOn, SameAttempt
  <2>3. CASE StoreEvents(u)
    BY <2>3, AttemptSteps DEF GoesOn, SameAttempt
  <2>4. CASE WritePoint(u)
    BY <2>4, AttemptSteps DEF GoesOn, SameAttempt
  <2>5. CASE SubmitDetection(u) \/ Ack(u) \/ ChildDies(u)
    BY <2>5, AttemptSteps DEF GoesOn, SameAttempt
  <2>. QED
    BY <1>6, <2>1, <2>2, <2>3, <2>4, <2>5
<1>7. ASSUME IngestFails(u) \/ RowsRefused(u)
      PROVE  /\ SameAttempt(u) \/ NewAttempt(u)
             /\ task'[u].message = task[u].message /\ task'[u].exec = task[u].exec
             /\ task'[u].redelivered = task[u].redelivered
  BY <1>7, AttemptFailsTyped DEF SameAttempt, NewAttempt
<1>8. ASSUME HostDies(u)
      PROVE  /\ SameAttempt(u) /\ task'[u].message = task[u].message
             /\ task'[u].redelivered # 0
  BY <1>1, <1>8, HostDiesTyped DEF SameAttempt
<1>9. CASE QueueEvicted
  <2>1. /\ task[u].state # "queued" => task'[u] = task[u]
        /\ task[u].state = "queued" => task'[u].state = "lost"
        /\ task'[u].exec = task[u].exec /\ task'[u].attempt = task[u].attempt
        /\ task'[u].message = task[u].message
        /\ task'[u].redelivered = task[u].redelivered
    BY <1>9, EvictedTyped
  <2>. QED
    BY <2>1 DEF SameAttempt
<1>10. ASSUME NEW t \in Task, t # u,
              \/ \E m \in Stream[t] : Submit(t, m)
              \/ Advance(t) \/ IngestFails(t) \/ ChildDies(t) \/ HostDies(t)
       PROVE  task'[u] = task[u]
  <2>1. StepTyped(t)
    BY <1>10, SubmitTyped, ParseTyped, ParseFailsTyped, AttemptSteps, AttemptFailsTyped,
       HostDiesTyped DEF Advance, GoesOn
  <2>. QED
    BY <1>10, <2>1 DEF StepTyped
<1>11. CASE (\E s \in Speaker : RegisterSpeaker(s)) \/ UNCHANGED vars
  BY <1>2, <1>11 DEF RegisterSpeaker, vars
<1>12. CASE \E t \in Task : \/ \E m \in Stream[t] : Submit(t, m)
                            \/ Advance(t) \/ IngestFails(t) \/ ChildDies(t) \/ HostDies(t)
  <2>1. PICK t \in Task : \/ \E m \in Stream[t] : Submit(t, m)
                          \/ Advance(t) \/ IngestFails(t) \/ ChildDies(t) \/ HostDies(t)
    BY <1>12
  <2>2. CASE t # u
    BY <1>2, <1>10, <2>1, <2>2
  <2>3. CASE t = u
    <3>1. \/ Parse(u) \/ Stamp(u) \/ NoSpeaker(u) \/ StoreEvents(u) \/ WritePoint(u)
          \/ SubmitDetection(u) \/ Ack(u) \/ ChildDies(u) \/ IngestFails(u)
          \/ RowsRefused(u) \/ HostDies(u)
      BY <1>3, <1>5, <2>1, <2>3 DEF Advance
    <3>2. CASE Parse(u) \/ HostDies(u)
      BY <1>4, <1>8, <3>2
    <3>3. CASE IngestFails(u) \/ RowsRefused(u)
      BY <1>7, <3>3
    <3>4. CASE \/ Stamp(u) \/ NoSpeaker(u) \/ StoreEvents(u) \/ WritePoint(u)
               \/ SubmitDetection(u) \/ Ack(u) \/ ChildDies(u)
      <4>1. /\ SameAttempt(u) /\ task'[u].message = task[u].message
            /\ task'[u].redelivered = task[u].redelivered
        BY <1>6, <3>4
      <4>. QED
        BY <4>1 DEF SameAttempt
    <3>. QED
      BY <3>1, <3>2, <3>3, <3>4
  <2>. QED
    BY <2>2, <2>3
<1>. QED
  BY <1>9, <1>11, <1>12 DEF Next

\* The message of an attempt that has begun has been executed.
LEMMA BegunExecuted ==
  ASSUME TypeInv, NEW a \in Attempt, Begun(a)
  PROVE  task[a.task].exec > 0 /\ a.task \in Task
<1>1. a.task \in Task /\ a.exec \in Nat /\ a.exec > 0
  BY Bounds DEF Attempt
<1>2. task[a.task].exec \in Nat
  BY <1>1, TaskFields DEF TypeInv, Typed
<1>. QED
  BY <1>1, <1>2 DEF Begun

\* What lies in the past stays there, for the message that it is about.
LEMMA PastStays ==
  ASSUME TypeInv, TypeInv', [Next]_vars, NEW a \in Attempt,
         NEW before \in {BeforeStore, BeforeWrite, BeforeSubmit}, Past(a, before)
  PROVE  Past(a, before)' /\ task'[a.task].message = task[a.task].message
<1> DEFINE u == a.task
<1>1. u \in Task /\ task[u].exec > 0 /\ Valid[task[u].message]
  BY BegunExecuted DEF Past
<1>2. /\ SameAttempt(u) \/ NewAttempt(u)
      /\ task'[u].message = task[u].message
  BY <1>1, ExecutedStep
<1>3. /\ task[u].exec \in Nat /\ task'[u].exec \in Nat
      /\ task[u].attempt \in Nat /\ task'[u].attempt \in Nat
      /\ a.exec \in Nat /\ a.no \in Nat
  <2>1. task[u] \in TaskRecord /\ task'[u] \in TaskRecord
    BY <1>1 DEF TypeInv, Typed
  <2>. QED
    BY <2>1, TaskFields, Bounds DEF Attempt
<1>4. CASE SameAttempt(u)
  BY <1>1, <1>2, <1>4 DEF SameAttempt, Past, Begun, ThisAttempt
<1>5. CASE NewAttempt(u)
  <2>1. \/ a.exec < task'[u].exec
        \/ a.exec = task'[u].exec /\ a.no < task'[u].attempt
    BY <1>3, <1>5 DEF NewAttempt, Past, Begun
  <2>2. a # ThisAttempt(u)' /\ Begun(a)'
    BY <1>3, <2>1 DEF ThisAttempt, Begun
  <2>. QED
    BY <1>1, <1>2, <2>2 DEF Past
<1>. QED
  BY <1>2, <1>4, <1>5

\* What each step adds to the stores.
LEMMA StoreStep ==
  ASSUME TypeInv, [Next]_vars
  PROVE  /\ UNCHANGED events \/ \E t \in Task : StoreEvents(t)
         /\ UNCHANGED points \/ \E t \in Task : WritePoint(t)
         /\ UNCHANGED detections \/ \E t \in Task : SubmitDetection(t)
         /\ speakers \subseteq speakers'
<1>1. CASE UNCHANGED vars
  BY <1>1 DEF vars
<1>2. CASE \E t \in Task : Advance(t)
  BY <1>2 DEF Advance, Parse, ParseFails, Stamp, NoSpeaker, StoreEvents, RowsRefused,
              WritePoint, SubmitDetection, Ack
<1>3. CASE \/ \E s \in Speaker : RegisterSpeaker(s)
           \/ \E t \in Task : \E m \in Stream[t] : Submit(t, m)
           \/ \E t \in Task : IngestFails(t) \/ ChildDies(t) \/ HostDies(t)
           \/ QueueEvicted
  BY <1>3 DEF RegisterSpeaker, Submit, IngestFails, ChildDies, HostDies, QueueEvicted
<1>. QED
  BY <1>1, <1>2, <1>3 DEF Next

\* Rows keep what is said of them, and those that are added stem from the attempt
\* in work.
LEMMA EventsStep ==
  ASSUME TypeInv, TypeInv', EventsInv, [Next]_vars
  PROVE  EventsInv'
<1>1. ASSUME NEW e \in events
      PROVE  /\ Past(e.attempt, BeforeStore)'
             /\ task'[e.attempt.task].redelivered = 0 =>
                  e.attempt.exec = task'[e.attempt.task].exec
             /\ e.speaker \in speakers'
  <2>1. e.attempt \in Attempt /\ Past(e.attempt, BeforeStore) /\ e.speaker \in speakers
    BY DEF TypeInv, Typed, EventRow, EventsInv
  <2>2. Past(e.attempt, BeforeStore)'
    BY <2>1, PastStays
  <2>3. task'[e.attempt.task].redelivered = 0 =>
          /\ task[e.attempt.task].redelivered = 0
          /\ task'[e.attempt.task].exec = task[e.attempt.task].exec
    BY <2>1, BegunExecuted, ExecutedStep DEF Past
  <2>. QED
    BY <2>1, <2>2, <2>3, StoreStep DEF EventsInv
<1>2. CASE UNCHANGED events
  BY <1>1, <1>2 DEF EventsInv
<1>3. ASSUME NEW t \in Task, StoreEvents(t) PROVE EventsInv'
  <2>1. PICK s \in Resolved(t) : events' = events \cup Rows(t, s)
    BY <1>3 DEF StoreEvents
  <2>2. /\ GoesOn(t) /\ task[t].state = "stamped" /\ task'[t].state = "stored"
        /\ Running(t) /\ s \in speakers /\ s \in Speaker
    BY <1>3, <2>1, AttemptSteps, ResolvedRegistered DEF Running, Ingesting, TypeInv, Typed
  <2>3. ASSUME NEW e \in Rows(t, s)
        PROVE  /\ Past(e.attempt, BeforeStore)'
               /\ e.attempt.exec = task'[e.attempt.task].exec
               /\ e.speaker \in speakers'
    <3>1. e.attempt = ThisAttempt(t) /\ e.speaker = s
      BY <2>2, RowsTyped
    <3>2. /\ e.attempt.task = t /\ e.attempt.exec = task'[t].exec
          /\ e.attempt.no = task'[t].attempt
      BY <2>2, <3>1 DEF ThisAttempt, GoesOn
    <3>3. Valid[task'[t].message]
      BY <2>2, RunningAttempt DEF GoesOn
    <3>4. task'[t].attempt \in Nat
      BY TaskFields DEF TypeInv, Typed
    <3>. QED
      BY <2>2, <3>1, <3>2, <3>3, <3>4, StoreStep DEF Past, Begun, BeforeStore
  <2>. QED
    BY <1>1, <2>1, <2>3 DEF EventsInv
<1>. QED
  BY <1>2, <1>3, StoreStep

\* Only a step of its own changes a message, or the loss of the queue.
LEMMA OneMoves ==
  ASSUME TypeInv, NEW t \in Task,
         \/ \E m \in Stream[t] : Submit(t, m)
         \/ Advance(t) \/ IngestFails(t) \/ ChildDies(t) \/ HostDies(t)
  PROVE  \A u \in Task : u # t => task'[u] = task[u]
<1>1. StepTyped(t)
  BY SubmitTyped, ParseTyped, ParseFailsTyped, AttemptSteps, AttemptFailsTyped,
     HostDiesTyped DEF Advance, GoesOn
<1>. QED
  BY <1>1 DEF StepTyped

\* A message is past the commit of its rows, or past its point, because the step
\* before did that or left it so.
LEMMA StoredBy ==
  ASSUME TypeInv, [Next]_vars, NEW t \in Task, task'[t].state \in {"stored", "written"}
  PROVE  task'[t] = task[t] \/ StoreEvents(t) \/ WritePoint(t)
<1>1. CASE (\E s \in Speaker : RegisterSpeaker(s)) \/ UNCHANGED vars
  BY <1>1 DEF RegisterSpeaker, vars
<1>2. CASE QueueEvicted
  <2>1. /\ task[t].state # "queued" => task'[t] = task[t]
        /\ task[t].state = "queued" => task'[t].state = "lost"
    BY <1>2, EvictedTyped
  <2>. QED
    BY <2>1
<1>3. ASSUME NEW u \in Task, \/ \E m \in Stream[u] : Submit(u, m)
                             \/ Advance(u) \/ IngestFails(u) \/ ChildDies(u) \/ HostDies(u)
      PROVE  task'[t] = task[t] \/ StoreEvents(t) \/ WritePoint(t)
  <2>1. CASE u # t
    BY <1>3, <2>1, OneMoves
  <2>2. CASE u = t
    <3>1. ASSUME NEW m \in Stream[t], Submit(t, m) PROVE FALSE
      <4>1. task'[t] = [task[t] EXCEPT !.state = "queued", !.message = m]
        BY <3>1, SubmitTyped
      <4>. QED
        BY <4>1 DEF TypeInv, Typed, TaskRecord
    <3>2. ASSUME Parse(t) PROVE FALSE
      <4>1. task'[t] = [task[t] EXCEPT !.state = "parsed", !.exec = @ + 1, !.attempt = 1]
        BY <3>2, ParseTyped
      <4>. QED
        BY <4>1 DEF TypeInv, Typed, TaskRecord
    <3>3. ~ParseFails(t)
      BY ParseFailsTyped
    <3>4. /\ ~Stamp(t) /\ ~NoSpeaker(t) /\ ~SubmitDetection(t) /\ ~Ack(t) /\ ~ChildDies(t)
      BY AttemptSteps
    <3>5. ~IngestFails(t) /\ ~RowsRefused(t) /\ ~HostDies(t)
      BY AttemptFailsTyped, HostDiesTyped
    <3>. QED
      BY <1>3, <2>2, <3>1, <3>2, <3>3, <3>4, <3>5 DEF Advance
  <2>. QED
    BY <2>1, <2>2
<1>. QED
  BY <1>1, <1>2, <1>3 DEF Next

\* Points keep what is said of them, and one is added by the attempt in work.
LEMMA PointsStep ==
  ASSUME TypeInv, TypeInv', PointsInv, [Next]_vars
  PROVE  PointsInv'
<1>1. \A a \in points : Past(a, BeforeWrite)'
  BY PastStays DEF TypeInv, Typed, PointsInv
<1>2. CASE UNCHANGED points
  BY <1>1, <1>2 DEF PointsInv
<1>3. ASSUME NEW t \in Task, WritePoint(t) PROVE PointsInv'
  <2>1. /\ GoesOn(t) /\ task'[t].state = "written" /\ Running(t)
        /\ points' \subseteq points \cup {ThisAttempt(t)}
    BY <1>3, AttemptSteps DEF WritePoint, Running, Ingesting
  <2>2. Past(ThisAttempt(t), BeforeWrite)'
    <3>1. Valid[task'[t].message] /\ task'[t].attempt \in Nat
      BY <2>1, RunningAttempt, TaskFields DEF GoesOn, TypeInv, Typed
    <3>. QED
      BY <2>1, <3>1 DEF Past, Begun, ThisAttempt, GoesOn, BeforeWrite, BeforeStore
  <2>3. ThisAttempt(t)' = ThisAttempt(t)
    BY <2>1 DEF ThisAttempt, GoesOn
  <2>. QED
    BY <1>1, <2>1, <2>2, <2>3 DEF PointsInv
<1>. QED
  BY <1>2, <1>3, StoreStep

\* So do detections, and one is submitted by an attempt that then returns.
LEMMA DetectionsStep ==
  ASSUME TypeInv, TypeInv', DetectionsInv, [Next]_vars
  PROVE  DetectionsInv'
<1>1. \A d \in detections : Past(d.attempt, BeforeSubmit)'
  BY PastStays DEF TypeInv, Typed, DetectionsInv
<1>2. CASE UNCHANGED detections
  BY <1>1, <1>2 DEF DetectionsInv
<1>3. ASSUME NEW t \in Task, SubmitDetection(t) PROVE DetectionsInv'
  <2>1. GoesOn(t) /\ task'[t].state = "returned" /\ Running(t)
    BY <1>3, AttemptSteps DEF Running, Ingesting
  <2>2. PICK s \in task[t].speaker :
          detections' = detections \cup {[attempt |-> ThisAttempt(t), speaker |-> s]}
    BY <1>3 DEF SubmitDetection
  <2>3. Past(ThisAttempt(t), BeforeSubmit)'
    <3>1. Valid[task'[t].message] /\ task'[t].attempt \in Nat
      BY <2>1, RunningAttempt, TaskFields DEF GoesOn, TypeInv, Typed
    <3>. QED
      BY <2>1, <3>1
      DEF Past, Begun, ThisAttempt, GoesOn, BeforeSubmit, BeforeWrite, BeforeStore
  <2>4. ThisAttempt(t)' = ThisAttempt(t)
    BY <2>1 DEF ThisAttempt, GoesOn
  <2>5. \A d \in detections' : d \in detections \/ d.attempt = ThisAttempt(t)
    BY <2>2
  <2>. QED
    BY <1>1, <2>3, <2>4, <2>5 DEF DetectionsInv
<1>. QED
  BY <1>2, <1>3, StoreStep

\* An attempt keeps its rows and its point, and adds exactly them.
LEMMA StoredStep ==
  ASSUME TypeInv, StoreInv, [Next]_vars
  PROVE  StoredInv'
<1> SUFFICES ASSUME NEW t \in Task, task'[t].state \in {"stored", "written"}
             PROVE  /\ \E s \in Speaker :
                         /\ task'[t].speaker = {s}
                         /\ {e \in events' : e.attempt = ThisAttempt(t)'} = Rows(t, s)'
                    /\ task'[t].state = "written" =>
                         (ThisAttempt(t)' \in points' <=> HasRows(task'[t].message))
  BY DEF StoredInv
<1>1. CASE task'[t] = task[t]
  <2>1. PICK s \in Speaker : /\ task[t].speaker = {s}
                             /\ {e \in events : e.attempt = ThisAttempt(t)} = Rows(t, s)
    BY <1>1 DEF StoreInv, StoredInv
  <2>2. ThisAttempt(t)' = ThisAttempt(t) /\ Rows(t, s)' = Rows(t, s)
    BY <1>1 DEF ThisAttempt, Rows
  <2>3. {e \in events' : e.attempt = ThisAttempt(t)} = {e \in events : e.attempt = ThisAttempt(t)}
    <3>1. CASE UNCHANGED events
      BY <3>1
    <3>2. ASSUME NEW u \in Task, StoreEvents(u)
          PROVE  {e \in events' : e.attempt = ThisAttempt(t)}
                   = {e \in events : e.attempt = ThisAttempt(t)}
      <4>1. /\ u # t /\ Running(u)
            /\ \E r \in Resolved(u) : events' = events \cup Rows(u, r)
        BY <1>1, <3>2, AttemptSteps DEF Running, Ingesting
      <4>2. PICK r \in Speaker : events' = events \cup Rows(u, r)
        BY <4>1, ResolvedRegistered DEF TypeInv, Typed
      <4>3. ThisAttempt(u) # ThisAttempt(t)
        BY <4>1 DEF ThisAttempt
      <4>4. \A e \in Rows(u, r) : e.attempt = ThisAttempt(u)
        BY <4>1, RowsTyped
      <4>. QED
        BY <4>2, <4>3, <4>4
    <3>. QED
      BY <3>1, <3>2, StoreStep
  <2>4. ThisAttempt(t) \in points' <=> ThisAttempt(t) \in points
    <3>1. CASE UNCHANGED points
      BY <3>1
    <3>2. ASSUME NEW u \in Task, WritePoint(u)
          PROVE  ThisAttempt(t) \in points' <=> ThisAttempt(t) \in points
      <4>1. u # t
        BY <1>1, <3>2, AttemptSteps
      <4>. QED
        BY <3>2, <4>1 DEF WritePoint, ThisAttempt
    <3>. QED
      BY <3>1, <3>2, StoreStep
  <2>5. task[t].state = "written" => (ThisAttempt(t) \in points <=> HasRows(task[t].message))
    BY DEF StoreInv, StoredInv
  <2>. QED
    BY <1>1, <2>1, <2>2, <2>3, <2>4, <2>5
<1>2. CASE StoreEvents(t)
  <2>1. /\ GoesOn(t) /\ task[t].state = "stamped" /\ task'[t].state = "stored"
        /\ task'[t].ts = task[t].ts
        /\ \E s \in Resolved(t) : task'[t].speaker = {s} /\ events' = events \cup Rows(t, s)
    BY <1>2, AttemptSteps
  <2>2. PICK s \in Speaker : task'[t].speaker = {s} /\ events' = events \cup Rows(t, s)
    BY <2>1, ResolvedRegistered DEF TypeInv, Typed
  <2>3. ThisAttempt(t)' = ThisAttempt(t) /\ Rows(t, s)' = Rows(t, s)
    BY <2>1 DEF ThisAttempt, Rows, GoesOn
  <2>4. \A e \in events : e.attempt # ThisAttempt(t)
    BY <2>1 DEF StoreInv, EventsInv, Past, BeforeStore, ThisAttempt
  <2>5. \A e \in Rows(t, s) : e.attempt = ThisAttempt(t)
    BY <2>1, RowsTyped DEF Running, Ingesting
  <2>6. {e \in events' : e.attempt = ThisAttempt(t)} = Rows(t, s)
    BY <2>2, <2>4, <2>5
  <2>. QED
    BY <2>1, <2>2, <2>3, <2>6
<1>3. CASE WritePoint(t)
  <2>1. /\ GoesOn(t) /\ task[t].state = "stored" /\ task'[t].state = "written"
        /\ task'[t].ts = task[t].ts /\ task'[t].speaker = task[t].speaker
        /\ events' = events
    BY <1>3, AttemptSteps DEF WritePoint
  <2>2. PICK s \in Speaker : /\ task[t].speaker = {s}
                             /\ {e \in events : e.attempt = ThisAttempt(t)} = Rows(t, s)
    BY <2>1 DEF StoreInv, StoredInv
  <2>3. /\ ThisAttempt(t)' = ThisAttempt(t) /\ Rows(t, s)' = Rows(t, s)
        /\ task'[t].message = task[t].message
    BY <2>1 DEF ThisAttempt, Rows, GoesOn
  <2>4. ThisAttempt(t) \notin points
    BY <2>1 DEF StoreInv, PointsInv, Past, BeforeWrite, ThisAttempt
  <2>5. ThisAttempt(t) \in points' <=> HasRows(task[t].message)
    BY <1>3, <2>4 DEF WritePoint
  <2>. QED
    BY <2>1, <2>2, <2>3, <2>5
<1>. QED
  BY <1>1, <1>2, <1>3, StoredBy

\* What the stores hold of a message stems from its attempts, in their order.
THEOREM StoreInvariance == Spec => []StoreInv
<1>1. Init => StoreInv
  BY DEF Init, FreeTask, StoreInv, EventsInv, PointsInv, DetectionsInv, StoredInv
<1>2. TypeInv /\ TypeInv' /\ StoreInv /\ [Next]_vars => StoreInv'
  BY EventsStep, PointsStep, DetectionsStep, StoredStep DEF StoreInv
<1>. QED
  BY <1>1, <1>2, TypeInvariance, PTL DEF Spec

-----------------------------------------------------------------------------
\* What ingestion promises.

\* The duplicates of a route change in the log are those of retries within one
\* execution and of redeliveries (ingest_metrics_task commits its rows before it
\* can fail, and self.retry stores them again).
THEOREM RepeatsAreOfFailures == Spec => []RowsRepeatOnlyByFailure
<1>1. TypeInv /\ StoreInv => RowsRepeatOnlyByFailure
  <2> SUFFICES ASSUME TypeInv, StoreInv, NEW e \in events, NEW f \in events,
                      e.attempt.task = f.attempt.task, e.attempt.exec # f.attempt.exec
               PROVE  task[e.attempt.task].redelivered > 0
    BY DEF RowsRepeatOnlyByFailure
  <2>1. task[e.attempt.task].redelivered # 0
    BY DEF StoreInv, EventsInv
  <2>2. e.attempt.task \in Task
    BY DEF TypeInv, Typed, EventRow, Attempt
  <2>3. task[e.attempt.task].redelivered \in Nat
    BY <2>2, TaskFields DEF TypeInv, Typed
  <2>. QED
    BY <2>1, <2>3
<1>. QED
  BY <1>1, TypeInvariance, StoreInvariance, PTL

\* No registered speaker matches a peer better than the one that is resolved.
LEMMA ResolvedBest ==
  ASSUME NEW t \in Task, NEW s \in Resolved(t), NEW r \in speakers
  PROVE  Match(task[t].message, r) <= Match(task[t].message, s)
<1> DEFINE m == task[t].message
<1>1. CASE AsnMatches[m] \cap speakers # {}
  <2>1. s \in AsnMatches[m]
    BY <1>1 DEF Resolved
  <2>. QED
    BY <2>1 DEF Match
<1>2. CASE AsnMatches[m] \cap speakers = {} /\ AddressMatches[m] \cap speakers # {}
  <2>1. s \in AddressMatches[m] /\ r \notin AsnMatches[m]
    BY <1>2 DEF Resolved
  <2>. QED
    BY <2>1 DEF Match
<1>3. CASE AsnMatches[m] \cap speakers = {} /\ AddressMatches[m] \cap speakers = {}
  <2>1. r \notin AsnMatches[m] /\ r \notin AddressMatches[m]
    BY <1>3
  <2>. QED
    BY <2>1 DEF Match
<1>. QED
  BY <1>1, <1>2, <1>3

\* The rows of a message that is stored again go to a speaker that matches its
\* peer no worse than before: speakers are only ever added, and each attempt
\* takes the best match there is (_resolve_speaker).
THEOREM AttributionHolds == Spec => []AttributionNeverDegrades
<1>1. Init => AttributionNeverDegrades
  BY DEF Init, AttributionNeverDegrades
<1>2. TypeInv /\ TypeInv' /\ StoreInv /\ AttributionNeverDegrades /\ [Next]_vars
        => AttributionNeverDegrades'
  <2> SUFFICES ASSUME TypeInv, TypeInv', StoreInv, AttributionNeverDegrades, [Next]_vars,
                      NEW e \in events', NEW f \in events',
                      e.attempt.task = f.attempt.task, Earlier(e.attempt, f.attempt)
               PROVE  LET m == task'[e.attempt.task].message
                      IN  Match(m, e.speaker) <= Match(m, f.speaker)
    BY DEF AttributionNeverDegrades
  <2>1. CASE e \in events /\ f \in events
    <3>1. e.attempt \in Attempt /\ Past(e.attempt, BeforeStore)
      BY <2>1 DEF TypeInv, Typed, EventRow, StoreInv, EventsInv
    <3>2. task'[e.attempt.task].message = task[e.attempt.task].message
      BY <3>1, PastStays
    <3>. QED
      BY <2>1, <3>2 DEF AttributionNeverDegrades
  <2>2. CASE ~(e \in events /\ f \in events)
    <3>1. PICK t \in Task : StoreEvents(t)
      BY <2>2, StoreStep
    <3>2. GoesOn(t) /\ Running(t)
      BY <3>1, AttemptSteps DEF Running, Ingesting
    <3>3. PICK s \in Resolved(t) : events' = events \cup Rows(t, s)
      BY <3>1 DEF StoreEvents
    <3>4. s \in Speaker
      BY ResolvedRegistered DEF TypeInv, Typed
    <3>5. \A g \in Rows(t, s) : g.attempt = ThisAttempt(t) /\ g.speaker = s
      BY <3>2, <3>4, RowsTyped
    <3>6. ThisAttempt(t).exec \in Nat /\ ThisAttempt(t).no \in Nat
      BY TaskFields DEF ThisAttempt, TypeInv, Typed
    <3>7. CASE e \in Rows(t, s) /\ f \in Rows(t, s)
      BY <3>5, <3>6, <3>7 DEF Earlier
    <3>8. CASE e \in Rows(t, s) /\ f \in events
      <4>1. Begun(f.attempt) /\ f.attempt \in Attempt /\ f.attempt.task = t
        BY <3>5, <3>8 DEF StoreInv, EventsInv, Past, TypeInv, Typed, EventRow, ThisAttempt
      <4>2. f.attempt.exec \in Nat /\ f.attempt.no \in Nat
        BY <4>1, Bounds DEF Attempt
      <4>. QED
        BY <3>5, <3>6, <3>8, <4>1, <4>2 DEF Earlier, Begun, ThisAttempt
    <3>9. CASE e \in events /\ f \in Rows(t, s)
      <4>1. e.speaker \in speakers /\ e.attempt.task = t /\ f.speaker = s
        BY <3>5, <3>9 DEF StoreInv, EventsInv, ThisAttempt
      <4>2. task'[t].message = task[t].message
        BY <3>2 DEF GoesOn
      <4>. QED
        BY <4>1, <4>2, ResolvedBest
    <3>. QED
      BY <2>2, <3>3, <3>7, <3>8, <3>9
  <2>. QED
    BY <2>1, <2>2
<1>. QED
  BY <1>1, <1>2, TypeInvariance, StoreInvariance, PTL DEF Spec

\* What a detection that was submitted finds.
SeesData(d) ==
  LET m == task[d.attempt.task].message
      rows == {e \in events : e.attempt = d.attempt /\ e.speaker = d.speaker}
  IN  /\ \A p \in Nlri[m] : \E e \in rows : e.type = "UPDATE" /\ e.prefix = p
      /\ \A p \in Withdrawn[m] : \E e \in rows : e.type = "WITHDRAW" /\ e.prefix = p
      /\ d.attempt \in points <=> rows # {}

\* It goes on finding it.
LEMMA DetectionStays ==
  ASSUME TypeInv, TypeInv', StoreInv, [Next]_vars, NEW d \in detections, SeesData(d)
  PROVE  SeesData(d)'
<1>1. d.attempt \in Attempt /\ Past(d.attempt, BeforeSubmit)
  BY DEF TypeInv, Typed, StoreInv, DetectionsInv
<1>2. task'[d.attempt.task].message = task[d.attempt.task].message
  BY <1>1, PastStays
<1>3. \A t \in Task : task[t].state \in BeforeSubmit => d.attempt # ThisAttempt(t)
  BY <1>1 DEF Past, ThisAttempt
<1> DEFINE rows == {e \in events : e.attempt = d.attempt /\ e.speaker = d.speaker}
<1>4. {e \in events' : e.attempt = d.attempt /\ e.speaker = d.speaker} = rows
  <2>1. CASE UNCHANGED events
    BY <2>1
  <2>2. ASSUME NEW t \in Task, StoreEvents(t)
        PROVE  {e \in events' : e.attempt = d.attempt /\ e.speaker = d.speaker} = rows
    <3>1. task[t].state = "stamped" /\ Running(t)
      BY <2>2, AttemptSteps DEF Running, Ingesting
    <3>2. PICK s \in Resolved(t) : events' = events \cup Rows(t, s)
      BY <2>2 DEF StoreEvents
    <3>3. s \in Speaker
      BY ResolvedRegistered DEF TypeInv, Typed
    <3>4. \A e \in Rows(t, s) : e.attempt # d.attempt
      BY <1>3, <3>1, <3>3, RowsTyped DEF BeforeSubmit, BeforeWrite, BeforeStore
    <3>. QED
      BY <3>2, <3>4
  <2>. QED
    BY <2>1, <2>2, StoreStep
<1>5. d.attempt \in points' <=> d.attempt \in points
  <2>1. CASE UNCHANGED points
    BY <2>1
  <2>2. ASSUME NEW t \in Task, WritePoint(t)
        PROVE  d.attempt \in points' <=> d.attempt \in points
    <3>1. d.attempt # ThisAttempt(t)
      BY <1>3, <2>2, AttemptSteps DEF BeforeSubmit, BeforeWrite
    <3>. QED
      BY <2>2, <3>1 DEF WritePoint
  <2>. QED
    BY <2>1, <2>2, StoreStep
<1>. QED
  BY <1>2, <1>4, <1>5 DEF SeesData

\* It finds it when it is submitted.
LEMMA DetectionStarts ==
  ASSUME TypeInv, StoreInv, NEW t \in Task, SubmitDetection(t)
  PROVE  \A d \in detections' \ detections : SeesData(d)'
<1>1. /\ GoesOn(t) /\ task[t].state = "written" /\ UNCHANGED <<events, points>>
  BY AttemptSteps DEF SubmitDetection
<1>2. PICK s \in Speaker : /\ task[t].speaker = {s}
                           /\ {e \in events : e.attempt = ThisAttempt(t)} = Rows(t, s)
  BY <1>1 DEF StoreInv, StoredInv
<1>3. ThisAttempt(t) \in points <=> HasRows(task[t].message)
  BY <1>1 DEF StoreInv, StoredInv
<1> SUFFICES ASSUME NEW d \in detections', d \notin detections PROVE SeesData(d)'
  OBVIOUS
<1>4. d.attempt = ThisAttempt(t) /\ d.speaker = s
  BY <1>2 DEF SubmitDetection
<1>5. d.attempt.task = t /\ task'[t].message = task[t].message
  BY <1>1, <1>4 DEF ThisAttempt, GoesOn
<1>6. {e \in events' : e.attempt = d.attempt /\ e.speaker = d.speaker} = Rows(t, s)
  <2>1. \A e \in Rows(t, s) : e.speaker = s
    BY <1>1, RowsTyped DEF Running, Ingesting
  <2>. QED
    BY <1>1, <1>2, <1>4, <2>1
<1> DEFINE m == task[t].message
<1>7. /\ \A p \in Nlri[m] : \E e \in Rows(t, s) : e.type = "UPDATE" /\ e.prefix = p
      /\ \A p \in Withdrawn[m] : \E e \in Rows(t, s) : e.type = "WITHDRAW" /\ e.prefix = p
      /\ HasRows(m) <=> Rows(t, s) # {}
  <2> DEFINE row(type, p) == [attempt |-> ThisAttempt(t), type |-> type, prefix |-> p,
                              speaker |-> s, timestamp |-> task[t].ts]
  <2>1. Rows(t, s) = {row("UPDATE", p) : p \in Nlri[m]}
                       \cup {row("WITHDRAW", p) : p \in Withdrawn[m]}
    BY DEF Rows
  <2>2. \A type, p : row(type, p).type = type /\ row(type, p).prefix = p
    OBVIOUS
  <2> HIDE DEF row
  <2>. QED
    BY <2>1, <2>2 DEF HasRows
<1>. QED
  BY <1>1, <1>3, <1>4, <1>5, <1>6, <1>7 DEF SeesData

\* A detection is submitted only once the rows of its attempt are committed under
\* the speaker it examines, with a point exactly when there are rows, and both
\* stay there (ingest_metrics_task, before detect_anomalies_task.delay).
THEOREM DetectionsSeeData == Spec => []DetectionSeesData
<1>1. DetectionSeesData <=> \A d \in detections : SeesData(d)
  BY DEF DetectionSeesData, SeesData
<1>2. Init => DetectionSeesData
  BY DEF Init, DetectionSeesData
<1>3. TypeInv /\ TypeInv' /\ StoreInv /\ DetectionSeesData /\ [Next]_vars
        => DetectionSeesData'
  <2> SUFFICES ASSUME TypeInv, TypeInv', StoreInv, DetectionSeesData, [Next]_vars
               PROVE  \A d \in detections' : SeesData(d)'
    BY DEF DetectionSeesData, SeesData
  <2>. QED
    BY <1>1, DetectionStays, DetectionStarts, StoreStep
<1>. QED
  BY <1>2, <1>3, TypeInvariance, StoreInvariance, PTL DEF Spec

-----------------------------------------------------------------------------
\* The route log.

\* What RouteLog sees of ingestion.
Carries == [t \in Task |-> task[t].message]
Closed == {t \in Task : Settled(t)}
LogRow(e) == [task |-> e.attempt.task, copy |-> <<e.attempt.exec, e.attempt.no>>,
              change |-> <<e.type, e.prefix>>, speaker |-> e.speaker,
              timestamp |-> e.timestamp]
LogRows == {LogRow(e) : e \in events}

\* A step that changes no row, carries no new message and settles none is a
\* stutter of the route log, and one that settles messages closes them.
LEMMA SettlesOnly ==
  ASSUME TypeInv, UNCHANGED events,
         \A u \in Task : task'[u].message = task[u].message,
         \A u \in Task : Settled(u) => Settled(u)',
         \A u \in Task : Settled(u)' /\ ~Settled(u) => task[u].message # NoMessage
  PROVE  [Log!Next]_Log!vars
<1>1. Carries' = Carries /\ LogRows' = LogRows
  BY DEF Carries, LogRows, LogRow
<1>2. CASE Closed' = Closed
  BY <1>1, <1>2 DEF Log!vars, Carries, Closed, LogRows, LogRow
<1>3. CASE Closed' # Closed
  <2> DEFINE T == Closed' \ Closed
  <2>1. /\ Closed' = Closed \cup T /\ T # {} /\ T \in SUBSET Task
        /\ \A u \in T : task[u].message # NoMessage /\ u \notin Closed
    BY <1>3 DEF Closed
  <2>2. \A u \in T : Carries[u] # NoMessage
    BY <2>1 DEF Carries
  <2> HIDE DEF T
  <2>3. Log!Close(T)
    BY <1>1, <2>1, <2>2 DEF Log!Close, Carries, Closed, LogRows, LogRow
  <2>. QED
    BY <2>1, <2>3 DEF Log!Next
<1>. QED
  BY <1>2, <1>3

\* The commit of an attempt writes one whole copy of what its message changes.
LEMMA StoreWrites ==
  ASSUME TypeInv, StoreInv, NEW t \in Task, StoreEvents(t)
  PROVE  [Log!Next]_Log!vars
<1>1. /\ GoesOn(t) /\ task[t].state = "stamped" /\ task'[t].state = "stored"
      /\ Running(t)
  BY AttemptSteps DEF Running, Ingesting
<1>2. PICK s \in Resolved(t) : events' = events \cup Rows(t, s)
  BY DEF StoreEvents
<1>3. s \in Speaker
  BY ResolvedRegistered DEF TypeInv, Typed
<1>4. \A u \in Task : task'[u].message = task[u].message /\ (Settled(u)' <=> Settled(u))
  BY <1>1 DEF GoesOn, StepTyped, Settled
<1>5. Carries' = Carries /\ Closed' = Closed
  BY <1>4 DEF Carries, Closed
<1>6. CASE Rows(t, s) = {}
  <2>1. UNCHANGED events
    BY <1>2, <1>6
  <2>. QED
    BY <1>4, <2>1, SettlesOnly
<1>7. CASE Rows(t, s) # {}
  <2> DEFINE m == task[t].message
             ts == task[t].ts
             c == <<task[t].exec, task[t].attempt>>
             change == ({"UPDATE"} \X Nlri[m]) \cup ({"WITHDRAW"} \X Withdrawn[m])
             copy == {[task |-> t, copy |-> c, change |-> x, speaker |-> s,
                       timestamp |-> ts] : x \in change}
  <2>1. /\ m \in Message /\ m # NoMessage /\ t \notin Closed /\ ts \in 0..MaxTime
    BY <1>1, RunningAttempt, MessageAssumption
       DEF MessageAssumption, Closed, Settled, TypeInv, Typed, TaskRecord
  <2>2. {LogRow(e) : e \in Rows(t, s)} = copy
    <3> DEFINE row(type, p) == [attempt |-> ThisAttempt(t), type |-> type, prefix |-> p,
                                speaker |-> s, timestamp |-> ts]
               entry(type, p) == [task |-> t, copy |-> c, change |-> <<type, p>>,
                                  speaker |-> s, timestamp |-> ts]
    <3>1. Rows(t, s) = {row("UPDATE", p) : p \in Nlri[m]}
                         \cup {row("WITHDRAW", p) : p \in Withdrawn[m]}
      BY DEF Rows
    <3>2. \A type, p : LogRow(row(type, p)) = entry(type, p)
      BY DEF LogRow, ThisAttempt
    <3>3. copy = {entry("UPDATE", p) : p \in Nlri[m]}
                   \cup {entry("WITHDRAW", p) : p \in Withdrawn[m]}
      OBVIOUS
    <3> HIDE DEF row, entry, copy
    <3>. QED
      BY <3>1, <3>2, <3>3
  <2>3. LogRows' = LogRows \cup copy
    BY <1>2, <2>2 DEF LogRows
  <2>4. \A r \in LogRows : ~(r.task = t /\ r.copy = c)
    <3>1. \A e \in events : e.attempt \in Attempt /\ e.attempt # ThisAttempt(t)
      BY <1>1 DEF TypeInv, Typed, EventRow, StoreInv, EventsInv, Past, BeforeStore,
                  ThisAttempt
    <3>2. \A a \in Attempt : a.task = t /\ <<a.exec, a.no>> = c => a = ThisAttempt(t)
      BY DEF Attempt, ThisAttempt
    <3>. QED
      BY <3>1, <3>2 DEF LogRows, LogRow
  <2>5. c \in {r.copy : r \in LogRows'}
    <3>1. PICK e \in Rows(t, s) : TRUE
      BY <1>7
    <3>2. e.attempt = ThisAttempt(t) /\ e \in events'
      BY <1>1, <1>2, <1>3, RowsTyped
    <3>3. LogRow(e).copy = c
      BY <3>2 DEF LogRow, ThisAttempt
    <3>4. LogRow(e) \in LogRows'
      BY <3>2 DEF LogRows
    <3>. QED
      BY <3>3, <3>4
  <2>6. copy = Log!Copy(t, c, s, ts)
    BY <2>1 DEF Log!Copy
  <2>7. Carries[t] # NoMessage
    BY <2>1 DEF Carries
  <2> HIDE DEF copy, c, ts
  <2>8. Log!Write(t)
    BY <1>3, <1>5, <2>1, <2>3, <2>4, <2>5, <2>6, <2>7
       DEF Log!Write, Carries, Closed, LogRows, LogRow
  <2>. QED
    BY <2>8 DEF Log!Next
<1>. QED
  BY <1>6, <1>7

\* Every other step of a message stutters, sends it or closes it.
LEMMA StepRefines == TypeInv /\ StoreInv /\ [Next]_vars => [Log!Next]_Log!vars
<1> SUFFICES ASSUME TypeInv, StoreInv, [Next]_vars PROVE [Log!Next]_Log!vars
  OBVIOUS
<1>1. CASE (\E s \in Speaker : RegisterSpeaker(s)) \/ UNCHANGED vars
  BY <1>1, SettlesOnly DEF RegisterSpeaker, vars, Settled
<1>2. ASSUME NEW t \in Task, NEW m \in Stream[t], Submit(t, m) PROVE [Log!Next]_Log!vars
  <2>1. /\ StepTyped(t) /\ task[t] \in TaskRecord /\ Accounted(task[t])
        /\ task'[t] = [task[t] EXCEPT !.state = "queued", !.message = m]
        /\ task[t].state = "free"
    BY <1>2, SubmitTyped DEF Submit, TypeInv, Typed
  <2>2. m \in Message /\ task[t].message = NoMessage
    BY <2>1, StreamOfMessages DEF Accounted
  <2>3. task'[t].message = m /\ task'[t].state = "queued"
    BY <2>1 DEF TaskRecord
  <2>4. Closed' = Closed
    BY <2>1, <2>3 DEF Closed, Settled, StepTyped
  <2>5. Carries' = [Carries EXCEPT ![t] = m] /\ Carries[t] = NoMessage
    BY <2>1, <2>2, <2>3 DEF Carries, StepTyped
  <2>6. LogRows' = LogRows
    BY <1>2 DEF Submit, LogRows, LogRow
  <2>7. Log!Send(t, m)
    BY <2>4, <2>5, <2>6 DEF Log!Send, Carries, Closed, LogRows, LogRow
  <2>. QED
    BY <2>2, <2>7 DEF Log!Next
<1>3. ASSUME NEW t \in Task, \/ Parse(t) \/ ParseFails(t) \/ Stamp(t) \/ NoSpeaker(t)
                             \/ RowsRefused(t) \/ WritePoint(t) \/ SubmitDetection(t)
                             \/ Ack(t) \/ IngestFails(t) \/ ChildDies(t) \/ HostDies(t)
      PROVE  [Log!Next]_Log!vars
  <2>1. task[t] \in TaskRecord /\ Accounted(task[t])
    BY DEF TypeInv, Typed
  <2>2. /\ StepTyped(t) /\ task'[t].message = task[t].message
        /\ task[t].state \in Waiting \cup Working
    <3>1. CASE Parse(t)
      <4>1. /\ StepTyped(t) /\ task[t].state \in Waiting
            /\ task'[t] = [task[t] EXCEPT !.state = "parsed", !.exec = @ + 1, !.attempt = 1]
        BY <3>1, ParseTyped
      <4>. QED
        BY <2>1, <4>1 DEF TaskRecord
    <3>2. CASE ParseFails(t)
      BY <3>2, ParseFailsTyped
    <3>3. CASE \/ Stamp(t) \/ NoSpeaker(t) \/ WritePoint(t) \/ SubmitDetection(t) \/ Ack(t)
               \/ ChildDies(t)
      <4>1. GoesOn(t)
        BY <3>3, AttemptSteps
      <4>2. task[t].state \in Working
        BY <3>3 DEF Stamp, NoSpeaker, WritePoint, SubmitDetection, Ack, ChildDies,
                    Running, Ingesting, Working
      <4>. QED
        BY <4>1, <4>2 DEF GoesOn
    <3>4. CASE RowsRefused(t) \/ IngestFails(t)
      BY <3>4, AttemptFailsTyped DEF Ingesting, Working
    <3>5. CASE HostDies(t)
      BY <3>5, HostDiesTyped DEF Waiting
    <3>. QED
      BY <1>3, <3>1, <3>2, <3>3, <3>4, <3>5
  <2>3. UNCHANGED events
    BY <1>3 DEF Parse, ParseFails, Stamp, NoSpeaker, RowsRefused, WritePoint,
                SubmitDetection, Ack, IngestFails, ChildDies, HostDies
  <2>4. task[t].message # NoMessage /\ ~Settled(t)
    BY <2>1, <2>2, MessageAssumption
       DEF Accounted, Waiting, Working, Settled, MessageAssumption
  <2>5. /\ \A u \in Task : task'[u].message = task[u].message
        /\ \A u \in Task : Settled(u) => Settled(u)'
        /\ \A u \in Task : Settled(u)' /\ ~Settled(u) => task[u].message # NoMessage
    BY <2>2, <2>4 DEF StepTyped, Settled
  <2>. QED
    BY <2>3, <2>5, SettlesOnly
<1>4. CASE QueueEvicted
  <2>1. ASSUME NEW u \in Task
        PROVE  /\ task'[u].message = task[u].message
               /\ Settled(u) => Settled(u)'
               /\ Settled(u)' /\ ~Settled(u) => task[u].message # NoMessage
    <3>1. /\ task'[u].message = task[u].message
          /\ task[u].state # "queued" => task'[u] = task[u]
          /\ task[u].state = "queued" => task'[u].state = "lost"
      BY <1>4, EvictedTyped
    <3>2. task[u].state = "queued" => task[u].message # NoMessage
      BY MessageAssumption DEF TypeInv, Accounted, MessageAssumption
    <3>. QED
      BY <3>1, <3>2 DEF Settled
  <2>2. UNCHANGED events
    BY <1>4 DEF QueueEvicted
  <2>. QED
    BY <2>1, <2>2, SettlesOnly
<1>5. ASSUME NEW t \in Task, StoreEvents(t) PROVE [Log!Next]_Log!vars
  BY <1>5, StoreWrites
<1>6. CASE \E t \in Task : Advance(t)
  BY <1>3, <1>5, <1>6 DEF Advance
<1>7. CASE \E t \in Task : IngestFails(t) \/ ChildDies(t) \/ HostDies(t)
  BY <1>3, <1>7
<1>. QED
  BY <1>1, <1>2, <1>4, <1>6, <1>7 DEF Next

\* Ingestion implements the route log that the readers of route_events rely on
\* (RouteEvent of src/api/models.py): whole messages are appended, once for each
\* attempt, and nothing is altered, removed or added after the message is settled.
THEOREM ImplementsRouteLog == Spec => KeepsRouteLog
<1>1. Init => Log!Init
  BY DEF Init, Log!Init, FreeTask, Settled
<1>. QED
  BY <1>1, StepRefines, TypeInvariance, StoreInvariance, PTL
     DEF Spec, KeepsRouteLog, Log!Spec
=============================================================================
