--------------------------- MODULE Closing_proofs ---------------------------
(***************************************************************************)
(* What the end of a session guarantees, for any number of sessions, of    *)
(* requests and of attempts.  The argument is about the one worker: what   *)
(* it holds in its memory agrees with the tables, whichever step it failed *)
(* at and however often a job came back.                                   *)
(***************************************************************************)
EXTENDS Closing, TLAPS

USE ClosingAssumption DEF ClosingAssumption

-----------------------------------------------------------------------------
(* The inductive invariant *)

\* A job in the worker's hands may be tried once more, at least; while its session is
\* being evaluated there is no evaluation of it; the brief to come is of one that
\* exists, and when it is filed its document is stored.
WorkerKnows ==
  worker # Idle =>
    LET s == worker.job.session
    IN  /\ worker.job.attempts < MaxAttempts
        /\ worker.pc = "evaluating" => Versions(s) = {}
        /\ worker.pc \in {"briefing", "filing"} => worker.version \in Versions(s)
        /\ worker.pc = "filing" => <<s, worker.version>> \in objects

Tables == NeverRebilled /\ BriefsBacked /\ AttemptsCounted /\ WorkerKnows
IInv == TypeOK /\ Tables /\ NothingForgotten

-----------------------------------------------------------------------------
(* Lemmas *)

\* With one evaluation at most, Latest tells whether there is one and which it is.
LEMMA LatestSound ==
  ASSUME TypeOK, NeverRebilled, NEW s \in Sessions
  PROVE  /\ Latest(s) \in Nat
         /\ Latest(s) = 0 => Versions(s) = {}
         /\ Latest(s) # 0 => Latest(s) \in Versions(s)
<1>1. Versions(s) \subseteq Nat \ {0}
  BY DEF TypeOK, Versions, Eval
<1>2. \A v, w \in Versions(s) : v = w
  BY DEF NeverRebilled, Versions
<1>3. CASE Versions(s) = {}
  BY <1>3 DEF Latest
<1>4. CASE Versions(s) # {}
  <2>1. PICK v \in Versions(s) : \A w \in Versions(s) : w <= v
    BY <1>1, <1>2, <1>4
  <2>2. Latest(s) \in Versions(s)
    BY <1>4, <2>1 DEF Latest
  <2> QED BY <1>1, <2>2
<1> QED BY <1>3, <1>4

\* Versions only looks at the evaluations.
LEMMA SameVersions ==
  ASSUME UNCHANGED evals, NEW s PROVE Versions(s)' = Versions(s)
BY DEF Versions

\* A worker that has a job is busy with it.
LEMMA WorkerBusy ==
  ASSUME TypeOK, worker # Idle
  PROVE  worker \in Busy /\ worker.job \in Job /\ worker.job.session \in Sessions
BY DEF TypeOK, Busy, Job

\* A job put at the right end of the queue.
LEMMA AtTheEnd ==
  ASSUME NEW S, NEW q \in Seq(S), NEW j \in S
  PROVE  /\ q \o <<j>> \in Seq(S)
         /\ \A i \in DOMAIN (q \o <<j>>) : IF i \in DOMAIN q THEN (q \o <<j>>)[i] = q[i]
                                                          ELSE (q \o <<j>>)[i] = j
         /\ DOMAIN q \subseteq DOMAIN (q \o <<j>>)
         /\ \E i \in DOMAIN (q \o <<j>>) : (q \o <<j>>)[i] = j
<1>1. q \o <<j>> \in Seq(S)
  OBVIOUS
<1>2. /\ DOMAIN (q \o <<j>>) = 1..(Len(q) + 1)
      /\ DOMAIN q = 1..Len(q)
      /\ Len(q) \in Nat
  OBVIOUS
<1>3. (q \o <<j>>)[Len(q) + 1] = j
  OBVIOUS
<1>4. \A i \in 1..Len(q) : (q \o <<j>>)[i] = q[i]
  OBVIOUS
<1> QED BY <1>1, <1>2, <1>3, <1>4

\* A job put at the left end of the queue.
LEMMA AtTheFront ==
  ASSUME NEW S, NEW q \in Seq(S), NEW j \in S
  PROVE  /\ <<j>> \o q \in Seq(S)
         /\ \A i \in DOMAIN (<<j>> \o q) : \/ (<<j>> \o q)[i] = j
                                           \/ \E k \in DOMAIN q : (<<j>> \o q)[i] = q[k]
         /\ \A k \in DOMAIN q : \E i \in DOMAIN (<<j>> \o q) : (<<j>> \o q)[i] = q[k]
         /\ \E i \in DOMAIN (<<j>> \o q) : (<<j>> \o q)[i] = j
<1>1. <<j>> \o q \in Seq(S)
  OBVIOUS
<1>2. /\ DOMAIN (<<j>> \o q) = 1..(Len(q) + 1)
      /\ DOMAIN q = 1..Len(q)
      /\ Len(q) \in Nat
  OBVIOUS
<1>3. (<<j>> \o q)[1] = j
  OBVIOUS
<1>4. \A k \in 1..Len(q) : (<<j>> \o q)[k + 1] = q[k]
  OBVIOUS
<1>5. \A i \in 1..(Len(q) + 1) : 
        i = 1 \/ (i - 1 \in 1..Len(q) /\ (<<j>> \o q)[i] = q[i - 1])
  <2> SUFFICES ASSUME NEW i \in 1..(Len(q) + 1), i # 1
               PROVE  i - 1 \in 1..Len(q) /\ (<<j>> \o q)[i] = q[i - 1]
    OBVIOUS
  <2>1. i - 1 \in 1..Len(q) /\ (i - 1) + 1 = i
    BY <1>2
  <2> QED BY <1>4, <2>1
<1>6. /\ \A k \in 1..Len(q) : k + 1 \in 1..(Len(q) + 1)
      /\ 1 \in 1..(Len(q) + 1)
  BY <1>2
<1>7. \A i \in DOMAIN (<<j>> \o q) : \/ (<<j>> \o q)[i] = j
                                    \/ \E k \in DOMAIN q : (<<j>> \o q)[i] = q[k]
  <2> SUFFICES ASSUME NEW i \in 1..(Len(q) + 1)
               PROVE  \/ (<<j>> \o q)[i] = j
                      \/ \E k \in 1..Len(q) : (<<j>> \o q)[i] = q[k]
    BY <1>2, Zenon
  <2>1. CASE i = 1
    BY <1>3, <2>1, Zenon
  <2>2. CASE i - 1 \in 1..Len(q) /\ (<<j>> \o q)[i] = q[i - 1]
    BY <2>2, Zenon
  <2> QED BY <1>5, <2>1, <2>2, Zenon
<1>8. \A k \in DOMAIN q : \E i \in DOMAIN (<<j>> \o q) : (<<j>> \o q)[i] = q[k]
  BY <1>2, <1>4, <1>6, Zenon
<1> QED BY <1>1, <1>2, <1>3, <1>6, <1>7, <1>8, Zenon

\* A job that failed goes back with one more attempt on its count.
LEMMA RetriedJob ==
  ASSUME TypeOK, WorkerKnows, worker # Idle
  PROVE  /\ Retried \in Job
         /\ Retried.session = worker.job.session
         /\ Retried.attempts = worker.job.attempts + 1
<1>1. worker.job \in Job /\ worker.job.attempts < MaxAttempts
  BY WorkerBusy DEF WorkerKnows
<1> QED BY <1>1 DEF Retried, Job

-----------------------------------------------------------------------------
(* Type correctness *)

\* The empty tables are well typed.
LEMMA TypeInit == Init => TypeOK
BY DEF Init, TypeOK, Statuses

\* Every step writes what its table, queue or worker may hold.
LEMMA TypeStep ==
  ASSUME TypeOK, WorkerKnows, NeverRebilled, [Next]_vars
  PROVE  TypeOK'
<1> USE DEF TypeOK
<1>1. ASSUME NEW r \in Requests, NEW s \in Sessions, NEW t \in Statuses, Patch(r, s, t)
      PROVE TypeOK'
  BY <1>1 DEF Patch, Handling
<1>2. ASSUME NEW r \in Requests, CommitPatch(r) PROVE TypeOK'
  <2>1. req[r] \in Handling
    BY <1>2 DEF CommitPatch, Idle
  <2> QED BY <1>2, <2>1 DEF CommitPatch, Handling
<1>3. ASSUME NEW r \in Requests, Enqueue(r) PROVE TypeOK'
  <2>1. req[r] \in Handling
    BY <1>3 DEF Enqueue, Idle
  <2>2. [session |-> req[r].session, attempts |-> 0] \in Job
    BY <2>1 DEF Handling, Job
  <2> QED BY <1>3, <2>2 DEF Enqueue
<1>4. ASSUME NEW r \in Requests, EnqueueFails(r) PROVE TypeOK'
  <2>1. req[r] \in Handling
    BY <1>4 DEF EnqueueFails, Idle
  <2> QED BY <1>4, <2>1 DEF EnqueueFails, Handling, Trouble
<1>5. CASE Pop
  BY <1>5 DEF Pop, Busy
<1>6. CASE Check
  <2>1. worker \in Busy
    BY <1>6 DEF Check, Idle
  <2>2. worker.job.session \in Sessions
    BY <2>1 DEF Busy, Job
  <2>3. Latest(worker.job.session) \in Nat
    BY <2>2, LatestSound
  <2> QED BY <1>6, <2>1, <2>3 DEF Check, Reuse, Busy
<1>7. ASSUME NEW d \in BOOLEAN, Evaluate(d) PROVE TypeOK'
  <2>1. worker \in Busy /\ worker.job.session \in Sessions
    BY <1>7, WorkerBusy DEF Evaluate, Idle
  <2> DEFINE v == Latest(worker.job.session) + 1
  <2>2. v \in Nat \ {0}
    BY <2>1, LatestSound
  <2>3. [session |-> worker.job.session, version |-> v, degraded |-> d] \in Eval
    BY <2>1, <2>2 DEF Eval
  <2>4. [worker EXCEPT !.pc = "briefing", !.version = v] \in Busy
    BY <2>1, <2>2 DEF Busy
  <2> HIDE DEF v
  <2>5. /\ evals' = evals \cup {[session |-> worker.job.session, version |-> v, degraded |-> d]}
        /\ worker' = [worker EXCEPT !.pc = "briefing", !.version = v]
    BY <1>7 DEF Evaluate, v
  <2>6. evals' \subseteq Eval
    BY <2>3, <2>5
  <2>7. worker' \in Busy
    BY <2>4, <2>5
  <2> QED BY <1>7, <2>6, <2>7 DEF Evaluate
<1>8. ASSUME worker # Idle, worker.pc \in {"briefing", "filing"}
      PROVE <<worker.job.session, worker.version>> \in Document
  <2>1. worker.version \in Versions(worker.job.session)
    BY <1>8 DEF WorkerKnows
  <2> QED BY <1>8, <2>1, WorkerBusy DEF Versions, Eval, Document
<1>9. CASE PutDocument
  <2>1. worker \in Busy /\ worker # Idle
    BY <1>9 DEF PutDocument, Idle
  <2>2. worker' \in Busy
    BY <1>9, <2>1 DEF PutDocument, Busy
  <2> QED BY <1>8, <1>9, <2>1, <2>2 DEF PutDocument
<1>10. CASE FileBrief
  <2>1. worker # Idle
    BY <1>10 DEF FileBrief, Idle
  <2> QED BY <1>8, <1>10, <2>1 DEF FileBrief
<1>11. CASE JobFails
  <2>1. worker' \in Busy
    BY <1>11, WorkerBusy DEF JobFails, Busy
  <2> QED BY <1>11, <2>1 DEF JobFails, Trouble
<1>12. CASE Retry
  <2>1. worker # Idle
    BY <1>12 DEF Retry, Idle
  <2>2. Retried \in Job
    BY <2>1, RetriedJob
  <2>3. queue \o <<Retried>> \in Seq(Job)
    BY <2>2, AtTheEnd
  <2>4. queue' \in Seq(Job)
    BY <1>12, <2>3, Zenon DEF Retry, Requeued
  <2>5. dead' \subseteq Job
    BY <1>12, <2>2 DEF Retry
  <2> QED BY <1>12, <2>4, <2>5 DEF Retry
<1>13. CASE WorkerDies
  BY <1>13, WorkerBusy DEF WorkerDies, Trouble
<1>14. CASE UNCHANGED vars
  BY <1>14 DEF vars
<1> QED
  BY <1>1, <1>2, <1>3, <1>4, <1>5, <1>6, <1>7, <1>9, <1>10, <1>11, <1>12, <1>13, <1>14 DEF Next

-----------------------------------------------------------------------------
(* The tables and the worker's memory *)

\* The steps that leave the worker, what it reads and what it writes alone.
LEMMA TablesFrame ==
  ASSUME Tables, UNCHANGED <<worker, evals, objects, briefs, dead>>, AttemptsCounted'
  PROVE  Tables'
BY DEF Tables, NeverRebilled, BriefsBacked, WorkerKnows, Versions

\* A new evaluation is the first one of its session.
LEMMA EvaluateTables ==
  ASSUME TypeOK, Tables, NEW d \in BOOLEAN, Evaluate(d),
         NEW s, s = worker.job.session
  PROVE  Tables'
<1>1. worker # Idle /\ worker \in Busy
  BY WorkerBusy DEF Evaluate, Idle
<1>2. \A f \in evals : f.session # s
  BY <1>1 DEF Tables, WorkerKnows, Evaluate, Versions
<1>3. PICK x : x = Latest(s) + 1
  OBVIOUS
<1>4. PICK n : n = [session |-> s, version |-> x, degraded |-> d]
  OBVIOUS
<1>5. evals' = evals \cup {n} /\ n.session = s /\ n.version = x
  BY <1>3, <1>4 DEF Evaluate
<1>6. NeverRebilled'
  BY <1>2, <1>5 DEF Tables, NeverRebilled
<1>7. (\A t : Versions(t) \subseteq Versions(t)') /\ x \in Versions(s)'
  BY <1>5 DEF Versions
<1>8. BriefsBacked'
  BY <1>7 DEF Tables, BriefsBacked, Evaluate
<1>9. AttemptsCounted'
  BY DEF Tables, AttemptsCounted, Evaluate
<1>10. WorkerKnows'
  <2>1. worker'.job = worker.job /\ worker'.pc = "briefing" /\ worker'.version = x
    BY <1>1, <1>3 DEF Evaluate, Busy
  <2>2. worker.job.attempts < MaxAttempts
    BY <1>1 DEF Tables, WorkerKnows
  <2> QED BY <1>7, <2>1, <2>2 DEF WorkerKnows
<1> QED BY <1>6, <1>8, <1>9, <1>10 DEF Tables

\* The steps that send a job to the queue keep its attempts in bounds.
LEMMA EnqueueCounted ==
  ASSUME TypeOK, AttemptsCounted, NEW r \in Requests, Enqueue(r)
  PROVE  AttemptsCounted'
<1>1. req[r] \in Handling
  BY DEF TypeOK, Enqueue, Idle
<1>2. PICK j : j = [session |-> req[r].session, attempts |-> 0]
  OBVIOUS
<1>3. j \in Job /\ j.attempts = 0
  BY <1>1, <1>2 DEF Handling, Job
<1>4. queue' = <<j>> \o queue /\ dead' = dead
  BY <1>2 DEF Enqueue
<1>5. queue \in Seq(Job)
  BY DEF TypeOK
<1>6. \A i \in DOMAIN queue' : queue'[i] = j \/ \E k \in DOMAIN queue : queue'[i] = queue[k]
  BY <1>3, <1>4, <1>5, AtTheFront
<1>7. j.attempts < MaxAttempts
  BY <1>3
<1> QED BY <1>4, <1>6, <1>7 DEF AttemptsCounted

\* BLPOP takes the job at the left end; the others keep their order.
LEMMA Popped ==
  ASSUME TypeOK, Pop
  PROVE  /\ Head(queue) \in Job /\ 1 \in DOMAIN queue /\ Head(queue) = queue[1]
         /\ \A i \in DOMAIN queue' : i + 1 \in DOMAIN queue /\ queue'[i] = queue[i + 1]
         /\ \A i \in DOMAIN queue : i = 1 \/ \E k \in DOMAIN queue' : queue'[k] = queue[i]
<1>1. queue \in Seq(Job) /\ queue # <<>> /\ queue' = Tail(queue)
  BY DEF TypeOK, Pop
<1>2. /\ Head(queue) \in Job /\ 1 \in DOMAIN queue /\ Head(queue) = queue[1]
      /\ \A i \in DOMAIN queue' : i + 1 \in DOMAIN queue /\ queue'[i] = queue[i + 1]
  BY <1>1
<1>3. ASSUME NEW i \in DOMAIN queue, i # 1
      PROVE  i - 1 \in DOMAIN queue' /\ queue'[i - 1] = queue[i]
  BY <1>1, <1>3
<1> QED BY <1>2, <1>3

\* The job BLPOP hands out may be tried once more.
LEMMA PopTables ==
  ASSUME TypeOK, Tables, Pop
  PROVE  Tables'
<1>1. /\ worker' = [pc |-> "popped", job |-> Head(queue), version |-> 0]
      /\ UNCHANGED <<evals, objects, briefs, dead>>
  BY DEF Pop
<1>2. worker'.pc = "popped" /\ worker'.job = queue[1]
  BY <1>1, Popped
<1>3. queue[1].attempts < MaxAttempts
  BY Popped DEF Tables, AttemptsCounted
<1>4. WorkerKnows'
  BY <1>2, <1>3 DEF WorkerKnows
<1>5. AttemptsCounted'
  BY <1>1, Popped DEF Tables, AttemptsCounted
<1>6. NeverRebilled' /\ BriefsBacked'
  BY <1>1 DEF Tables, NeverRebilled, BriefsBacked, Versions
<1> QED BY <1>4, <1>5, <1>6 DEF Tables

\* A delivery of an evaluated session goes on from the evaluation there is.
LEMMA CheckTables ==
  ASSUME TypeOK, Tables, Check, NEW s, s = worker.job.session
  PROVE  Tables'
<1>1. /\ worker # Idle /\ worker \in Busy /\ s \in Sessions
      /\ worker.job.attempts < MaxAttempts
  BY WorkerBusy DEF Check, Idle, Tables, WorkerKnows
<1>2. /\ UNCHANGED <<queue, evals, objects, briefs, dead>>
      /\ worker' = Reuse(s)
  BY DEF Check
<1>3. /\ Latest(s) = 0 => Versions(s) = {}
      /\ Latest(s) # 0 => Latest(s) \in Versions(s)
  BY <1>1, LatestSound DEF Tables
<1>4. Versions(s)' = Versions(s)
  BY <1>2 DEF Versions
<1> SUFFICES WorkerKnows'
  BY <1>2 DEF Tables, NeverRebilled, BriefsBacked, AttemptsCounted, Versions
<1>5. CASE Latest(s) = 0
  <2>1. worker'.pc = "evaluating" /\ worker'.job = worker.job
    BY <1>1, <1>2, <1>5 DEF Reuse, Busy
  <2> QED BY <1>1, <1>3, <1>4, <1>5, <2>1 DEF WorkerKnows
<1>6. CASE Latest(s) # 0 /\ <<s, Latest(s)>> \in briefs
  <2>1. worker' = Idle
    BY <1>2, <1>6 DEF Reuse
  <2> QED BY <2>1 DEF WorkerKnows
<1>7. CASE Latest(s) # 0 /\ <<s, Latest(s)>> \notin briefs
  <2>1. PICK v : v = Latest(s)
    OBVIOUS
  <2>2. worker'.pc = "briefing" /\ worker'.job = worker.job /\ worker'.version = v
    BY <1>1, <1>2, <1>7, <2>1 DEF Reuse, Busy
  <2> QED BY <1>1, <1>3, <1>4, <1>7, <2>1, <2>2 DEF WorkerKnows
<1> QED BY <1>5, <1>6, <1>7

\* When the worker goes on to file the brief its document is stored.
LEMMA PutTables ==
  ASSUME TypeOK, Tables, PutDocument
  PROVE  Tables'
<1>1. worker # Idle /\ worker \in Busy
  BY WorkerBusy DEF PutDocument, Idle
<1>2. /\ worker'.pc = "filing" /\ worker'.job = worker.job /\ worker'.version = worker.version
      /\ objects' = objects \cup {<<worker.job.session, worker.version>>}
      /\ UNCHANGED <<queue, evals, briefs, dead>>
  BY <1>1 DEF PutDocument, Busy
<1>3. /\ worker.job.attempts < MaxAttempts
      /\ worker.version \in Versions(worker.job.session)
  BY <1>1 DEF Tables, WorkerKnows, PutDocument
<1>4. \A t : Versions(t)' = Versions(t)
  BY <1>2 DEF Versions
<1>5. WorkerKnows'
  BY <1>2, <1>3, <1>4 DEF WorkerKnows, Versions
<1> QED BY <1>2, <1>4, <1>5 DEF Tables, NeverRebilled, BriefsBacked, AttemptsCounted

\* The brief that is filed has its evaluation and its document.
LEMMA FileTables ==
  ASSUME TypeOK, Tables, FileBrief
  PROVE  Tables'
<1>1. /\ worker.version \in Versions(worker.job.session)
      /\ <<worker.job.session, worker.version>> \in objects
  BY DEF Tables, WorkerKnows, FileBrief, Idle
<1>2. /\ briefs' = briefs \cup {<<worker.job.session, worker.version>>}
      /\ worker' = Idle /\ UNCHANGED <<queue, evals, objects, dead>>
  BY DEF FileBrief
<1>3. \A t : Versions(t)' = Versions(t)
  BY <1>2 DEF Versions
<1>4. BriefsBacked'
  BY <1>1, <1>2, <1>3 DEF Tables, BriefsBacked
<1> QED BY <1>2, <1>4 DEF Tables, NeverRebilled, AttemptsCounted, WorkerKnows

\* A worker that fails or dies knows nothing but its job.
LEMMA FailTables ==
  ASSUME TypeOK, Tables, JobFails \/ WorkerDies
  PROVE  Tables'
<1>1. worker # Idle /\ worker \in Busy
  BY WorkerBusy DEF JobFails, WorkerDies
<1>2. worker' = Idle \/ (worker'.pc = "failed" /\ worker'.job = worker.job)
  BY <1>1 DEF JobFails, WorkerDies, Busy
<1>3. worker.job.attempts < MaxAttempts
  BY <1>1 DEF Tables, WorkerKnows
<1>4. WorkerKnows'
  BY <1>2, <1>3 DEF WorkerKnows
<1> QED BY <1>4 DEF Tables, NeverRebilled, BriefsBacked, AttemptsCounted, Versions, JobFails, WorkerDies

\* A job tried once more was tried too seldom; the dead letters hold the others.
LEMMA RetryTables ==
  ASSUME TypeOK, Tables, Retry
  PROVE  Tables'
<1>1. worker # Idle /\ worker.job \in Job /\ worker.job.attempts < MaxAttempts
  BY WorkerBusy DEF Retry, Idle, Tables, WorkerKnows
<1>2. Retried \in Job /\ Retried.attempts \in 0..MaxAttempts
  BY <1>1, RetriedJob DEF Tables, Job
<1>3. PICK j : j = Retried
  OBVIOUS
<1>4. queue \in Seq(Job)
  BY DEF TypeOK
<1>5. AttemptsCounted'
  <2>1. CASE Retried.attempts < MaxAttempts
    <3>1. queue' = queue \o <<j>> /\ dead' = dead
      BY <1>3, <2>1 DEF Retry, Requeued
    <3>2. \A i \in DOMAIN queue' : queue'[i] = j \/ (i \in DOMAIN queue /\ queue'[i] = queue[i])
      <4>1. \A i \in DOMAIN (queue \o <<j>>) :
              IF i \in DOMAIN queue THEN (queue \o <<j>>)[i] = queue[i]
                                   ELSE (queue \o <<j>>)[i] = j
        BY <1>2, <1>3, <1>4, AtTheEnd
      <4> QED BY <3>1, <4>1, Zenon
    <3> QED BY <1>3, <2>1, <3>1, <3>2 DEF Tables, AttemptsCounted
  <2>2. CASE ~(Retried.attempts < MaxAttempts)
    <3>1. queue' = queue /\ dead' = dead \cup {j}
      BY <1>3, <2>2 DEF Retry
    <3>2. j.attempts = MaxAttempts
      BY <1>2, <1>3, <2>2
    <3> QED BY <3>1, <3>2 DEF Tables, AttemptsCounted
  <2> QED BY <2>1, <2>2
<1> QED
  BY <1>5 DEF Tables, NeverRebilled, BriefsBacked, WorkerKnows, Versions, Retry

\* The requests only touch the left end of the queue.
LEMMA TablesStep ==
  ASSUME TypeOK, Tables, [Next]_vars
  PROVE  Tables'
<1>1. ASSUME NEW r \in Requests,
             (\E s \in Sessions, t \in Statuses : Patch(r, s, t)) \/ CommitPatch(r) \/ EnqueueFails(r)
      PROVE Tables'
  <2>1. UNCHANGED <<queue, worker, evals, objects, briefs, dead>>
    BY <1>1 DEF Patch, CommitPatch, EnqueueFails
  <2> QED BY <2>1, TablesFrame DEF Tables, AttemptsCounted
<1>2. ASSUME NEW r \in Requests, Enqueue(r) PROVE Tables'
  <2>1. UNCHANGED <<worker, evals, objects, briefs, dead>>
    BY <1>2 DEF Enqueue
  <2> QED BY <1>2, <2>1, TablesFrame, EnqueueCounted DEF Tables
<1>3. CASE Check
  BY <1>3, CheckTables
<1>4. ASSUME NEW d \in BOOLEAN, Evaluate(d) PROVE Tables'
  BY <1>4, EvaluateTables
<1>5. CASE UNCHANGED vars
  <2>1. UNCHANGED <<queue, worker, evals, objects, briefs, dead>>
    BY <1>5 DEF vars
  <2> QED BY <2>1, TablesFrame DEF Tables, AttemptsCounted
<1> QED
  BY <1>1, <1>2, <1>3, <1>4, <1>5, PopTables, PutTables, FileTables, FailTables, RetryTables DEF Next

-----------------------------------------------------------------------------
(* No completed session is forgotten *)

\* The ways a session can be taken account of, the requests aside.
Handled(s) == InQueue(s) \/ InHands(s) \/ Briefed(s) \/ DeadLettered(s) \/ s \in lost

\* Briefs, dead letters and known losses stay.
LEMMA Stays ==
  ASSUME evals \subseteq evals', briefs \subseteq briefs', dead \subseteq dead', lost \subseteq lost',
         NEW s, Briefed(s) \/ DeadLettered(s) \/ s \in lost
  PROVE  Handled(s)'
BY DEF Handled, Briefed, DeadLettered, Versions

\* A step of the worker forgets nobody if it hands every job on.
LEMMA WorkerHandsOn ==
  ASSUME NothingForgotten, UNCHANGED <<req, completions>>,
         evals \subseteq evals', briefs \subseteq briefs', dead \subseteq dead', lost \subseteq lost',
         \A s : InQueue(s) => Handled(s)',
         \A s : InHands(s) => Handled(s)'
  PROVE  NothingForgotten'
<1> SUFFICES ASSUME NEW s \in completions,
                    ~ \E r \in Requests : req[r].pc = "queueing" /\ req[r].session = s
             PROVE  Handled(s)'
  BY DEF NothingForgotten, Handled
<1>1. InQueue(s) \/ InHands(s) \/ Briefed(s) \/ DeadLettered(s) \/ s \in lost
  BY DEF NothingForgotten
<1> QED BY <1>1, Stays

\* A step of a request forgets nobody if it keeps the queue and accounts for its own.
LEMMA RequestHandsOn ==
  ASSUME TypeOK, NothingForgotten, NEW r \in Requests, NEW q, NEW o, o = req[r].session,
         req' = [req EXCEPT ![r] = q],
         UNCHANGED <<worker, evals, briefs, dead>>, lost \subseteq lost',
         \A s : InQueue(s) => InQueue(s)',
         req[r].pc = "queueing" => Handled(o)',
         \A s \in completions' \ completions : q.pc = "queueing" /\ q.session = s
  PROVE  NothingForgotten'
<1>1. req'[r] = q /\ \A p \in Requests : p # r => req'[p] = req[p]
  BY DEF TypeOK
<1> SUFFICES ASSUME NEW s \in completions',
                    ~ \E p \in Requests : req'[p].pc = "queueing" /\ req'[p].session = s
             PROVE  Handled(s)'
  BY DEF NothingForgotten, Handled
<1>2. s \in completions
  BY <1>1
<1>3. CASE \E p \in Requests : req[p].pc = "queueing" /\ req[p].session = s
  BY <1>1, <1>3
<1>4. CASE InQueue(s) \/ InHands(s)
  BY <1>4 DEF Handled, InHands
<1>5. CASE Briefed(s) \/ DeadLettered(s) \/ s \in lost
  BY <1>5, Stays
<1> QED BY <1>2, <1>3, <1>4, <1>5 DEF NothingForgotten

\* Every step keeps every completed session accounted for.
LEMMA ForgottenStep ==
  ASSUME TypeOK, Tables, NothingForgotten, [Next]_vars
  PROVE  NothingForgotten'
<1>1. ASSUME NEW r \in Requests, NEW s \in Sessions, NEW t \in Statuses, Patch(r, s, t)
      PROVE NothingForgotten'
  <2>1. PICK q : q = [pc |-> "loaded", session |-> s, target |-> t, loaded |-> status[s]]
    OBVIOUS
  <2>2. req[r].pc # "queueing"
    BY <1>1 DEF Patch, Idle
  <2> QED BY <1>1, <2>1, <2>2, RequestHandsOn DEF Patch, InQueue
<1>2. ASSUME NEW r \in Requests, CommitPatch(r) PROVE NothingForgotten'
  <2>1. req[r].pc = "loaded" /\ req[r] \in Handling
    BY <1>2 DEF CommitPatch, TypeOK, Idle
  <2>2. UNCHANGED <<queue, worker, evals, briefs, dead, lost>>
    BY <1>2 DEF CommitPatch
  <2>3. CASE req[r].target = "completed" /\ req[r].loaded # "completed"
    <3>1. PICK q : q = [req[r] EXCEPT !.pc = "queueing"]
      OBVIOUS
    <3>2. q.pc = "queueing" /\ q.session = req[r].session
      BY <2>1, <3>1 DEF Handling
    <3>3. req' = [req EXCEPT ![r] = q] /\ completions' = completions \cup {req[r].session}
      BY <1>2, <2>3, <3>1 DEF CommitPatch
    <3> QED BY <2>1, <2>2, <3>2, <3>3, RequestHandsOn DEF InQueue
  <2>4. CASE ~(req[r].target = "completed" /\ req[r].loaded # "completed")
    <3>1. req' = [req EXCEPT ![r] = Idle] /\ completions' = completions
      BY <1>2, <2>4 DEF CommitPatch
    <3> QED BY <2>1, <2>2, <3>1, RequestHandsOn DEF InQueue
  <2> QED BY <2>3, <2>4
<1>3. ASSUME NEW r \in Requests, Enqueue(r) PROVE NothingForgotten'
  <2>1. req[r] \in Handling /\ queue \in Seq(Job)
    BY <1>3 DEF Enqueue, TypeOK, Idle
  <2>2. PICK j : j = [session |-> req[r].session, attempts |-> 0]
    OBVIOUS
  <2>3. j \in Job /\ j.session = req[r].session
    BY <2>1, <2>2 DEF Handling, Job
  <2>4. queue' = <<j>> \o queue
    BY <1>3, <2>2 DEF Enqueue
  <2>5. /\ \A k \in DOMAIN queue : \E i \in DOMAIN queue' : queue'[i] = queue[k]
        /\ \E i \in DOMAIN queue' : queue'[i] = j
    <3>1. /\ \A k \in DOMAIN queue : \E i \in DOMAIN (<<j>> \o queue) : (<<j>> \o queue)[i] = queue[k]
          /\ \E i \in DOMAIN (<<j>> \o queue) : (<<j>> \o queue)[i] = j
      BY <2>1, <2>3, AtTheFront
    <3> QED BY <2>4, <3>1, Zenon
  <2>6. PICK o : o = req[r].session
    OBVIOUS
  <2>7. InQueue(o)' /\ \A s : InQueue(s) => InQueue(s)'
    BY <2>3, <2>5, <2>6 DEF InQueue
  <2>8. Handled(o)'
    BY <2>7 DEF Handled
  <2>9. /\ req' = [req EXCEPT ![r] = Idle]
        /\ UNCHANGED <<worker, evals, briefs, dead, completions, lost>>
    BY <1>3 DEF Enqueue
  <2> QED BY <2>6, <2>7, <2>8, <2>9, RequestHandsOn
<1>4. ASSUME NEW r \in Requests, EnqueueFails(r) PROVE NothingForgotten'
  <2>1. PICK o : o = req[r].session
    OBVIOUS
  <2>2. /\ req' = [req EXCEPT ![r] = Idle] /\ lost' = lost \cup {o}
        /\ UNCHANGED <<queue, worker, evals, briefs, dead, completions>>
    BY <1>4, <2>1 DEF EnqueueFails
  <2>3. Handled(o)'
    BY <2>2 DEF Handled
  <2> QED BY <2>1, <2>2, <2>3, RequestHandsOn DEF InQueue
<1>5. CASE Pop
  <2>1. /\ worker = Idle /\ UNCHANGED <<req, evals, briefs, dead, completions, lost>>
        /\ worker'.job = Head(queue) /\ worker'.pc = "popped"
    BY <1>5 DEF Pop
  <2>2. worker' # Idle
    BY <2>1 DEF Idle
  <2>3. ASSUME NEW s, InQueue(s) PROVE Handled(s)'
    <3>1. PICK i \in DOMAIN queue : queue[i].session = s
      BY <2>3 DEF InQueue
    <3>2. CASE i = 1
      BY <1>5, <2>1, <2>2, <3>1, <3>2, Popped DEF Handled, InHands
    <3>3. CASE i # 1
      <4>1. PICK k \in DOMAIN queue' : queue'[k] = queue[i]
        BY <1>5, <3>3, Popped
      <4> QED BY <3>1, <4>1 DEF Handled, InQueue
    <3> QED BY <3>2, <3>3
  <2> QED BY <2>1, <2>3, WorkerHandsOn DEF InHands
<1>6. CASE Check
  <2>1. /\ worker # Idle /\ worker \in Busy /\ worker.job.session \in Sessions
        /\ UNCHANGED <<req, queue, evals, briefs, dead, completions, lost>>
    BY <1>6, WorkerBusy DEF Check, Idle
  <2>2. ASSUME NEW s, s = worker.job.session PROVE Handled(s)'
    <3>1. Latest(s) # 0 => Latest(s) \in Versions(s)
      BY <2>1, <2>2, LatestSound DEF Tables
    <3>2. CASE Latest(s) # 0 /\ <<s, Latest(s)>> \in briefs
      <4>1. Briefed(s)
        BY <3>1, <3>2 DEF Briefed
      <4> QED BY <2>1, <4>1, Stays
    <3>3. CASE ~(Latest(s) # 0 /\ <<s, Latest(s)>> \in briefs)
      <4>1. worker' = Reuse(s)
        BY <1>6, <2>2 DEF Check
      <4>2. worker'.job = worker.job /\ worker'.pc \in {"evaluating", "briefing"}
        BY <2>1, <3>3, <4>1 DEF Reuse, Busy
      <4> QED BY <2>2, <4>2 DEF Handled, InHands, Idle
    <3> QED BY <3>2, <3>3
  <2> QED BY <2>1, <2>2, WorkerHandsOn DEF InHands, Handled, InQueue
<1>7. ASSUME NEW d \in BOOLEAN, Evaluate(d) PROVE NothingForgotten'
  <2>1. /\ worker # Idle /\ worker \in Busy
        /\ UNCHANGED <<req, queue, briefs, dead, completions, lost>> /\ evals \subseteq evals'
    BY <1>7, WorkerBusy DEF Evaluate, Idle
  <2>2. worker'.job = worker.job /\ worker'.pc = "briefing"
    BY <1>7, <2>1 DEF Evaluate, Busy
  <2>3. worker' # Idle
    BY <2>2 DEF Idle
  <2> QED BY <2>1, <2>2, <2>3, WorkerHandsOn DEF InHands, Handled, InQueue
<1>8. CASE PutDocument \/ JobFails
  <2>1. /\ worker # Idle /\ worker \in Busy
        /\ UNCHANGED <<req, queue, evals, briefs, dead, completions, lost>>
    BY <1>8, WorkerBusy DEF PutDocument, JobFails, Idle
  <2>2. worker'.job = worker.job /\ worker'.pc \in {"filing", "failed"}
    BY <1>8, <2>1 DEF PutDocument, JobFails, Busy
  <2>3. worker' # Idle
    BY <2>2 DEF Idle
  <2> QED BY <2>1, <2>2, <2>3, WorkerHandsOn DEF InHands, Handled, InQueue
<1>9. CASE FileBrief
  <2>1. /\ worker # Idle /\ worker.version \in Versions(worker.job.session)
        /\ briefs' = briefs \cup {<<worker.job.session, worker.version>>}
        /\ UNCHANGED <<req, queue, evals, dead, completions, lost>>
    BY <1>9 DEF FileBrief, Tables, WorkerKnows, Idle
  <2>2. ASSUME NEW s, s = worker.job.session PROVE Briefed(s)'
    BY <2>1, <2>2 DEF Briefed, Versions
  <2> QED BY <2>1, <2>2, WorkerHandsOn DEF InHands, Handled, InQueue
<1>10. CASE Retry
  <2>1. /\ worker # Idle /\ queue \in Seq(Job) /\ Retried \in Job
        /\ Retried.session = worker.job.session
        /\ UNCHANGED <<req, evals, briefs, completions, lost>>
    BY <1>10, RetriedJob DEF Retry, TypeOK, Tables, Idle
  <2>2. PICK j : j = Retried
    OBVIOUS
  <2>3. CASE Retried.attempts < MaxAttempts
    <3>1. queue' = queue \o <<j>> /\ dead' = dead
      BY <1>10, <2>2, <2>3 DEF Retry, Requeued
    <3>2. /\ \A i \in DOMAIN queue : i \in DOMAIN queue' /\ queue'[i] = queue[i]
          /\ \E i \in DOMAIN queue' : queue'[i] = j
      <4>1. /\ \A i \in DOMAIN queue : i \in DOMAIN (queue \o <<j>>) /\ (queue \o <<j>>)[i] = queue[i]
            /\ \E i \in DOMAIN (queue \o <<j>>) : (queue \o <<j>>)[i] = j
        BY <2>1, <2>2, AtTheEnd
      <4> QED BY <3>1, <4>1, Zenon
    <3>3. ASSUME NEW s, InQueue(s) \/ s = worker.job.session PROVE InQueue(s)'
      BY <2>1, <2>2, <3>2, <3>3 DEF InQueue
    <3> QED BY <2>1, <3>1, <3>3, WorkerHandsOn DEF InHands, Handled
  <2>4. CASE ~(Retried.attempts < MaxAttempts)
    <3>1. queue' = queue /\ dead' = dead \cup {j} /\ dead \subseteq dead'
      BY <1>10, <2>2, <2>4 DEF Retry
    <3>2. ASSUME NEW s, s = worker.job.session PROVE DeadLettered(s)'
      BY <2>1, <2>2, <3>1, <3>2 DEF DeadLettered
    <3> QED BY <2>1, <3>1, <3>2, WorkerHandsOn DEF InHands, Handled, InQueue
  <2> QED BY <2>3, <2>4
<1>11. CASE WorkerDies
  <2>1. /\ lost' = lost \cup {worker.job.session}
        /\ UNCHANGED <<req, queue, evals, briefs, dead, completions>>
    BY <1>11 DEF WorkerDies
  <2> QED BY <2>1, WorkerHandsOn DEF InHands, Handled, InQueue
<1>12. CASE UNCHANGED vars
  <2>1. UNCHANGED <<req, queue, worker, evals, briefs, dead, completions, lost>>
    BY <1>12 DEF vars
  <2> QED BY <2>1, WorkerHandsOn DEF InHands, Handled, InQueue
<1> QED
  BY <1>1, <1>2, <1>3, <1>4, <1>5, <1>6, <1>7, <1>8, <1>9, <1>10, <1>11, <1>12 DEF Next

-----------------------------------------------------------------------------
(* The theorems *)

\* The invariant holds before the first request.
LEMMA InitIInv == Init => IInv
<1> SUFFICES ASSUME Init PROVE IInv
  OBVIOUS
<1>1. NeverRebilled /\ BriefsBacked /\ AttemptsCounted
  BY DEF Init, NeverRebilled, BriefsBacked, AttemptsCounted
<1>2. WorkerKnows /\ NothingForgotten
  BY DEF Init, WorkerKnows, NothingForgotten
<1> QED BY <1>1, <1>2, TypeInit DEF IInv, Tables

\* The invariant holds from the first state on, whatever fails in between.
THEOREM Invariant == Spec => []IInv
<1>1. IInv /\ [Next]_vars => IInv'
  BY TypeStep, TablesStep, ForgottenStep DEF IInv, Tables
<1> QED BY InitIInv, <1>1, PTL DEF Spec

\* Each table, request, job and the worker keep their shape: what the routes and the
\* worker read back is what they expect.
THEOREM TypeCorrect == Spec => []TypeOK
<1>1. IInv => TypeOK
  BY DEF IInv
<1> QED BY <1>1, Invariant, PTL

\* However often a session is completed, its job queued, delivered, failed and tried
\* again, and wherever the worker was when it died: one evaluation per session.
THEOREM BilledOnce == Spec => []NeverRebilled
<1>1. IInv => NeverRebilled
  BY DEF IInv, Tables
<1> QED BY <1>1, Invariant, PTL

\* A brief that is listed can be opened: its document was stored, its evaluation filed.
THEOREM BriefsOpen == Spec => []BriefsBacked
<1>1. IInv => BriefsBacked
  BY DEF IInv, Tables
<1> QED BY <1>1, Invariant, PTL

\* The queue never holds a job that had all its attempts, nor the dead letters one
\* that had not.
THEOREM AttemptsBounded == Spec => []AttemptsCounted
<1>1. IInv => AttemptsCounted
  BY DEF IInv, Tables
<1> QED BY <1>1, Invariant, PTL

\* A completed session is lost sight of in two places only: a push to the queue that
\* fails, and a worker that dies.
THEOREM NobodyForgotten == Spec => []NothingForgotten
<1>1. IInv => NothingForgotten
  BY DEF IInv
<1> QED BY <1>1, Invariant, PTL
=============================================================================
