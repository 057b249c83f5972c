------------------------------- MODULE Closing -------------------------------
(***************************************************************************)
(* How a session ends: PATCH /sessions/{id}/status                         *)
(* (backend/app/routes/sessions.py) with several requests at once, the     *)
(* evaluation queue in Redis, and the evaluation worker                    *)
(* (backend/app/eval/worker.py, pipeline.py, brief.py), its retries, its   *)
(* dead letters and its crashes.                                           *)
(*                                                                         *)
(* Requests run in transactions of PostgreSQL's READ COMMITTED and take no *)
(* lock: what set_session_status decides from is what it read first.  One  *)
(* worker serves the queue (docker-compose.yml).                           *)
(***************************************************************************)
EXTENDS Integers, Sequences, FiniteSets

CONSTANTS
  Sessions,
  Requests,     \* PATCH requests that can be handled at once
  MaxAttempts,  \* attempts at a job before it is dead-lettered (3 in the code)
  MaxPatches,   \* bound: PATCH requests made
  MaxTrouble    \* bound: Redis errors, failing jobs and crashes of the worker

ASSUME ClosingAssumption ==
  /\ Sessions # {}
  /\ MaxAttempts \in Nat \ {0} /\ MaxPatches \in Nat /\ MaxTrouble \in Nat

VARIABLES
  status,     \* [Sessions -> Statuses] sessions.status
  req,        \* [Requests -> ..] requests under way
  queue,      \* the Redis list evaluate_session, its left end first
  worker,     \* what the worker is doing
  evals,      \* evaluations rows: [session, version, degraded]
  objects,    \* documents in the briefs bucket
  briefs,     \* briefs rows
  dead,       \* evaluate_session:dead
  completions,\* history: sessions that a request has set to completed
  lost,       \* history: sessions whose job was lost, with a log line at most
  patches,    \* counts against MaxPatches
  trouble     \* counts against MaxTrouble

vars == <<status, req, queue, worker, evals, objects, briefs, dead, completions, lost,
          patches, trouble>>
workVars == <<worker, evals, objects, briefs, dead>>

-----------------------------------------------------------------------------
(* Data *)

Statuses == {"created", "in_progress", "paused", "completed", "aborted"}
Terminal == {"completed", "aborted"}

Idle == [pc |-> "idle"]
Handling == [pc : {"loaded", "queueing"}, session : Sessions, target : Statuses, loaded : Statuses]
Job == [session : Sessions, attempts : 0..MaxAttempts]
Busy == [pc : {"popped", "evaluating", "briefing", "filing", "failed"}, job : Job, version : Nat]
Eval == [session : Sessions, version : Nat \ {0}, degraded : BOOLEAN]
Document == Sessions \X (Nat \ {0})

TypeOK ==
  /\ status \in [Sessions -> Statuses]
  /\ req \in [Requests -> {Idle} \cup Handling]
  /\ queue \in Seq(Job)
  /\ worker \in {Idle} \cup Busy
  /\ evals \subseteq Eval
  /\ objects \subseteq Document
  /\ briefs \subseteq Document
  /\ dead \subseteq Job
  /\ completions \subseteq Sessions
  /\ lost \subseteq Sessions
  /\ patches \in Nat
  /\ trouble \in Nat

Init ==
  /\ status = [s \in Sessions |-> "created"]
  /\ req = [r \in Requests |-> Idle]
  /\ queue = <<>>
  /\ worker = Idle
  /\ evals = {} /\ objects = {} /\ briefs = {} /\ dead = {}
  /\ completions = {} /\ lost = {}
  /\ patches = 0 /\ trouble = 0

Trouble == trouble < MaxTrouble /\ trouble' = trouble + 1

-----------------------------------------------------------------------------
(* set_session_status() *)

\* The session is loaded and the checks made: a terminal status is left only
\* for itself.  Requests refused here change nothing and are left out.
DoorAllows(s, target) == status[s] \in Terminal => target = status[s]

Patch(r, s, target) ==
  /\ req[r] = Idle
  /\ patches < MaxPatches
  /\ DoorAllows(s, target)
  /\ req' = [req EXCEPT ![r] = [pc |-> "loaded", session |-> s, target |-> target,
                                loaded |-> status[s]]]
  /\ patches' = patches + 1
  /\ UNCHANGED <<status, queue, worker, evals, objects, briefs, dead, completions, lost, trouble>>

\* The commit.  SQLAlchemy writes the column when its value differs from the
\* one loaded, whatever the row holds by then.
CommitPatch(r) ==
  /\ req[r].pc = "loaded"
  /\ LET q == req[r] IN
       /\ status' = IF q.target = q.loaded THEN status
                    ELSE [status EXCEPT ![q.session] = q.target]
       /\ IF q.target = "completed" /\ q.loaded # "completed"
            THEN /\ completions' = completions \cup {q.session}
                 /\ req' = [req EXCEPT ![r] = [q EXCEPT !.pc = "queueing"]]
            ELSE req' = [req EXCEPT ![r] = Idle] /\ UNCHANGED completions
  /\ UNCHANGED <<queue, worker, evals, objects, briefs, dead, lost, patches, trouble>>

\* After the commit: LPUSH of the evaluation job.
Enqueue(r) ==
  /\ req[r].pc = "queueing"
  /\ queue' = <<[session |-> req[r].session, attempts |-> 0]>> \o queue
  /\ req' = [req EXCEPT ![r] = Idle]
  /\ UNCHANGED <<status, worker, evals, objects, briefs, dead, completions, lost, patches, trouble>>

\* Redis is down, which is only logged, or the API process dies.
EnqueueFails(r) ==
  /\ req[r].pc = "queueing"
  /\ Trouble
  /\ lost' = lost \cup {req[r].session}
  /\ req' = [req EXCEPT ![r] = Idle]
  /\ UNCHANGED <<status, queue, worker, evals, objects, briefs, dead, completions, patches>>

-----------------------------------------------------------------------------
(* The worker: main() and handle_job() *)

Versions(s) == {e.version : e \in {f \in evals : f.session = s}}
\* The newest evaluation, 0 if there is none.
Latest(s) == IF Versions(s) = {} THEN 0
             ELSE CHOOSE v \in Versions(s) : \A w \in Versions(s) : w <= v

\* BLPOP: from here on the job is only in the worker's memory.
Pop ==
  /\ worker = Idle
  /\ queue # <<>>
  /\ worker' = [pc |-> "popped", job |-> Head(queue), version |-> 0]
  /\ queue' = Tail(queue)
  /\ UNCHANGED <<status, req, evals, objects, briefs, dead, completions, lost, patches, trouble>>

\* An existing evaluation is reused; with its brief there is nothing to do.
\* Mutant ReuseNothing: every delivery is evaluated anew.
ReuseNothing(s) == [worker EXCEPT !.pc = "evaluating"]
\* Mutant ReuseSkips: an evaluated session is skipped, briefed or not.
ReuseSkips(s) == IF Latest(s) = 0 THEN [worker EXCEPT !.pc = "evaluating"] ELSE Idle
Reuse(s) == IF Latest(s) = 0 THEN [worker EXCEPT !.pc = "evaluating"]
            ELSE IF <<s, Latest(s)>> \in briefs THEN Idle
            ELSE [worker EXCEPT !.pc = "briefing", !.version = Latest(s)]
Check ==
  /\ worker.pc = "popped"
  /\ worker' = Reuse(worker.job.session)
  /\ UNCHANGED <<status, req, queue, evals, objects, briefs, dead, completions, lost, patches, trouble>>

\* evaluate_session(): model passes that fail yield a degraded evaluation.
Evaluate(degraded) ==
  /\ worker.pc = "evaluating"
  /\ LET s == worker.job.session IN
       /\ evals' = evals \cup {[session |-> s, version |-> Latest(s) + 1, degraded |-> degraded]}
       /\ worker' = [worker EXCEPT !.pc = "briefing", !.version = Latest(s) + 1]
  /\ UNCHANGED <<status, req, queue, objects, briefs, dead, completions, lost, patches, trouble>>

\* generate_brief(): the document first, then the row.
\* Mutant PutSwallowed: an upload that fails is taken for done.
PutSwallowed ==
  /\ worker.pc = "briefing"
  /\ worker' = [worker EXCEPT !.pc = "filing"]
  /\ UNCHANGED <<status, req, queue, evals, objects, briefs, dead, completions, lost, patches, trouble>>
PutDocument ==
  /\ worker.pc = "briefing"
  /\ objects' = objects \cup {<<worker.job.session, worker.version>>}
  /\ worker' = [worker EXCEPT !.pc = "filing"]
  /\ UNCHANGED <<status, req, queue, evals, briefs, dead, completions, lost, patches, trouble>>

FileBrief ==
  /\ worker.pc = "filing"
  /\ briefs' = briefs \cup {<<worker.job.session, worker.version>>}
  /\ worker' = Idle
  /\ UNCHANGED <<status, req, queue, evals, objects, dead, completions, lost, patches, trouble>>

\* Any of it raises ...
JobFails ==
  /\ worker # Idle /\ worker.pc # "failed"
  /\ Trouble
  /\ worker' = [worker EXCEPT !.pc = "failed"]
  /\ UNCHANGED <<status, req, queue, evals, objects, briefs, dead, completions, lost, patches>>

\* ... and after a pause the job goes to the right end of the queue, or to
\* the dead letters once it was attempted MaxAttempts times.
\* Mutant RetriedTwice: the attempt is counted when it starts and when it fails.
RetriedTwice == [worker.job EXCEPT !.attempts = @ + 2]
Retried == [worker.job EXCEPT !.attempts = @ + 1]
\* Mutant RetryNever: a failed job is only logged.
RetryNever(job) == <<>>
Requeued(job) == <<job>>
Retry ==
  /\ worker.pc = "failed"
  /\ worker' = Idle
  /\ IF Retried.attempts < MaxAttempts
       THEN queue' = queue \o Requeued(Retried) /\ UNCHANGED dead
       ELSE dead' = dead \cup {Retried} /\ UNCHANGED queue
  /\ UNCHANGED <<status, req, evals, objects, briefs, completions, lost, patches, trouble>>

\* The worker's container dies and is restarted, or Redis fails in the
\* handler of a failed job, which ends main().
WorkerDies ==
  /\ worker # Idle
  /\ Trouble
  /\ lost' = lost \cup {worker.job.session}
  /\ worker' = Idle
  /\ UNCHANGED <<status, req, queue, evals, objects, briefs, dead, completions, patches>>

Next ==
  \/ \E r \in Requests :
       \/ \E s \in Sessions, t \in Statuses : Patch(r, s, t)
       \/ CommitPatch(r) \/ Enqueue(r) \/ EnqueueFails(r)
  \/ Pop \/ Check \/ (\E d \in BOOLEAN : Evaluate(d)) \/ PutDocument \/ FileBrief
  \/ JobFails \/ Retry \/ WorkerDies

Spec == Init /\ [][Next]_vars

\* A request that was accepted runs to its end; the worker works.
FairSpec ==
  /\ Spec
  /\ \A r \in Requests : WF_vars(CommitPatch(r)) /\ WF_vars(Enqueue(r) \/ EnqueueFails(r))
  /\ WF_vars(Pop \/ Check \/ (\E d \in BOOLEAN : Evaluate(d)) \/ PutDocument \/ FileBrief \/ Retry)

-----------------------------------------------------------------------------
(* Properties *)

InQueue(s) == \E i \in DOMAIN queue : queue[i].session = s
InHands(s) == worker # Idle /\ worker.job.session = s
Briefed(s) == \E v \in Versions(s) : <<s, v>> \in briefs
DeadLettered(s) == \E j \in dead : j.session = s

\* No completed session is forgotten: at every moment its evaluation is about
\* to be queued, queued, in the worker's hands, briefed, dead-lettered, or one
\* of the losses that the code takes into account.
NothingForgotten ==
  \A s \in completions :
    \/ \E r \in Requests : req[r].pc = "queueing" /\ req[r].session = s
    \/ InQueue(s) \/ InHands(s) \/ Briefed(s) \/ DeadLettered(s) \/ s \in lost

\* A redelivered or doubly queued job does not bill the model passes twice:
\* a session has one evaluation at most (eval/worker.py:46-48).
NeverRebilled == \A e, f \in evals : e.session = f.session => e = f

\* A brief row that a reviewer opens has its evaluation and its document.
BriefsBacked ==
  \A b \in briefs : b \in objects /\ b[2] \in Versions(b[1])

\* A job is dead-lettered after exactly MaxAttempts attempts, and no job that
\* was attempted so often is tried again.
AttemptsCounted ==
  /\ \A j \in dead : j.attempts = MaxAttempts
  /\ \A i \in DOMAIN queue : queue[i].attempts < MaxAttempts

\* Every completed session gets its brief, unless its job is dead-lettered or
\* lost: the newest job first, but none waits for ever.
CompletedGetsBrief ==
  \A s \in Sessions : (s \in completions) ~> (Briefed(s) \/ DeadLettered(s) \/ s \in lost)
=============================================================================
