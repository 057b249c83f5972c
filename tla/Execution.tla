----------------------------- MODULE Execution -----------------------------
(* Running a candidate's code: POST /execute of routes/execute.py and the    *)
(* cases of execution.py.  One session; a request runs its cases one after   *)
(* the other under a Redis lock that is meant to last longer than they do,   *)
(* and appends the outcome to the event log.                                 *)
(*                                                                           *)
(* Time passes in ticks of the Judge0 client's timeout: a case may take one  *)
(* tick and not two, the lock lasts LockTicks.                               *)
EXTENDS Naturals

CONSTANTS Runs,       \* requests that can be under way at once
          Cases,      \* the cases a suite has, at most; a run without a suite has one
          LockTicks   \* _EXEC_LOCK_TTL_S

ASSUME ExecutionAssumption == Cases \in Nat \ {0} /\ LockTicks \in Nat \ {0}

VARIABLES status,  \* sessions.status, as far as execute() asks
          link,    \* is the candidate's link valid (sessions.candidate_jti)?
          log,     \* is there anything in interview_events?
          run,     \* the requests
          ttl,     \* what is left of exec:lock:<session>, 0 if it is not set
          late     \* history: the sizes of the suites under which a lock expired

execVars == <<status, link, log, run, ttl, late>>

Idle == [pc |-> "idle"]
Run == [pc : {"checked", "finally"}]
         \cup [pc : {"running"}, cases : 1..Cases, left : 0..Cases, spent : BOOLEAN]

ExecTypeOK ==
  /\ status \in {"in_progress", "completed"}
  /\ link \in BOOLEAN /\ log \in BOOLEAN
  /\ run \in [Runs -> Run \cup {Idle}]
  /\ ttl \in 0..LockTicks
  /\ late \subseteq 1..Cases

ExecInit ==
  /\ status = "in_progress"
  /\ link = TRUE
  /\ log = FALSE
  /\ run = [r \in Runs |-> Idle]
  /\ ttl = 0
  /\ late = {}

Become(r, x) == run' = [run EXCEPT ![r] = x]

\* Between set(nx) and delete.
Inside(r) == run[r].pc \in {"running", "finally"}

\* The session is read and its status checked before the lock is asked for.
Check(r) ==
  /\ run[r] = Idle
  /\ link /\ status = "in_progress"
  /\ Become(r, [pc |-> "checked"])
  /\ UNCHANGED <<status, link, log, ttl, late>>

LockFreeAlways == TRUE  \* Mutant: set without nx

LockFree == ttl = 0

Acquire(r) ==
  /\ run[r].pc = "checked"
  /\ IF LockFree
     THEN /\ ttl' = LockTicks
          /\ \E n \in 1..Cases :
               Become(r, [pc |-> "running", cases |-> n, left |-> n, spent |-> FALSE])
     ELSE Become(r, Idle) /\ UNCHANGED ttl
  /\ UNCHANGED <<status, link, log, late>>

CaseDone(r) ==
  /\ run[r].pc = "running"
  /\ run[r].left > 0
  /\ Become(r, [run[r] EXCEPT !.left = @ - 1, !.spent = FALSE])
  /\ UNCHANGED <<status, link, log, ttl, late>>

\* Judge0 answers with an error or not in time, or there is no such suite.
RunFails(r) ==
  /\ run[r].pc = "running"
  /\ run[r].left > 0
  /\ Become(r, [pc |-> "finally"])
  /\ UNCHANGED <<status, link, log, ttl, late>>

\* append_event: nobody looks at the session again.
AppendResult(r) ==
  /\ run[r].pc = "running"
  /\ run[r].left = 0
  /\ log' = TRUE
  /\ Become(r, [pc |-> "finally"])
  /\ UNCHANGED <<status, link, ttl, late>>

\* The key is deleted by its name, whoever set it.
Delete(r) ==
  /\ run[r].pc = "finally"
  /\ ttl' = 0
  /\ Become(r, Idle)
  /\ UNCHANGED <<status, link, log, late>>

\* The process dies: "TTL guards against crashed holders".
RunDies(r) ==
  /\ run[r] # Idle
  /\ Become(r, Idle)
  /\ UNCHANGED <<status, link, log, ttl, late>>

\* No case is given a second tick, and what follows the cases takes no time.
Tick ==
  /\ ttl > 0
  /\ \A r \in Runs : Inside(r) => run[r].pc = "running" /\ run[r].left > 0 /\ ~run[r].spent
  /\ ttl' = ttl - 1
  /\ run' = [r \in Runs |-> IF Inside(r) THEN [run[r] EXCEPT !.spent = TRUE] ELSE run[r]]
  /\ late' = IF ttl = 1 THEN late \cup {run[r].cases : r \in {q \in Runs : Inside(q)}} ELSE late
  /\ UNCHANGED <<status, link, log>>

ExecNext ==
  \/ \E r \in Runs :
       \/ Check(r) \/ Acquire(r) \/ CaseDone(r) \/ RunFails(r)
       \/ AppendResult(r) \/ Delete(r) \/ RunDies(r)
  \/ Tick

---------------------------------------------------------------------------
\* "Per-session concurrency = 1 (Redis lock; TTL guards against crashed
\* holders)", execute.py:72: two runs are under way at once only after the lock
\* expired under one, and that one had cases enough to fill its 60 seconds.
OneRunUnlessExpired ==
  \A r, q \in Runs : Inside(r) /\ Inside(q) /\ r # q => \E n \in late : n >= LockTicks
=============================================================================
