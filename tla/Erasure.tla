------------------------------ MODULE Erasure ------------------------------
(* The erasure of a candidacy (erase_candidacy of routes/compliance.py)      *)
(* against everything that may be writing about it: code runs (Execution),   *)
(* the agent and the browser that post events, the evaluation worker         *)
(* (eval/pipeline.py, eval/brief.py) and the object store.  One candidacy    *)
(* with one session, one evaluation and one brief.                           *)
(*                                                                           *)
(* What a row or an object holds is "content" if it derives from the         *)
(* candidate's words or code, "blank" if it does not or has been scrubbed.   *)
(* The worker's queue and its retries are the subject of Closing.            *)
EXTENDS Execution

CONSTANTS MaxErases,   \* bound: erasures begun
          MaxTroubles  \* bound: storage errors and crashes

ASSUME ErasureAssumption == MaxErases \in Nat /\ MaxTroubles \in Nat

VARIABLES agent,     \* is the agent, or its sink, still there?
          eval,      \* evaluations.rubric and signals
          brief,     \* briefs.summary
          key,       \* is briefs.html_object_key set?
          object,    \* the document in the store
          worker,    \* the evaluation worker, and whether what it has read is content
          eraser,    \* the erasure under way, and what its statements found
          erases, troubles,
          erased,    \* history: the last erasure begun came through without a failure
          missed     \* history: what was written, or could not be seen, since that began

erasureVars == <<agent, eval, brief, key, object, worker, eraser, erases, troubles,
                 erased, missed>>
vars == <<execVars, erasureVars>>

Pieces == {"log", "eval", "brief", "object"}
Holding == {"absent", "blank", "content"}
NotErasing == [pc |-> "idle"]
Erasing == [pc : {"deleting", "committing"}, eval : BOOLEAN, brief : BOOLEAN, failed : BOOLEAN]

TypeOK ==
  /\ ExecTypeOK
  /\ eval \in Holding /\ brief \in Holding /\ object \in Holding
  /\ agent \in BOOLEAN /\ key \in BOOLEAN /\ erased \in BOOLEAN
  /\ worker \in [pc : {"idle", "scoring", "putting", "filing"}, full : BOOLEAN]
  /\ eraser \in Erasing \cup {NotErasing}
  /\ erases \in 0..MaxErases /\ troubles \in 0..MaxTroubles
  /\ missed \subseteq Pieces

Init ==
  /\ ExecInit
  /\ agent = TRUE
  /\ eval = "absent" /\ brief = "absent" /\ object = "absent"
  /\ key = FALSE
  /\ worker = [pc |-> "idle", full |-> FALSE]
  /\ eraser = NotErasing
  /\ erases = 0 /\ troubles = 0
  /\ erased = FALSE /\ missed = {}

Amount(full) == IF full THEN "content" ELSE "blank"
Written(p) == missed' = missed \cup {p}
Trouble == troubles < MaxTroubles /\ troubles' = troubles + 1

---------------------------------------------------------------------------
(* Those who write *)

Running ==
  /\ \/ \E r \in Runs : AppendResult(r) /\ Written("log")
     \/ /\ \/ \E r \in Runs : Check(r) \/ Acquire(r) \/ CaseDone(r) \/ RunFails(r)
                           \/ Delete(r) \/ RunDies(r)
           \/ Tick
        /\ UNCHANGED missed
  /\ UNCHANGED <<agent, eval, brief, key, object, worker, eraser, erases, troubles, erased>>

\* append_events asks for the session, not for its status: the agent's sink and
\* the candidate's browser may post whenever they are there.
Post ==
  /\ agent \/ link
  /\ log' = TRUE
  /\ Written("log")
  /\ UNCHANGED <<status, link, run, ttl, late, agent, eval, brief, key, object, worker,
                 eraser, erases, troubles, erased>>

Finish ==
  /\ agent /\ status = "in_progress"
  /\ status' = "completed"
  /\ UNCHANGED <<link, log, run, ttl, late, erasureVars>>

\* The sink is closed after the status was set, and flushes until then.
Leave ==
  /\ agent
  /\ agent' = FALSE
  /\ UNCHANGED <<execVars, eval, brief, key, object, worker, eraser, erases, troubles,
                 erased, missed>>

WorkerAt(pc, full) == worker' = [pc |-> pc, full |-> full]

ReadLog ==
  /\ worker.pc = "idle"
  /\ status = "completed" /\ eval = "absent"
  /\ WorkerAt("scoring", log)
  /\ UNCHANGED <<execVars, agent, eval, brief, key, object, eraser, erases, troubles,
                 erased, missed>>

StoreEvaluation ==
  /\ worker.pc = "scoring"
  /\ eval' = Amount(worker.full)
  /\ Written("eval")
  /\ WorkerAt("idle", FALSE)
  /\ UNCHANGED <<execVars, agent, brief, key, object, eraser, erases, troubles, erased>>

\* The brief is made from the evaluation's row, the worker's own or one reused.
ReadEvaluation ==
  /\ worker.pc = "idle"
  /\ eval # "absent" /\ brief = "absent"
  /\ WorkerAt("putting", eval = "content")
  /\ UNCHANGED <<execVars, agent, eval, brief, key, object, eraser, erases, troubles,
                 erased, missed>>

PutDocument ==
  /\ worker.pc = "putting"
  /\ object' = Amount(worker.full)
  /\ Written("object")
  /\ WorkerAt("filing", worker.full)
  /\ UNCHANGED <<execVars, agent, eval, brief, key, eraser, erases, troubles, erased>>

FileBrief ==
  /\ worker.pc = "filing"
  /\ brief' = Amount(worker.full)
  /\ key' = TRUE
  /\ Written("brief")
  /\ WorkerAt("idle", FALSE)
  /\ UNCHANGED <<execVars, agent, eval, object, eraser, erases, troubles, erased>>

\* A pass of the model, the store or the database fails, or the process dies.
JobFails ==
  /\ worker.pc # "idle"
  /\ Trouble
  /\ WorkerAt("idle", FALSE)
  /\ UNCHANGED <<execVars, agent, eval, brief, key, object, eraser, erases, erased, missed>>

---------------------------------------------------------------------------
(* Erasing *)

\* The statements of the transaction: events are deleted, the rows to scrub are
\* selected.  None of it is seen by others before the commit.
EraseBegin ==
  /\ eraser = NotErasing
  /\ erases < MaxErases
  /\ erases' = erases + 1
  /\ eraser' = [pc |-> "deleting", eval |-> eval # "absent", brief |-> brief # "absent",
                failed |-> FALSE]
  /\ erased' = FALSE
  /\ missed' = IF object # "absent" /\ brief = "absent" THEN {"object"} ELSE {}
  /\ UNCHANGED <<execVars, agent, eval, brief, key, object, worker, troubles>>

\* _delete_object does not wait for the commit.  An error may hide a success.
DeleteObject ==
  /\ eraser.pc = "deleting"
  /\ IF eraser.brief /\ key
     THEN \/ /\ object' = "absent"
             /\ eraser' = [eraser EXCEPT !.pc = "committing"]
             /\ UNCHANGED troubles
          \/ /\ Trouble
             /\ object' \in {object, "absent"}
             /\ eraser' = [eraser EXCEPT !.pc = "committing", !.failed = TRUE]
     ELSE /\ eraser' = [eraser EXCEPT !.pc = "committing"]
          /\ UNCHANGED <<object, troubles>>
  /\ UNCHANGED <<execVars, agent, eval, brief, key, worker, erases, erased, missed>>

KeyAlwaysBlanked == key /\ ~eraser.brief  \* Mutant: the pointer goes whatever the store says

\* "the caller must NOT blank the DB pointer" when the object may still be there.
KeyKept == key /\ (eraser.failed \/ ~eraser.brief)

EvalForgotten == eval  \* Mutant: the evaluations are not scrubbed

EvalScrubbed == IF eraser.eval THEN "blank" ELSE eval

EraseCommit ==
  /\ eraser.pc = "committing"
  /\ log' = (log /\ "log" \in missed)
  /\ eval' = EvalScrubbed
  /\ brief' = IF eraser.brief THEN "blank" ELSE brief
  /\ key' = KeyKept
  /\ link' = FALSE
  /\ erased' = ~eraser.failed
  /\ eraser' = NotErasing
  /\ UNCHANGED <<status, run, ttl, late, agent, object, worker, erases, troubles, missed>>

\* The request dies: its transaction is rolled back, its deletions are not.
EraseDies ==
  /\ eraser # NotErasing
  /\ Trouble
  /\ eraser' = NotErasing
  /\ UNCHANGED <<execVars, agent, eval, brief, key, object, worker, erases, erased, missed>>

Next ==
  \/ Running
  \/ Post \/ Finish \/ Leave
  \/ ReadLog \/ StoreEvaluation \/ ReadEvaluation \/ PutDocument \/ FileBrief \/ JobFails
  \/ EraseBegin \/ DeleteObject \/ EraseCommit \/ EraseDies

Spec == Init /\ [][Next]_vars

---------------------------------------------------------------------------
\* "erase(): deletes recordings/objects, purges events, scrubs PII"
\* (compliance.py:4): after an erasure that reports no failure, content is left
\* only where something was written after the erasure had begun, or where a
\* document had no row yet by which to find it.
HasContent(p) ==
  CASE p = "log" -> log
    [] p = "eval" -> eval = "content"
    [] p = "brief" -> brief = "content"
    [] p = "object" -> object = "content"

EraseCleans == erased => \A p \in Pieces : HasContent(p) => p \in missed

\* "the orphaned object becomes untraceable and the erase silently incomplete"
\* (compliance.py:218): while a brief has a row, its document is pointed to, or
\* gone, whatever failed, died or was tried again.
PointersKept == brief # "absent" /\ object # "absent" => key
=============================================================================
