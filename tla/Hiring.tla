------------------------------- MODULE Hiring -------------------------------
(***************************************************************************)
(* One candidacy on its way from the invitation to the outcome: the        *)
(* candidate portal (backend/app/routes/lifecycle.py), the round           *)
(* orchestrator (pipelines.py), the review decisions its gates wait for    *)
(* (review.py), the end of a session (sessions.py) and erasure             *)
(* (compliance.py).                                                        *)
(*                                                                         *)
(* A request reads the candidacy before it takes an advisory lock, if it   *)
(* takes one, and keeps that row until its commit: SQLAlchemy writes a     *)
(* column only when its value differs from the one that was loaded.  The   *)
(* candidacy's role names either a plan (no gates) or a pipeline.  Races   *)
(* between changes of one session's status are the subject of Closing.     *)
(***************************************************************************)
EXTENDS Integers, Sequences, FiniteSets

CONSTANTS
  Requests,        \* requests that can be handled at once
  Pipelines,       \* the gates a candidacy's rounds may have, <<>> for a single plan
  MaxReschedules,  \* reschedule_max
  MaxSessions,     \* bound: sessions of a candidacy with a single plan
  MaxEdits         \* bound: changes of consent, schedule requests, declines, erasures, aborts

ASSUME HiringAssumption ==
  /\ \A gates \in Pipelines : gates \in Seq({"none", "auto", "review"})
  /\ MaxReschedules \in Nat /\ MaxSessions \in Nat /\ MaxEdits \in Nat

VARIABLES
  gates,      \* the gate after each round of the pipeline; never changes
  cand,       \* candidacies.status
  moves,      \* schedules.reschedule_count, or NoSlot
  consent,    \* are the required items granted, the latest record of each counting?
  sess,       \* the candidacy's sessions in the order of their creation
  prog,       \* candidacy_progress
  starting,   \* who holds the advisory lock start-interview:<candidacy>
  req,        \* [Requests -> ..] requests under way
  edits       \* counts against MaxEdits

vars == <<gates, cand, moves, consent, sess, prog, starting, req, edits>>

-----------------------------------------------------------------------------
(* Data *)

Statuses == {"invited", "scheduled", "in_progress", "completed", "reviewed", "withdrawn"}
Terminal == {"completed", "reviewed", "withdrawn"}
NoSlot == -1

Session == [status : {"created", "in_progress", "completed", "aborted"},
            conducted : BOOLEAN,                  \* has an agent taken it up?
            score : {"none", "pass", "fail"},     \* the evaluation, against the hire threshold
            decisions : Seq({"confirm", "override"})]
NewSession == [status |-> "created", conducted |-> FALSE, score |-> "none", decisions |-> <<>>]

Gate == {"advancing", "awaiting_review", "ended", "completed"}
Settled == {"ended", "completed"}
NoProgress == [round |-> 0, sessions |-> <<>>, gate |-> "none"]
Started == [round |-> 0, sessions |-> <<>>, gate |-> "advancing"]

Idle == [pc |-> "idle"]
Reading == {"starting", "advancing", "marking", "enrolling", "launching", "scheduling",
            "rescheduling", "declining"}
Handling == [pc : Reading, loaded : Statuses]
            \cup [pc : {"closing"}, loaded : Statuses, session : Nat]

TypeOK ==
  /\ gates \in Pipelines
  /\ cand \in Statuses
  /\ moves \in NoSlot..MaxReschedules
  /\ consent \in BOOLEAN
  /\ sess \in Seq(Session)
  /\ prog \in {NoProgress} \cup [round : Nat, sessions : Seq(DOMAIN sess), gate : Gate]
  /\ starting \in Requests \cup {"nobody"}
  /\ req \in [Requests -> {Idle} \cup Handling]
  /\ edits \in 0..MaxEdits

Init ==
  /\ gates \in Pipelines
  /\ cand = "invited" /\ moves = NoSlot /\ consent = FALSE
  /\ sess = <<>> /\ prog = NoProgress
  /\ starting = "nobody" /\ req = [r \in Requests |-> Idle]
  /\ edits = 0

Edit == edits < MaxEdits /\ edits' = edits + 1

Live == {s \in DOMAIN sess : sess[s].status \in {"created", "in_progress"}}

\* The row of the candidacy as a request has loaded it, and its write at the commit.
Loads(r, pc) == req[r] = Idle /\ req' = [req EXCEPT ![r] = [pc |-> pc, loaded |-> cand]]
Done(r) == req' = [req EXCEPT ![r] = Idle]
Goes(r, pc) == req' = [req EXCEPT ![r].pc = pc]
Write(loaded, status) == cand' = IF loaded = status THEN cand ELSE status

-----------------------------------------------------------------------------
(* The round orchestrator, _advance(): one transaction under pipeline:<candidacy> *)

Last == sess[prog.sessions[prog.round]]
GateNow == gates[prog.round]

LatestDecision == Last.decisions[Len(Last.decisions)]

\* Mutant: an evaluation that is not ready lets the round pass.
OpenEarly == prog.round > 0 => Last.status = "completed"
\* 409 until the round is completed and its evaluation, if the gate needs it, is there.
Open == prog.round > 0 => Last.status = "completed" /\ (GateNow = "auto" => Last.score # "none")
Fails == /\ prog.round > 0
         /\ \/ GateNow = "auto" /\ Last.score = "fail"
            \/ GateNow = "review" /\ Last.decisions # <<>> /\ LatestDecision = "override"
\* Mutant: a gate that waits for a review waits for ever.
WaitsForEver == /\ prog.round > 0 /\ GateNow = "review"
                /\ Last.decisions = <<>> \/ prog.gate = "awaiting_review"
Waits == prog.round > 0 /\ GateNow = "review" /\ Last.decisions = <<>>

\* Mutant: the outcome is not looked at.
CanReconsider == prog # NoProgress /\ Open
CanAdvance == prog # NoProgress /\ prog.gate \notin Settled /\ Open

GateEnds(loaded) ==
  /\ CanAdvance /\ Fails
  /\ prog' = [prog EXCEPT !.gate = "ended"]
  /\ Write(loaded, "reviewed")
  /\ UNCHANGED sess

GateWaits ==
  /\ CanAdvance /\ Waits
  /\ prog' = [prog EXCEPT !.gate = "awaiting_review"]
  /\ UNCHANGED <<cand, sess>>

PipelineEnds(loaded) ==
  /\ CanAdvance /\ ~Fails /\ ~Waits /\ prog.round = Len(gates)
  /\ prog' = [prog EXCEPT !.gate = "completed"]
  /\ Write(loaded, "completed")
  /\ UNCHANGED sess

\* Mutant: current_round is not incremented.
NextRoundUncounted ==
  /\ CanAdvance /\ ~Fails /\ ~Waits /\ prog.round < Len(gates)
  /\ sess' = Append(sess, NewSession)
  /\ prog' = [prog EXCEPT !.gate = "advancing", !.sessions = Append(prog.sessions, Len(sess) + 1)]
  /\ UNCHANGED cand

NextRound ==
  /\ CanAdvance /\ ~Fails /\ ~Waits /\ prog.round < Len(gates)
  /\ sess' = Append(sess, NewSession)
  /\ prog' = [round |-> prog.round + 1, gate |-> "advancing",
              sessions |-> Append(prog.sessions, Len(sess) + 1)]
  /\ UNCHANGED cand

\* What a call of _advance may do short of opening the next round.
Stops(loaded) ==
  \/ GateEnds(loaded) \/ GateWaits \/ PipelineEnds(loaded)
  \/ ~CanAdvance /\ UNCHANGED <<cand, sess, prog>>

-----------------------------------------------------------------------------
(* Requests that open a session *)

\* POST /start-interview: the candidacy and the consent, before the lock.
StartRead(r) ==
  /\ consent
  /\ cand \notin Terminal
  /\ Loads(r, "starting")
  /\ UNCHANGED <<gates, cand, moves, consent, sess, prog, starting, edits>>

\* A live session is joined again.
Rejoin(r) ==
  /\ req[r].pc = "starting" /\ starting = "nobody" /\ Live # {}
  /\ Done(r)
  /\ UNCHANGED <<gates, cand, moves, consent, sess, prog, starting, edits>>

\* Mutant: a live session is not looked for.
StartPlanAnyway(r) ==
  /\ req[r].pc = "starting" /\ starting = "nobody"
  /\ gates = <<>> /\ Len(sess) < MaxSessions
  /\ sess' = Append(sess, NewSession)
  /\ Write(req[r].loaded, "in_progress")
  /\ Done(r)
  /\ UNCHANGED <<gates, moves, consent, prog, starting, edits>>

StartPlan(r) ==
  /\ req[r].pc = "starting" /\ starting = "nobody" /\ Live = {}
  /\ gates = <<>> /\ Len(sess) < MaxSessions
  /\ sess' = Append(sess, NewSession)
  /\ Write(req[r].loaded, "in_progress")
  /\ Done(r)
  /\ UNCHANGED <<gates, moves, consent, prog, starting, edits>>

\* The progress row is committed first, and with that commit the lock is gone; when
\* the row is there already, the lock is kept until _advance commits.
StartPipeline(r) ==
  /\ req[r].pc = "starting" /\ starting = "nobody" /\ Live = {}
  /\ gates # <<>>
  /\ IF prog = NoProgress
     THEN prog' = Started /\ UNCHANGED starting
     ELSE starting' = r /\ UNCHANGED prog
  /\ Goes(r, "advancing")
  /\ UNCHANGED <<gates, cand, moves, consent, sess, edits>>

StartAdvance(r) ==
  /\ req[r].pc = "advancing"
  /\ \/ NextRound /\ Goes(r, "marking")
     \/ Stops(req[r].loaded) /\ Done(r)
  /\ starting' = IF starting = r THEN "nobody" ELSE starting
  /\ UNCHANGED <<gates, moves, consent, edits>>

StartMark(r) ==
  /\ req[r].pc = "marking"
  /\ Write(req[r].loaded, "in_progress")
  /\ Done(r)
  /\ UNCHANGED <<gates, moves, consent, sess, prog, starting, edits>>

\* POST /advance, from the candidate's next-round page or a recruiter.
AdvanceNow ==
  /\ NextRound \/ Stops(cand)
  /\ UNCHANGED <<gates, moves, consent, starting, req, edits>>

\* POST /start-pipeline by a recruiter: the candidacy, then the lock and the row, then
\* _advance in a transaction of its own.
EnrolRead(r) ==
  /\ gates # <<>>
  /\ Loads(r, "enrolling")
  /\ UNCHANGED <<gates, cand, moves, consent, sess, prog, starting, edits>>

Enrol(r) ==
  /\ req[r].pc = "enrolling"
  /\ IF prog = NoProgress
     THEN prog' = Started /\ Goes(r, "launching")
     ELSE UNCHANGED prog /\ Done(r)
  /\ UNCHANGED <<gates, cand, moves, consent, sess, starting, edits>>

Launch(r) ==
  /\ req[r].pc = "launching"
  /\ NextRound \/ Stops(req[r].loaded)
  /\ Done(r)
  /\ UNCHANGED <<gates, moves, consent, starting, edits>>

-----------------------------------------------------------------------------
(* The other requests of the portal *)

\* POST /schedule, of staff ("scheduling") or of the candidate ("rescheduling").
ScheduleRead(r, pc) ==
  /\ cand # "withdrawn"
  /\ Edit
  /\ Loads(r, pc)
  /\ UNCHANGED <<gates, cand, moves, consent, sess, prog, starting>>

\* Capacity and the cutoff before the old slot may refuse any request.
Schedule(r) ==
  /\ req[r].pc \in {"scheduling", "rescheduling"}
  /\ \/ UNCHANGED <<cand, moves>>
     \/ /\ moves = NoSlot
        /\ moves' = 0 /\ Write(req[r].loaded, "scheduled")
     \/ /\ moves # NoSlot
        /\ IF req[r].pc = "scheduling" THEN UNCHANGED moves
           ELSE moves < MaxReschedules /\ moves' = moves + 1
        /\ Write(req[r].loaded, "scheduled")
  /\ Done(r)
  /\ UNCHANGED <<gates, consent, sess, prog, starting, edits>>

RecordConsent ==
  /\ Edit
  /\ consent' = ~consent
  /\ UNCHANGED <<gates, cand, moves, sess, prog, starting, req>>

DeclineRead(r) ==
  /\ cand \notin {"completed", "reviewed"}
  /\ Edit
  /\ Loads(r, "declining")
  /\ UNCHANGED <<gates, cand, moves, consent, sess, prog, starting>>

Decline(r) ==
  /\ req[r].pc = "declining"
  /\ Write(req[r].loaded, "withdrawn")
  /\ Done(r)
  /\ UNCHANGED <<gates, moves, consent, sess, prog, starting, edits>>

\* Erasure of the candidate's data withdraws the candidacy, whatever it was.
Erase ==
  /\ Edit
  /\ cand' = "withdrawn"
  /\ UNCHANGED <<gates, moves, consent, sess, prog, starting, req>>

-----------------------------------------------------------------------------
(* The sessions *)

\* The agent asks for in_progress, which the consent gate may refuse with a 403; the
\* agent does not look at the answer (BackendClient.set_status).
Conduct(s) ==
  /\ sess[s].status = "created" /\ ~sess[s].conducted
  /\ sess' = [sess EXCEPT ![s].conducted = TRUE,
                          ![s].status = IF consent THEN "in_progress" ELSE @]
  /\ UNCHANGED <<gates, cand, moves, consent, prog, starting, req, edits>>

\* The agent's PATCH to completed: the candidacy is closed unless a pipeline runs it.
CloseRead(r, s) ==
  /\ sess[s].conducted /\ s \in Live
  /\ \A q \in Requests : req[q].pc = "closing" => req[q].session # s
  /\ req[r] = Idle
  /\ req' = [req EXCEPT ![r] = [pc |-> "closing", loaded |-> cand, session |-> s]]
  /\ UNCHANGED <<gates, cand, moves, consent, sess, prog, starting, edits>>

Close(r) ==
  /\ req[r].pc = "closing"
  /\ sess' = [sess EXCEPT ![req[r].session].status = "completed"]
  /\ IF prog = NoProgress /\ req[r].loaded \notin {"withdrawn", "reviewed"}
     THEN Write(req[r].loaded, "completed")
     ELSE UNCHANGED cand
  /\ Done(r)
  /\ UNCHANGED <<gates, moves, consent, prog, starting, edits>>

\* Staff give a session up.
Abort(s) ==
  /\ s \in Live
  /\ \A q \in Requests : req[q].pc = "closing" => req[q].session # s
  /\ Edit
  /\ sess' = [sess EXCEPT ![s].status = "aborted"]
  /\ UNCHANGED <<gates, cand, moves, consent, prog, starting, req>>

\* Evaluations and decisions count where a gate asks for them; a session's gate is that
\* of its round.
AskedFor(s, gate) == gates # <<>> /\ gates[s] = gate

\* The evaluation arrives: below the threshold also when it holds no valid score.
Evaluate(s) ==
  /\ AskedFor(s, "auto")
  /\ sess[s].status = "completed" /\ sess[s].score = "none"
  /\ \E score \in {"pass", "fail"} : sess' = [sess EXCEPT ![s].score = score]
  /\ UNCHANGED <<gates, cand, moves, consent, prog, starting, req, edits>>

\* A review decision, on whatever session; one that is there already, by the same
\* reviewer in the same words, is not filed again.
Decide(s) ==
  /\ AskedFor(s, "review")
  /\ \E d \in {"confirm", "override"} :
        /\ \A i \in DOMAIN sess[s].decisions : sess[s].decisions[i] # d
        /\ sess' = [sess EXCEPT ![s].decisions = Append(@, d)]
  /\ UNCHANGED <<gates, cand, moves, consent, prog, starting, req, edits>>

-----------------------------------------------------------------------------
Request(r) ==
  \/ StartRead(r) \/ Rejoin(r) \/ StartPlan(r) \/ StartPipeline(r) \/ StartAdvance(r)
  \/ StartMark(r) \/ EnrolRead(r) \/ Enrol(r) \/ Launch(r)
  \/ ScheduleRead(r, "scheduling") \/ ScheduleRead(r, "rescheduling") \/ Schedule(r)
  \/ DeclineRead(r) \/ Decline(r) \/ Close(r)
  \/ \E s \in DOMAIN sess : CloseRead(r, s)

Next ==
  \/ \E r \in Requests : Request(r)
  \/ \E s \in DOMAIN sess : Conduct(s) \/ Abort(s) \/ Evaluate(s) \/ Decide(s)
  \/ AdvanceNow \/ RecordConsent \/ Erase

Spec == Init /\ [][Next]_vars

\* Somebody asks for /advance again and again (the candidate's next-round page does so
\* whenever it is opened, a recruiter may), requests are handled to their end, agents
\* conduct and close what is live, the evaluation arrives and a reviewer decides.  Nobody
\* has to start, schedule, decline or abort.
FairSpec ==
  /\ Spec
  /\ WF_vars(AdvanceNow)
  /\ \A r \in Requests :
        WF_vars(Rejoin(r) \/ StartPlan(r) \/ StartPipeline(r) \/ StartAdvance(r) \/ StartMark(r)
                \/ Enrol(r) \/ Launch(r) \/ Schedule(r) \/ Decline(r) \/ Close(r))
  /\ WF_vars(\E s \in DOMAIN sess : Conduct(s))
  /\ SF_vars(\E r \in Requests, s \in DOMAIN sess : CloseRead(r, s))
  /\ WF_vars(\E s \in DOMAIN sess : Evaluate(s))
  /\ WF_vars(\E s \in DOMAIN sess : Decide(s))

-----------------------------------------------------------------------------
(* Properties *)

\* A round has one session, whoever clicks, reloads or retries at the same moment: the
\* sessions of a pipeline are those its progress names, in the order of its rounds
\* (pipelines.py:154 "must not create two sessions for the same round / skip a round").
RoundOnce ==
  gates # <<>> => Len(sess) = prog.round /\ prog.sessions = [i \in 1..prog.round |-> i]

\* A candidate is never in two interviews at once (lifecycle.py:474-486).
OneLiveSession == Cardinality(Live) <= 1

\* Behind every round that was opened lies a completed one that passed its gate: with a
\* score above the threshold, or a reviewer's confirmation.
GatesHeld ==
  \A i \in 1..prog.round - 1 :
     LET s == sess[prog.sessions[i]]
     IN  /\ s.status = "completed"
         /\ gates[i] = "auto" => s.score = "pass"
         /\ gates[i] = "review" => \E k \in DOMAIN s.decisions : s.decisions[k] = "confirm"

\* A pipeline that has ended or completed stays so, and opens no session any more.
OutcomeIsFinal ==
  [][prog.gate \in Settled => prog' = prog /\ Len(sess') = Len(sess)]_vars

\* A pipeline that has begun comes to its end, unless a round is aborted: nothing ever
\* replaces that round (pipelines.py:180-181).
PipelineSettles ==
  prog # NoProgress ~> (prog.gate \in Settled \/ \E s \in DOMAIN sess : sess[s].status = "aborted")
=============================================================================
