------------------------------ MODULE Interview ------------------------------
(***************************************************************************)
(* The voice agent's job conducting one session (agent/interview_agent.py):*)
(* its transition and observation loops, the candidate's and the model's   *)
(* turns, the event log it writes, crashes, and resuming from the log.     *)
(*                                                                         *)
(* One job at a time; that this is so is the business of dispatch.  The    *)
(* sink and the API are abstracted to the promise of EventDelivery: emitted*)
(* events reach the log in order, at most once, and a crash loses what is  *)
(* not stored by then.                                                     *)
(***************************************************************************)
EXTENDS Engine

CONSTANTS
  ReplayLimit,  \* events one GET /replay returns (5000 in the code)
  MaxNow,       \* bound: ticks
  Slack,        \* bound: ticks by which the loops may lag behind the clock
  MaxInputs,    \* bound: what the candidate says and runs, and what goes wrong
  MaxFail,      \* bound: failures of generate_reply and set_status
  MaxCrash      \* bound: crashes of the job

ASSUME InterviewAssumption ==
  {ReplayLimit, MaxNow, Slack, MaxInputs, MaxFail, MaxCrash} \subseteq Nat

VARIABLES
  log,       \* the session's event log
  pending,   \* emitted by the job, not yet stored
  now,       \* the clock
  job,       \* "down", "live" or "closed" (refused or finished)
  es,        \* conductor.es
  loop,      \* where transition_loop is
  turn,      \* a conduct turn under way: 0 none, 1 no hint offered, 2.. hint level + 1
  mark,      \* _pending_nudge
  passed,    \* rounds whose visible_passed is True and tests_failing False
  seen,      \* observation_loop's last_seq, as a count of events
  status,    \* sessions.status
  inputs,    \* counts against MaxInputs
  fails,     \* counts against MaxFail
  crashes    \* counts against MaxCrash

used == <<inputs, fails, crashes>>
vars == <<log, pending, now, job, es, loop, turn, mark, passed, seen, status, used>>

Loops == {"none", "sleep", "reply", "farewell", "goodbye"}
History == log \o pending
Live == job = "live"

TypeOK ==
  /\ log \in Seq(Event) /\ pending \in Seq(Event)
  /\ now \in 0..MaxNow
  /\ job \in {"down", "live", "closed"}
  /\ es \in EngineState
  /\ loop \in Loops
  /\ turn \in 0..4
  /\ mark \in BOOLEAN
  /\ passed \subseteq Ids
  /\ seen \in 0..Len(log)
  /\ status \in {"created", "in_progress", "completed"}
  /\ inputs \in 0..MaxInputs /\ fails \in 0..MaxFail /\ crashes \in 0..MaxCrash

Init ==
  /\ log = <<>> /\ pending = <<>>
  /\ now = 0 /\ job = "down" /\ es = NoState /\ loop = "none"
  /\ turn = 0 /\ mark = FALSE
  /\ passed = {} /\ seen = 0
  /\ status = "created"
  /\ inputs = 0 /\ fails = 0 /\ crashes = 0

-----------------------------------------------------------------------------
(* fold(): every change of the engine state is also an event. *)

Fold(events) ==
  /\ es' = After(es, events)
  /\ pending' = pending \o events

\* An assistant item was added: it takes the nudge mark, and a hint that it
\* is tagged with is recorded for the round it arrives in.
\* Mutant ItemUncounted: the event of the turn does not say that it nudged.
ItemUncounted(level) ==
  IF level > 0 THEN <<EventOf("hint_issued", es.round, level, now)>> ELSE <<>>
ItemEvents(level) ==
  (IF mark THEN <<EventOf("nudge_turn", NoRound, 0, now)>> ELSE <<>>)
    \o (IF level > 0 THEN <<EventOf("hint_issued", es.round, level, now)>> ELSE <<>>)
Item(level) == Fold(ItemEvents(level)) /\ mark' = FALSE

Spare == inputs + fails + crashes < MaxInputs
Heard == Spare /\ inputs' = inputs + 1 /\ UNCHANGED <<fails, crashes>>
Fails == fails < MaxFail /\ Spare /\ fails' = fails + 1 /\ UNCHANGED <<inputs, crashes>>

-----------------------------------------------------------------------------
(* Starting and resuming *)

\* Mutant BootBlank: the log is not replayed.
BootBlank == NoState
BootState == Rebuild(SubSeq(log, 1, IF Len(log) < ReplayLimit THEN Len(log) ELSE ReplayLimit))

\* A job is dispatched, bootstraps and starts its loops.  A set_status that
\* fails is swallowed.
Start ==
  /\ job = "down" /\ status # "completed"
  /\ BootState.round # Ended
  /\ job' = "live" /\ loop' = "sleep"
  /\ IF BootState.round = NoRound
       THEN LET e == EventOf("state_transition", Plan[1].id, 0, now)
            IN  /\ es' = ApplyEvent(BootState, e)
                /\ pending' = <<e>>
                /\ \/ status' = "in_progress" /\ UNCHANGED used
                   \/ Fails /\ UNCHANGED status
       ELSE es' = BootState /\ pending' = <<>> /\ UNCHANGED <<status, used>>
  /\ UNCHANGED <<log, now, turn, mark, passed, seen>>

\* An interview whose log has reached ENDED, or that is closed, is refused.
Refuse ==
  /\ job = "down"
  /\ status = "completed" \/ BootState.round = Ended
  /\ job' = "closed"
  /\ UNCHANGED <<log, pending, now, es, loop, turn, mark, passed, seen, status, used>>

Crash ==
  /\ Live /\ crashes < MaxCrash /\ Spare
  /\ job' = "down" /\ es' = NoState /\ loop' = "none" /\ turn' = 0
  /\ mark' = FALSE /\ passed' = {} /\ seen' = 0
  /\ pending' = <<>>
  /\ crashes' = crashes + 1
  /\ UNCHANGED <<log, now, status, inputs, fails>>

\* flush(): what was emitted reaches the log.
Flush ==
  /\ pending # <<>>
  /\ log' = log \o pending /\ pending' = <<>>
  /\ UNCHANGED <<now, job, es, loop, turn, mark, passed, seen,
                 status, used>>

-----------------------------------------------------------------------------
(* The candidate and the model *)

Speech ==
  /\ Live /\ Heard
  /\ Fold(<<EventOf("stt_final", NoRound, 0, now)>>)
  /\ UNCHANGED <<log, now, job, loop, turn, mark, passed, seen, status>>

\* on_user_turn_completed(): the directive offers the hint authorized now.
HintOffered ==
  LET l == AuthorizedHintLevel(es, now, es.round \notin passed)
  IN  IF CodeRound(es.round) /\ l <= Plan[RoundOf(es.round)].hints THEN l ELSE 0

UserTurn ==
  /\ Live /\ turn = 0 /\ es.round \in Ids /\ Heard
  /\ turn' = HintOffered + 1
  /\ UNCHANGED <<log, pending, now, job, es, loop, mark, passed, seen, status>>

\* The reply to it; a model that obeys gives the hint offered, or none.
Reply ==
  /\ Live /\ turn # 0
  /\ \E level \in {0, turn - 1} : Item(level)
  /\ turn' = 0
  /\ UNCHANGED <<log, now, job, loop, passed, seen, status, used>>

\* The round whose tool the room shows: that of the newest move in the log,
\* or the first one when the plan does not know it (ENDED).
MovesIn(events) == {i \in DOMAIN events : events[i].type = "state_transition"}
Shown == IF MovesIn(log) = {} \/ log[Latest(MovesIn(log))].round = Ended THEN Plan[1].id
         ELSE log[Latest(MovesIn(log))].round

\* The candidate runs code: POST /execute appends the result to the log.
Run ==
  /\ CodeRound(Shown) /\ Heard /\ status # "completed"
  /\ \E ok \in BOOLEAN :
       log' = Append(log, [EventOf("execution_result", Shown, 0, now) EXCEPT !.ok = ok])
  /\ UNCHANGED <<pending, now, job, es, loop, turn, mark, passed, seen, status>>

-----------------------------------------------------------------------------
(* observation_loop() *)

\* last_seq is that of the newest event fetched, stored ones only.
Newest == Len(log)
Unseen == {i \in seen + 1..Len(log) : log[i].type = "execution_result"}

\* One poll of a code round: the newest run among the events not yet seen
\* counts for the round the engine is in now.  A run passes the visible
\* tests exactly when it is accepted: the difference is not modelled.
Observe ==
  /\ Live /\ CodeRound(es.round)
  /\ passed' = IF Unseen = {} THEN passed
               ELSE IF log[Latest(Unseen)].ok THEN passed \cup {es.round}
               ELSE passed \ {es.round}
  /\ seen' = Newest
  /\ UNCHANGED <<log, pending, now, job, es, loop, turn, mark, status, used>>

-----------------------------------------------------------------------------
(* transition_loop(), woken from its sleep: one action per branch *)

Awake == Live /\ loop = "sleep"
TwistDue == ShouldFireTwist(es, now, es.round \in passed)
\* Whether the editor changed between the last two polls is up to the
\* candidate: the loop may find it so or not.
NudgeDue == CodeRound(es.round) /\ ShouldNudge(es, now, TRUE)
Target == ShouldTransition(es, now)

Twist ==
  /\ Awake /\ TwistDue
  /\ Fold(<<EventOf("twist_injected", es.round, 0, now)>>)
  /\ loop' = "reply"
  /\ UNCHANGED <<log, now, job, turn, mark, passed, seen, status, used>>

Nudge ==
  /\ Awake /\ ~TwistDue /\ NudgeDue
  /\ mark' = TRUE
  /\ loop' = "reply"
  /\ UNCHANGED <<log, pending, now, job, es, turn, passed, seen,
                 status, used>>

\* transition_to(): the move is an event before it is spoken.
Move ==
  /\ Awake /\ ~TwistDue /\ Target # NoRound
  /\ Fold(<<EventOf("state_transition", Target, 0, now)>>)
  /\ loop' = IF Target = Ended THEN "farewell" ELSE "reply"
  /\ UNCHANGED <<log, now, job, turn, mark, passed, seen, status, used>>

\* The reply the loop awaits is spoken ...
Spoken ==
  /\ Live /\ loop \in {"reply", "farewell"}
  /\ Item(0)
  /\ loop' = IF loop = "reply" THEN "sleep" ELSE "goodbye"
  /\ UNCHANGED <<log, now, job, turn, passed, seen, status, used>>

\* ... or generate_reply raises and _supervise restarts the loop.
ReplyFails ==
  /\ Live /\ loop \in {"reply", "farewell"}
  /\ Fails
  /\ loop' = "sleep"
  /\ UNCHANGED <<log, pending, now, job, es, turn, mark, passed, seen, status>>

\* Eight seconds later: the session is completed, the sink closed, the job
\* ends.  A set_status that fails is swallowed, and so is what the last
\* flush could not post.
Finish ==
  /\ Live /\ loop = "goodbye"
  /\ \/ status' = "completed" /\ log' = log \o pending /\ UNCHANGED used
     \/ Fails /\ status' \in {status, "completed"} /\ log' \in {log, log \o pending}
  /\ pending' = <<>>
  /\ job' = "closed" /\ loop' = "none"
  /\ UNCHANGED <<now, es, turn, mark, passed, seen>>

-----------------------------------------------------------------------------

\* Time passes.  A tick is far longer than the loops' sleeps (4 s and 5 s): by
\* then the newest run was observed, and a spent budget at most Slack ago.
\* The clock starts with the first job.
Tick ==
  /\ now < MaxNow /\ job # "closed" /\ (job = "down" => crashes > 0)
  /\ Live => /\ es.round \in Ids
             /\ now < es.entered + Plan[RoundOf(es.round)].minutes + Slack
             /\ CodeRound(es.round) => Unseen = {}
  /\ now' = now + 1
  /\ UNCHANGED <<log, pending, job, es, loop, turn, mark, passed, seen, status, used>>

Next ==
  \/ Start \/ Refuse \/ Crash \/ Flush
  \/ Speech \/ UserTurn \/ Reply \/ Run \/ Observe
  \/ Twist \/ Nudge \/ Move \/ Spoken \/ ReplyFails \/ Finish
  \/ Tick

Spec == Init /\ [][Next]_vars

\* The loops run, replies end, time passes; the candidate owes nothing.
FairSpec ==
  /\ Spec
  /\ WF_vars(Start \/ Refuse) /\ WF_vars(Flush) /\ WF_vars(Observe) /\ WF_vars(Tick)
  /\ WF_vars(Twist \/ Nudge \/ Move)
  /\ WF_vars(Spoken \/ ReplyFails) /\ WF_vars(Finish)

-----------------------------------------------------------------------------
(* Properties *)

Route == [i \in 1..Len(Plan) |-> Plan[i].id] \o <<Ended>>

\* The moves before an event of the log, and the last one of them.
Before(j) == {i \in MovesIn(History) : i < j}
Previous(j) == History[Latest(Before(j))]

\* "Invariant #6" of engine/state.py: what the running job believes is what a
\* job that took over now would rebuild, once the sink has flushed.  The
\* engine reads no hidden input that the log does not have.
EngineIsFoldOfLog == Live => es = Rebuild(History)

\* The log tells of one walk through the plan: the first move is to its first round,
\* every other one stop further on the route, ENDED last - whatever is lost in crashes
\* and repeated after them.
RoundsInOrder ==
  \A j \in MovesIn(History) :
    IF Before(j) = {} THEN History[j].round = Route[1]
    ELSE \E n \in 1..Len(Plan) : Previous(j).round = Route[n] /\ History[j].round = Route[n + 1]

\* Time is the hard limit, and the only one: no round is cut short, not even
\* by a crash and a resumption in the middle of it.
BudgetsRespected ==
  \A j \in MovesIn(History) : Before(j) # {} /\ Previous(j).round \in Ids
    => History[j].ts - Previous(j).ts >= Plan[RoundOf(Previous(j).round)].minutes

\* The twist of a round is injected at most once, in that round, and while
\* at least 40% of the round's budget remains.
TwistsOnceAndEarly ==
  \A j \in DOMAIN History : History[j].type = "twist_injected" =>
    /\ \A i \in DOMAIN History :
         (History[i].type = "twist_injected" /\ History[i].round = History[j].round) => i = j
    /\ Before(j) # {} /\ Previous(j).round = History[j].round
    /\ 10 * (History[j].ts - Previous(j).ts) <= 6 * Plan[RoundOf(History[j].round)].minutes

\* However the mark travels - to the reply of another turn, into the next
\* round, past a failed reply - no round logs more nudges than allowed.
NudgesBounded == \A r \in Ids : Rebuild(History).nudges[r] <= MaxNudges

\* Of two hints of one round the later is of a higher level and HintGap after
\* the other (agent/engine/state.py:175 authorized_hint_level).
HintsSpaced ==
  \A i, j \in DOMAIN History :
    (/\ i < j /\ History[i].round = History[j].round
     /\ History[i].type = "hint_issued" /\ History[j].type = "hint_issued")
      => History[j].level > History[i].level /\ History[j].ts - History[i].ts >= HintGap

\* What the engine's policies promise the candidate, over any interleaving of the
\* two loops with turns, failed replies, crashes and resumptions.
LimitsKept == TwistsOnceAndEarly /\ NudgesBounded /\ HintsSpaced

\* The interview comes to its end, the session is completed, when nothing fails:
\* twists, nudges and turns, each of which keeps the loop from looking at the
\* clock, cannot starve the transitions.
EndsUndisturbed ==
  (fails = 0 /\ crashes = 0)
    ~> (fails + crashes > 0 \/ (job = "closed" /\ status = "completed"))
=============================================================================
