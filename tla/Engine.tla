-------------------------------- MODULE Engine --------------------------------
(***************************************************************************)
(* The pure interview engine: the fold of the event log into an            *)
(* EngineState (agent/engine/state.py) and the rules of                    *)
(* InterviewStateMachine, over a plan of rounds (agent/engine/plan.py).    *)
(*                                                                         *)
(* The parts of EngineState that only shape prompts (probe budgets, intent *)
(* coverage, turn counters) and the plugin rounds' exhibits and math       *)
(* blocks are left out.  Time is counted in ticks.                         *)
(***************************************************************************)
EXTENDS Integers, Sequences

CONSTANTS
  Plan,          \* the rounds, in order: [id, minutes, code, twist, hints]
  HintGap,       \* HINT_ESCALATION_GAP_S
  NudgeSilence,  \* NUDGE_SILENCE_S
  MaxNudges,     \* MAX_NUDGES_PER_ROUND
  NoRound,       \* round_id is None
  Ended          \* engine.plan.ENDED

Ids == {Plan[i].id : i \in DOMAIN Plan}

ASSUME PlanAssumption ==
  /\ Len(Plan) \in Nat \ {0} /\ DOMAIN Plan = 1..Len(Plan)
  /\ \A i \in DOMAIN Plan : Plan[i].minutes \in Nat \ {0} /\ Plan[i].hints \in Nat
  /\ \A i, j \in DOMAIN Plan : Plan[i].id = Plan[j].id => i = j
  /\ {NoRound, Ended} \cap Ids = {} /\ NoRound # Ended
ASSUME EngineAssumption == {HintGap, NudgeSilence, MaxNudges} \subseteq Nat

\* Values of round_id.
Places == Ids \cup {NoRound, Ended}

\* Events that reach apply_event.  An agent_turn is kept only when it bears
\* the nudge mark, the only part of it that the rules below read.
Event == [type : {"state_transition", "stt_final", "nudge_turn", "hint_issued",
                  "twist_injected", "execution_result"},
          round : Places, level : Nat, ok : BOOLEAN, ts : Nat]

EventOf(type, round, level, ts) ==
  [type |-> type, round |-> round, level |-> level, ok |-> FALSE, ts |-> ts]

\* last_candidate_ts is -1 for None.
EngineState == [round : Places, entered : Nat, spoke : Nat \cup {-1},
                hints : Seq([round : Places, level : Nat, ts : Nat]),
                twists : SUBSET Places, nudges : [Places -> Nat]]
NoState == [round |-> NoRound, entered |-> 0, spoke |-> -1, hints |-> <<>>,
            twists |-> {}, nudges |-> [r \in Places |-> 0]]

ApplyEvent(es, e) ==
  CASE e.type = "state_transition" -> [es EXCEPT !.round = e.round, !.entered = e.ts]
    [] e.type = "stt_final"        -> [es EXCEPT !.spoke = e.ts]
    [] e.type = "nudge_turn"       -> [es EXCEPT !.nudges[es.round] = @ + 1]
    [] e.type = "hint_issued"      -> [es EXCEPT !.hints = Append(@, [round |-> e.round,
                                                       level |-> e.level, ts |-> e.ts])]
    [] e.type = "twist_injected"   -> [es EXCEPT !.twists = @ \cup {e.round}]
    [] OTHER                       -> es

\* The states that events lead through from a given one, and the last of them.
States(st, events) ==
  LET f[k \in 0..Len(events)] == IF k = 0 THEN st ELSE ApplyEvent(f[k - 1], events[k])
  IN  f
After(st, events) == States(st, events)[Len(events)]

\* rebuild(): crash recovery.
Rebuild(events) == After(NoState, events)

-----------------------------------------------------------------------------
(* The plan *)

RoundOf(r) == CHOOSE i \in DOMAIN Plan : Plan[i].id = r
\* next_round() and `nxt.id if nxt else ENDED`.
\* Mutant NextRoundSkips: the index of the following round is off by one.
NextRoundSkips(r) == IF RoundOf(r) + 2 \in DOMAIN Plan THEN Plan[RoundOf(r) + 2].id ELSE Ended
NextRound(r) == IF RoundOf(r) + 1 \in DOMAIN Plan THEN Plan[RoundOf(r) + 1].id ELSE Ended
CodeRound(r) == r \in Ids /\ Plan[RoundOf(r)].code

-----------------------------------------------------------------------------
(* InterviewStateMachine *)

\* Mutant BudgetAlmostSpent: one tick early.
BudgetAlmostSpent(es, now) == now - es.entered >= Plan[RoundOf(es.round)].minutes - 1
BudgetSpent(es, now) == now - es.entered >= Plan[RoundOf(es.round)].minutes

\* should_transition(): NoRound stands for None.
ShouldTransition(es, now) ==
  IF es.round = Ended THEN NoRound
  ELSE IF es.round = NoRound THEN Plan[1].id
  ELSE IF BudgetSpent(es, now) THEN NextRound(es.round)
  ELSE NoRound

\* hints_in_round(), by their places in the history, and the newest of them.
Issued(es) == {i \in DOMAIN es.hints : es.hints[i].round = es.round}
Latest(S) == CHOOSE i \in S : \A j \in S : j <= i
LastIssued(es) == es.hints[Latest(Issued(es))]

\* authorized_hint_level(): 0 stands for None.
\* Mutant HintTooSoon: the pause between two levels is not looked at.
HintTooSoon(es, now, failing) ==
  IF Issued(es) = {} THEN 1
  ELSE IF LastIssued(es).level < 3 /\ failing THEN LastIssued(es).level + 1 ELSE 0
AuthorizedHintLevel(es, now, failing) ==
  IF Issued(es) = {} THEN 1
  ELSE IF /\ LastIssued(es).level < 3
          /\ failing
          /\ now - LastIssued(es).ts >= HintGap
       THEN LastIssued(es).level + 1
       ELSE 0

\* should_fire_twist(): at least 40% of the budget must remain.
ShouldFireTwist(es, now, passed) ==
  /\ es.round \in Ids /\ Plan[RoundOf(es.round)].twist /\ passed
  /\ es.round \notin es.twists
  /\ 10 * (now - es.entered) <= 6 * Plan[RoundOf(es.round)].minutes

\* should_nudge()
ShouldNudge(es, now, editing) ==
  /\ es.nudges[es.round] < MaxNudges
  /\ editing
  /\ es.spoke # -1
  /\ now - es.spoke >= NudgeSilence
=============================================================================
