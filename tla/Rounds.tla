------------------------------- MODULE Rounds -------------------------------
(* The round plugins (agent/engine/rounds, round_registry.py): the phases of *)
(* a case and of a design round, the tags a model puts on its turns          *)
(* (meta.py), the steps a directive asks for, the exhibits, and the numbers  *)
(* that "are adjudicated by code" (mathcheck.py and the two handlers of      *)
(* interview_agent.py that carry a verdict from an utterance to a turn).     *)
(*                                                                           *)
(* Time within a round is a percentage of its budget, which moves from one   *)
(* value at which some rule changes to the next.  Engine and Interview have  *)
(* what all rounds share; words, diagrams and coverage are left out.         *)
EXTENDS Integers, Sequences, FiniteSets

CONSTANTS Plan,    \* the rounds in order: [type, pack, blocks, exhibits]
          Numbers  \* numbers a candidate may say

\* pack: is there material for the plugin?  blocks: its math or estimation blocks
\* [id, answer] in order.  exhibits: the ids of its exhibits.
Types == {"case", "system_design", "behavioral", "coding"}

ASSUME RoundsAssumption ==
  /\ Plan # <<>> /\ Plan \in Seq({Plan[i] : i \in DOMAIN Plan})
  /\ \A i \in DOMAIN Plan :
       /\ Plan[i].type \in Types /\ Plan[i].pack \in BOOLEAN
       /\ Plan[i].blocks \in Seq({Plan[i].blocks[k] : k \in DOMAIN Plan[i].blocks})
       /\ \A k \in DOMAIN Plan[i].blocks : Plan[i].blocks[k].answer \in Numbers

VARIABLES valid,     \* the intents parse_meta lets through
          round,     \* the index of es.round_id in the plan, past the end for ENDED
          elapsed,   \* elapsed_frac, in percent
          seen,      \* es.intents_seen
          correct,   \* es.math_correct
          revealed,  \* the exhibit_revealed events
          pending,   \* conductor._pending_math
          tagged,    \* history: the tags as the model put them
          stated     \* history: the blocks whose answer was said while they were asked

roundsVars == <<valid, round, elapsed, seen, correct, revealed, pending, tagged, stated>>

NoBlock == [id |-> "none"]
NoVerdict == [block |-> "none", correct |-> FALSE]
Percents == {0, 6, 15, 30, 35, 55, 71, 75, 80, 85, 100}
On == round \in DOMAIN Plan
Here == Plan[round]

CompletionIntents(type) ==
  CASE type = "case"          -> {"structure_proposed", "synthesis_requested"}
    [] type = "system_design" -> {"requirements_stated", "scale_question", "failure_question"}
    [] type = "behavioral"    -> {"star_S", "star_T", "star_A", "star_R"}
    [] type = "coding"        -> {"complexity_question", "testing_question"}

\* VALID_INTENTS, of which "chat" and "probe" are not remembered.
ValidIntents == {"chat", "question", "probe", "hint", "acknowledge",
                 "complexity_question", "testing_question", "wrapup"}
PromptedIntents == (UNION {CompletionIntents(t) : t \in Types}) \cup {"release_exhibit"}

\* The list as it is, and as the plugins and the prompts take it to be.
RoundsInit ==
  /\ valid \in {ValidIntents, ValidIntents \cup PromptedIntents}
  /\ round = 1 /\ elapsed = 0
  /\ seen = {} /\ correct = {} /\ revealed = <<>>
  /\ pending = NoVerdict
  /\ tagged = {} /\ stated = {}

---------------------------------------------------------------------------
(* Phases *)

IntentSeen(i) == <<round, i>> \in seen

Phases(type) ==
  IF type = "case"
  THEN <<"CASE_INTRO", "CLARIFY", "STRUCTURE", "ANALYSIS", "BRAINSTORM", "SYNTHESIS">>
  ELSE <<"REQUIREMENTS", "ESTIMATION", "HIGH_LEVEL_DESIGN", "DEEP_DIVE", "SCALE_AND_FAILURE">>

Schedule(type) ==
  IF type = "case" THEN <<0, 6, 15, 35, 75, 85>> ELSE <<0, 15, 30, 55, 80>>

Scheduled(type) == Cardinality({k \in DOMAIN Schedule(type) : elapsed >= Schedule(type)[k]})

\* Phases that wait for structure_proposed, numbered.
CaseGatedLate == {5}  \* Mutant: ANALYSIS is not gated

CaseGated == {4, 5}

CasePhase ==
  IF Scheduled("case") \in CaseGated /\ ~IntentSeen("structure_proposed") THEN 3 ELSE Scheduled("case")

DesignPhase ==
  IF IntentSeen("requirements_stated") THEN Scheduled("system_design") ELSE 1

---------------------------------------------------------------------------
(* What a directive asks the model to tag *)

Missing == {i \in CompletionIntents(Here.type) : ~IntentSeen(i)}

StarNext == LET star == <<"star_S", "star_T", "star_A", "star_R">>
                missing == SelectSeq(star, LAMBDA i : ~IntentSeen(i))
            IN IF missing = <<>> THEN {} ELSE {missing[1]}

AskedByPlugin ==
  CASE Here.type = "case" /\ Here.pack ->
         Missing \cap (CASE CasePhase = 3 -> {"structure_proposed"}
                         [] CasePhase = 6 -> {"synthesis_requested"}
                         [] OTHER -> {})
    [] Here.type = "system_design" /\ Here.pack ->
         IF DesignPhase = 1 THEN {"requirements_stated"}
         ELSE IF DesignPhase = 5 THEN Missing \cap {"scale_question", "failure_question"} ELSE {}
    [] Here.type = "behavioral" -> StarNext
    [] OTHER -> {}

\* "Before this round can end you must".
Asked == IF On THEN AskedByPlugin \cup (IF elapsed > 70 THEN Missing ELSE {}) ELSE {}

---------------------------------------------------------------------------
(* Numbers *)

\* The first block not yet answered; a case asks in ANALYSIS only, a design round
\* adjudicates in any phase.
ActiveBlock ==
  LET open == {k \in DOMAIN Here.blocks : <<round, Here.blocks[k].id>> \notin correct} IN
    IF Here.pack /\ open # {} /\ (Here.type = "case" => CasePhase = 4)
         /\ Here.type \in {"case", "system_design"}
    THEN Here.blocks[CHOOSE k \in open : \A j \in open : k <= j] ELSE NoBlock

\* on_transcribed.  Of the numbers said, check_answer takes the closest to the
\* answer; without a number nothing is adjudicated.
Utter(said) ==
  /\ On
  /\ IF ActiveBlock = NoBlock \/ said = {} THEN UNCHANGED <<pending, stated>>
     ELSE /\ pending' = [block |-> ActiveBlock.id, correct |-> ActiveBlock.answer \in said]
          /\ stated' = IF ActiveBlock.answer \in said
                       THEN stated \cup {<<round, ActiveBlock.id>>} ELSE stated
  /\ UNCHANGED <<valid, round, elapsed, seen, correct, revealed, tagged>>

---------------------------------------------------------------------------
(* The model's turns *)

Parse(intent) == IF intent \in valid THEN intent ELSE "chat"

VerdictKept == pending  \* Mutant: the verdict is not cleared when it is used

VerdictUsed == NoVerdict

ReleaseAllowed(ex) ==
  /\ \A k \in DOMAIN revealed : revealed[k] # <<round, ex>>
  /\ Here.pack /\ ex \in Here.exhibits

\* on_item, the fold of its agent_turn and its exhibit_revealed.  The marker of a
\* right answer bears the round of the turn.
AgentTurn(intent, ex) ==
  /\ On
  /\ seen' = IF Parse(intent) \in {"chat", "probe"} THEN seen
             ELSE seen \cup {<<round, Parse(intent)>>}
  /\ correct' = IF pending.correct THEN correct \cup {<<round, pending.block>>} ELSE correct
  /\ pending' = VerdictUsed
  /\ revealed' = IF Parse(intent) = "release_exhibit" /\ ReleaseAllowed(ex)
                 THEN Append(revealed, <<round, ex>>) ELSE revealed
  /\ tagged' = IF intent = "chat" THEN tagged ELSE tagged \cup {<<round, intent>>}
  /\ UNCHANGED <<valid, round, elapsed, stated>>

---------------------------------------------------------------------------
(* Time, and restarts *)

TimePasses ==
  /\ On /\ elapsed < 100
  /\ elapsed' = CHOOSE p \in Percents : p > elapsed /\ \A q \in Percents : q > elapsed => p <= q
  /\ UNCHANGED <<valid, round, seen, correct, revealed, pending, tagged, stated>>

\* transition_to at the end of the budget leaves the pending verdict where it is.
NextRound ==
  /\ On /\ elapsed = 100
  /\ round' = round + 1
  /\ elapsed' = 0
  /\ UNCHANGED <<valid, seen, correct, revealed, pending, tagged, stated>>

\* The engine state is rebuilt from the log, the conductor's memory is not.
Restart ==
  /\ On
  /\ pending' = NoVerdict
  /\ UNCHANGED <<valid, round, elapsed, seen, correct, revealed, tagged, stated>>

Exhibits == UNION {Plan[i].exhibits : i \in DOMAIN Plan}
Tags == IF On THEN CompletionIntents(Here.type) \cup {"chat", "release_exhibit"} ELSE {}

RoundsNext ==
  \/ \E said \in SUBSET Numbers : Utter(said)
  \/ \E intent \in Tags, ex \in Exhibits : AgentTurn(intent, ex)
  \/ TimePasses \/ NextRound \/ Restart

RoundsSpec == RoundsInit /\ [][RoundsNext]_roundsVars

---------------------------------------------------------------------------
RoundsTypeOK ==
  /\ round \in 1..(Len(Plan) + 1)
  /\ elapsed \in Percents
  /\ tagged \cup seen \subseteq (DOMAIN Plan) \X (ValidIntents \cup PromptedIntents)
  /\ pending \in [block : {"none"} \cup {b.id : b \in UNION {{Plan[i].blocks[k] :
                    k \in DOMAIN Plan[i].blocks} : i \in DOMAIN Plan}}, correct : BOOLEAN]

\* "numbers are adjudicated by code" (mathcheck.py:3): every block that counts as
\* answered rests on an answer of its own, said while a block of that id was
\* active, in the same round or in an earlier one whose verdict no turn had taken
\* along; repeating it, a restart or a change of round makes no second one of it.
MathEarned ==
  \A m \in correct :
    LET UpTo(S) == {x \in S : x[2] = m[2] /\ x[1] <= m[1]} IN
      Cardinality(UpTo(correct)) <= Cardinality(UpTo(stated))

\* "Deterministic phase: time schedule, gated" (case.py:32): with the time and the
\* tags in any order, a round never falls back to a phase it has left.
PhasesForward ==
  [][On /\ round' = round =>
       /\ Here.type = "case" => CasePhase' >= CasePhase
       /\ Here.type = "system_design" => DesignPhase' >= DesignPhase]_roundsVars

\* "the engine steers toward missing ones" (round_registry.py:20): what the model
\* has tagged in a case or a behavioral round is not asked for again.
AskedUntilTagged ==
  On /\ Here.type \in {"case", "behavioral"} => \A i \in Asked : <<round, i>> \notin tagged
=============================================================================
