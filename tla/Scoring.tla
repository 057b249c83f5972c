------------------------------ MODULE Scoring ------------------------------
(* From a finished interview to a verdict: the two passes of the evaluation  *)
(* (eval/pipeline.py), the brief made from it (eval/brief.py), the automatic *)
(* gate (routes/pipelines.py), the review queue (routes/review.py) and the   *)
(* roll-up over the rounds of a pipeline (eval/aggregate.py).  What a model  *)
(* answers is any choice; the code keeps of it what the event log bears out. *)
(*                                                                           *)
(* A mean is a pair <<sum, weight>> and is compared by multiplying out; the  *)
(* rounding to two decimals, which moves a mean by less than 0.01, is left   *)
(* out.  Thresholds are in tenths.                                           *)
EXTENDS Integers, FiniteSetsExt

CONSTANTS NRounds,       \* the rounds of the pipeline, each with one session
          Competencies,
          Marks,         \* the scores a model gives, of 1..5
          Events,        \* Events[r]: the ids of the events round r may log
          PlanWeight,    \* competencies[c].weight of the plan, for the brief
          RoleWeight,    \* role_configs.weights, for gate and queue; a subset may be listed
          RoundWeight,   \* rounds[r].weight of the pipeline
          Hire,          \* thresholds["hire"]
          Band           \* BORDERLINE_BAND

Rounds == 1..NRounds
AllEvents == UNION {Events[r] : r \in Rounds}

ASSUME ScoringAssumption ==
  /\ NRounds \in Nat \ {0}
  /\ IsFiniteSet(Competencies)
  /\ Marks \subseteq 1..5
  /\ \A r, q \in Rounds : r # q => Events[r] \cap Events[q] = {}
  /\ PlanWeight \in [Competencies -> Nat]
  /\ DOMAIN RoleWeight \subseteq Competencies
  /\ RoundWeight \in [Rounds -> Nat]

VARIABLES gated,    \* the rounds with an automatic gate after them
          log,      \* the events of each session
          work,     \* what the worker is at
          eval,     \* the stored evaluation of each session
          brief,    \* the recruiter layer of each session's brief
          gate,     \* what the automatic gate said after each round
          decided,  \* the sessions with a review decision
          claims    \* the consistency claims of the last aggregate

scoringVars == <<gated, log, work, eval, brief, gate, decided, claims>>

NoWork == [at |-> "idle"]
None == [degraded |-> FALSE]
NoEvidence == [c \in Competencies |-> {}]
Nothing == [c \in {} |-> 0]

\* scores[c] is there only for a competency whose score was accepted.
Evaluation(degraded, evidence, scores) ==
  [degraded |-> degraded, evidence |-> evidence, scores |-> scores]

ScoringInit ==
  /\ gated \in SUBSET Rounds
  /\ log \in [Rounds -> {{}} \cup {Events[r] : r \in Rounds}]
  /\ \A r \in Rounds : log[r] \subseteq Events[r]
  /\ work = NoWork
  /\ eval = [r \in Rounds |-> None]
  /\ brief = [r \in Rounds |-> None]
  /\ gate = [r \in Rounds |-> "open"]
  /\ decided = {}
  /\ claims = {}

---------------------------------------------------------------------------
(* eval/pipeline.py *)

\* A pipeline opens a round when the gates before it have let the candidate pass.
Opened(r) == \A q \in gated : q < r => gate[q] = "passed"

Take(r) ==
  /\ work = NoWork
  /\ eval[r] = None
  /\ Opened(r)
  /\ work' = [at |-> "evidence", round |-> r]
  /\ UNCHANGED <<gated, log, eval, brief, gate, decided, claims>>

Store(e) ==
  /\ eval' = [eval EXCEPT ![work.round] = e]
  /\ work' = [at |-> "brief", round |-> work.round]
  /\ UNCHANGED <<gated, log, brief, gate, decided, claims>>

\* _validate_evidence: an item stays if its event is in the log, for whatever
\* competency it was cited.
EvidencePass ==
  /\ work.at = "evidence"
  /\ log[work.round] # {}
  /\ \E raw \in [Competencies -> SUBSET AllEvents] :
       work' = [at |-> "scoring", round |-> work.round, attempt |-> 1,
                evidence |-> [c \in Competencies |-> raw[c] \cap log[work.round]]]
  /\ UNCHANGED <<gated, log, eval, brief, gate, decided, claims>>

\* _store_degraded: no events, no answer, or no evidence to be read from it.
EvidenceFails ==
  /\ work.at = "evidence"
  /\ Store(Evaluation(TRUE, NoEvidence, Nothing))

AllowedAnyEvent(c) == log[work.round]  \* Mutant: a reference need only be an event of the log

Allowed(c) == work.evidence[c]

\* _validate_scores: all competencies, each with a reference to its own evidence.
ScoringPass ==
  /\ work.at = "scoring"
  /\ \E raw \in [Competencies -> [mark : Marks, refs : SUBSET AllEvents]] :
       /\ \A c \in Competencies : raw[c].refs \cap Allowed(c) # {}
       /\ Store(Evaluation(FALSE, work.evidence,
                  [c \in Competencies |-> [raw[c] EXCEPT !.refs = @ \cap Allowed(c)]]))

GivesUpUnflagged == FALSE  \* Mutant: the evaluation is not flagged when both attempts failed

GivesUp == TRUE

\* Any other answer.  After the second there are no scores and a flag.
ScoringFails ==
  /\ work.at = "scoring"
  /\ IF work.attempt = 1
     THEN work' = [work EXCEPT !.attempt = 2] /\ UNCHANGED <<gated, log, eval, brief, gate, decided, claims>>
     ELSE Store(Evaluation(GivesUp, work.evidence, Nothing))

---------------------------------------------------------------------------
(* eval/brief.py *)

Scored(r) == IF eval[r] = None THEN {} ELSE DOMAIN eval[r].scores
Mark(r, c) == eval[r].scores[c].mark

WeightedMean(r, w) ==
  <<MapThenSumSet(LAMBDA c : Mark(r, c) * w[c], Scored(r)),
    LET total == MapThenSumSet(LAMBDA c : w[c], Scored(r)) IN IF total = 0 THEN 1 ELSE total>>

AtLeast(mean, tenths) == 10 * mean[1] >= tenths * mean[2]

\* top_evidence_quote: the first item of evidence that the score refers to.
Quote(r, c) == eval[r].evidence[c] \cap eval[r].scores[c].refs

\* The first three of each; a quote is an event, or none.
Statements(r, S) == {[competency |-> c, quotes |-> Quote(r, c)] : c \in S}

MakeBrief ==
  /\ work.at = "brief"
  /\ LET r == work.round IN
       brief' = [brief EXCEPT ![r] =
         [hire |-> AtLeast(WeightedMean(r, PlanWeight), Hire),
          strengths |-> Statements(r, {c \in Scored(r) : Mark(r, c) >= 3}),
          risks |-> Statements(r, {c \in Scored(r) : Mark(r, c) <= 3})]]
  /\ work' = NoWork
  /\ UNCHANGED <<gated, log, eval, gate, decided, claims>>

---------------------------------------------------------------------------
(* The gate and the queue weigh by the role, 1 for what it does not list *)

OfRole == [c \in Competencies |-> IF c \in DOMAIN RoleWeight THEN RoleWeight[c] ELSE 1]

Passes(r) == Scored(r) # {} /\ AtLeast(WeightedMean(r, OfRole), Hire)

AutoGate(r) ==
  /\ r \in gated /\ gate[r] = "open" /\ Opened(r)
  /\ eval[r] # None
  /\ gate' = [gate EXCEPT ![r] = IF Passes(r) THEN "passed" ELSE "ended"]
  /\ UNCHANGED <<gated, log, work, eval, brief, decided, claims>>

Borderline(r) ==
  /\ Scored(r) # {}
  /\ AtLeast(WeightedMean(r, OfRole), Hire - Band)
  /\ LET m == WeightedMean(r, OfRole) IN 10 * m[1] <= (Hire + Band) * m[2]

InQueue(r) == eval[r] # None /\ r \notin decided /\ (eval[r].degraded \/ Borderline(r))

Decide(r) ==
  /\ decided' = decided \cup {r}
  /\ UNCHANGED <<gated, log, work, eval, brief, gate, claims>>

---------------------------------------------------------------------------
(* eval/aggregate.py *)

Observed(c) == {r \in Rounds : c \in Scored(r)}

WeightCountsRounds(r) == 1  \* Mutant: the divisor counts rounds

WeightAdded(r) == RoundWeight[r]

Rollup(c) ==
  <<MapThenSumSet(LAMBDA r : Mark(r, c) * RoundWeight[r], Observed(c)),
    MapThenSumSet(WeightAdded, Observed(c))>>

RoundMean(r) == <<MapThenSumSet(LAMBDA c : Mark(r, c), Scored(r)), Cardinality(Scored(r))>>

\* By how much mean b lies above mean a, if it is by more than 0.4.
ClearlyAbove(b, a) == 10 * (b[1] * a[2] - a[1] * b[2]) > 4 * a[2] * b[2]

Trajectory ==
  LET valid == {r \in Rounds : Scored(r) # {}} IN
    IF Cardinality(valid) < 2 THEN "single_round"
    ELSE LET first == RoundMean(Min(valid)) last == RoundMean(Max(valid)) IN
      IF ClearlyAbove(last, first) THEN "improving"
      ELSE IF ClearlyAbove(first, last) THEN "declining" ELSE "steady"

\* consistency_pass: a claim is what it cites, session by session.
Stands(claim) ==
  /\ Cardinality(DOMAIN claim) >= 2
  /\ \A r \in DOMAIN claim : eval[r] # None /\ claim[r] \cap log[r] # {}

Aggregate ==
  /\ Cardinality({r \in Rounds : eval[r] # None}) >= 2
  /\ \E cited \in SUBSET Rounds :
       \E claim \in [cited -> {{e} : e \in AllEvents}] :
         claims' = IF Stands(claim) THEN {claim} ELSE {}
  /\ UNCHANGED <<gated, log, work, eval, brief, gate, decided>>

ScoringNext ==
  \/ \E r \in Rounds : Take(r) \/ AutoGate(r) \/ Decide(r)
  \/ EvidencePass \/ EvidenceFails \/ ScoringPass \/ ScoringFails \/ MakeBrief
  \/ Aggregate

ScoringSpec == ScoringInit /\ [][ScoringNext]_scoringVars

---------------------------------------------------------------------------
\* "every recruiter claim traces to an audit citation" (brief.py:6) and every
\* claim of the aggregate cites "EVERY session it references" (aggregate.py:90):
\* whatever the model answered in either pass, a statement of a brief quotes an
\* event of its own session, and a shipped claim real events of two.
ClaimsCited ==
  /\ \A r \in Rounds : brief[r] # None =>
       \A s \in brief[r].strengths \cup brief[r].risks :
         s.quotes # {} /\ s.quotes \subseteq log[r]
  /\ \A claim \in claims : \E r, q \in DOMAIN claim :
       r # q /\ claim[r] \cap Events[r] # {} /\ claim[q] \cap Events[q] # {}

\* "never fabricated, never silently shipped" (pipeline.py:7): an evaluation
\* that could not be scored does not pass the gate, adds nothing to a roll-up
\* and waits in the queue for a decision; any other has a score for everything.
UnscoredIsSeen ==
  \A r \in Rounds : eval[r] # None =>
    \/ Scored(r) = Competencies
    \/ /\ gate[r] # "passed"
       /\ \A c \in Competencies : r \notin Observed(c)
       /\ InQueue(r) \/ r \in decided

\* Some score of round q is above one of round r.
OnceAbove(q, r) == \E c \in Scored(r), d \in Scored(q) : Mark(q, d) > Mark(r, c)

\* A roll-up is a mean: between the least and the greatest of the scores it
\* merges, whatever the weights of the rounds (rollup_competencies), where a round
\* of weight zero merges nothing; and a candidate is only said to improve or to
\* decline if some score of the last round is above, or below, one of the first.
RollupIsMean ==
  /\ \A c \in Competencies : Rollup(c)[2] > 0 =>
       LET marks == {Mark(r, c) : r \in Observed(c)} IN
         Min(marks) * Rollup(c)[2] <= Rollup(c)[1] /\ Rollup(c)[1] <= Max(marks) * Rollup(c)[2]
  /\ Trajectory = "improving" => \E r, q \in Rounds : r < q /\ OnceAbove(q, r)
  /\ Trajectory = "declining" => \E r, q \in Rounds : r < q /\ OnceAbove(r, q)
=============================================================================
