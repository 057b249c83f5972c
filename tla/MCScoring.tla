----------------------------- MODULE MCScoring -----------------------------
(* Two rounds of two events each; the role lists only one of the two         *)
(* competencies, the second round counts double.                             *)
(*                                                                           *)
(* The figures are checked against their definitions over small inputs, as   *)
(* assumptions that TLC evaluates before the run.                            *)
EXTENDS Scoring, Sequences, TLC

CONSTANT Absent

F == INSTANCE Figures

CONSTANTS coding, speech, e1, e2, f1

MCEvents == <<{e1, e2}, {f1}>>
MCPlanWeight == [c \in Competencies |-> IF c = coding THEN 2 ELSE 1]
MCRoleWeight == [c \in {coding} |-> 3]
MCRoundWeight == <<1, 2>>

---------------------------------------------------------------------------
SeqsTo(S, n) == UNION {[1..k -> S] : k \in 1..n}

\* "Average ranks (ties share the mean rank)" (calibration.py:14): a rank is the
\* number of smaller values and half the number of equal ones.
ASSUME RanksAreMidRanks ==
  \A v \in SeqsTo(1..4, 4) : \A k \in DOMAIN v :
    F!Rank2(v)[k] = 2 * Cardinality({i \in DOMAIN v : v[i] < v[k]})
                    + Cardinality({i \in DOMAIN v : v[i] = v[k]}) + 1

\* The coefficient is symmetric, between -1 and 1, and 1 for the same order only.
ASSUME SpearmanIsCorrelation ==
  \A n \in 2..4 : \A a, b \in [1..n -> 1..3] :
    LET s == F!Spearman(a, b) IN
      /\ s = F!Spearman(b, a)
      /\ s # Absent =>
           /\ s.cov * s.cov <= s.vars
           /\ (s.cov > 0 /\ s.cov * s.cov = s.vars) <=> F!Rank2(a) = F!Rank2(b)

\* Times may run backwards between writers, and still nobody starts to type
\* before the round begins; the gaps between runs add up to the whole.
LogEvent == [type : {"state_transition"}, ts : 0..2, code : BOOLEAN]
              \cup [type : {"editor_delta_batch", "run_clicked"}, ts : 0..2]

ASSUME SignalsInOrder ==
  \A events \in SeqsTo(LogEvent, 4) :
    /\ F!TimeToFirstLine(events) # Absent => F!TimeToFirstLine(events) >= 0
    /\ LET runs == F!OfType(events, "run_clicked") gaps == F!RunGaps(events) IN
         runs # <<>> => runs[Len(runs)].ts - runs[1].ts = F!SumOver(DOMAIN gaps, LAMBDA i : gaps[i])

\* Equal scores agree on everything, whatever the weights; and no higher score
\* ever takes a pass away.
Scores == UNION {[C -> {1, 3, 4, 5}] : C \in SUBSET Competencies}

ASSUME AgreementIsFair ==
  \A ai, human \in Scores : \A weights \in {Absent, MCRoleWeight} :
    LET p == [ai |-> ai, human |-> human] IN
      /\ ai = human => F!Agreeing({p}, weights, Hire) = {p} /\ F!ReviewQueue({p}) = {}
      /\ DOMAIN ai = DOMAIN human /\ (\A c \in DOMAIN ai : ai[c] >= human[c])
           /\ F!Reaches(human, weights, Hire) => F!Reaches(ai, weights, Hire)
      /\ F!Paired({p}) = {} => F!ReviewQueue({p}) = {}

\* More than the median is spent by half of the sessions at most, and an alarm
\* takes three sessions: two never differ from their mean by so much.
ASSUME AlarmsAreFew ==
  \A totals \in SeqsTo(0..6, 4) : \A multiplier \in 2..3 :
    /\ 2 * Cardinality(F!Alarms(totals, multiplier)) <= Len(totals)
    /\ Len(totals) < 3 => F!Alarms(totals, multiplier) = {}
=============================================================================
