------------------------------ MODULE Figures ------------------------------
(* The figures the code computes and no model may: process signals of a log  *)
(* (eval/signals.py), agreement of the model's scores with people's          *)
(* (eval/calibration.py, routes/metrics.py) and the spend alarm              *)
(* (routes/compliance.py).  Pure functions; ranks are doubled and thresholds *)
(* in tenths, so that all is in integers.                                    *)
EXTENDS Integers, Sequences, FiniteSets, FiniteSetsExt, TLC

CONSTANT Absent  \* None: a figure that is not defined for its input

SumOver(S, f(_)) == MapThenSumSet(f, S)

---------------------------------------------------------------------------
(* Signals.  An event is [type, ts] and what its payload adds; the log is in *)
(* the order of seq, the time is whatever the writer said it was.            *)

OfType(events, type) == SelectSeq(events, LAMBDA e : e.type = type)

\* The first transition into a round with an editor.
CodeRoundEntry(events) ==
  LET entries == SelectSeq(events, LAMBDA e : e.type = "state_transition" /\ e.code) IN
    IF entries = <<>> THEN Absent ELSE Head(entries).ts

TimeToFirstLine(events) ==
  IF CodeRoundEntry(events) = Absent THEN Absent
  ELSE LET edits == SelectSeq(events, LAMBDA e :
                      e.type = "editor_delta_batch" /\ e.ts >= CodeRoundEntry(events))
       IN IF edits = <<>> THEN Absent ELSE Head(edits).ts - CodeRoundEntry(events)

RunGaps(events) ==
  LET runs == OfType(events, "run_clicked") IN
    [i \in 1..(Len(runs) - 1) |-> runs[i + 1].ts - runs[i].ts]

---------------------------------------------------------------------------
(* Ranks and their correlation *)

Sorted(v) == SortSeq([i \in DOMAIN v |-> i], LAMBDA i, j : v[i] < v[j])

\* _rank: the positions of a run of equal values in sorted order share the mean
\* of the first and the last.
Rank2(v) ==
  LET order == Sorted(v)
      Ties(k) == {p \in DOMAIN v : v[order[p]] = v[k]}
  IN [k \in DOMAIN v |-> Min(Ties(k)) + Max(Ties(k))]

\* n times the covariance of the doubled ranks.
Cov(a, b) ==
  Len(a) * SumOver(DOMAIN a, LAMBDA i : Rank2(a)[i] * Rank2(b)[i])
    - SumOver(DOMAIN a, LAMBDA i : Rank2(a)[i]) * SumOver(DOMAIN b, LAMBDA i : Rank2(b)[i])

\* The square of the coefficient is a fraction; its sign is that of the covariance.
Spearman(a, b) ==
  IF Len(a) # Len(b) \/ Len(a) < 2 \/ Cov(a, a) = 0 \/ Cov(b, b) = 0 THEN Absent
  ELSE [cov |-> Cov(a, b), vars |-> Cov(a, a) * Cov(b, b)]

---------------------------------------------------------------------------
(* calibration_report over pairs of scores [ai, human], each a function on   *)
(* the competencies that have an integer score                               *)

\* _build_calibration: sessions for which both sides scored something.
Paired(sessions) == {s \in sessions : DOMAIN s.ai # {} /\ DOMAIN s.human # {}}

Both(p) == DOMAIN p.ai \cap DOMAIN p.human
Delta(p, c) == IF p.ai[c] > p.human[c] THEN p.ai[c] - p.human[c] ELSE p.human[c] - p.ai[c]
ReviewQueue(pairs) == {p \in pairs : \E c \in Both(p) : Delta(p, c) >= 2}

\* A competency that weights does not list counts for nothing, 1 if there are none.
Reaches(scores, weights, tenths) ==
  LET w(c) == IF weights = Absent THEN 1 ELSE IF c \in DOMAIN weights THEN weights[c] ELSE 0
      total == SumOver(DOMAIN scores, w)
  IN 10 * SumOver(DOMAIN scores, LAMBDA c : scores[c] * w(c))
       >= tenths * (IF total = 0 THEN 1 ELSE total)

Agreeing(pairs, weights, tenths) ==
  {p \in pairs : Reaches(p.ai, weights, tenths) = Reaches(p.human, weights, tenths)}

---------------------------------------------------------------------------
(* The spend alarm *)

\* statistics.median, doubled.
Median2(totals) ==
  LET s == SortSeq(totals, LAMBDA x, y : x < y) n == Len(totals) IN
    s[(n + 1) \div 2] + s[(n \div 2) + 1]

Alarms(totals, multiplier) ==
  {i \in DOMAIN totals : Median2(totals) # 0 /\ 2 * totals[i] > multiplier * Median2(totals)}
=============================================================================
