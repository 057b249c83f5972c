----------------------------- MODULE MCInterview -----------------------------
EXTENDS Interview

\* Two code rounds; the first is long enough for a twist and two hints.
TwoRounds == <<[id |-> "r1", minutes |-> 2, code |-> TRUE, twist |-> TRUE, hints |-> 2],
               [id |-> "r2", minutes |-> 1, code |-> TRUE, twist |-> TRUE, hints |-> 2]>>
=============================================================================
