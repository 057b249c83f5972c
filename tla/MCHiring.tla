------------------------------ MODULE MCHiring ------------------------------
EXTENDS Hiring

PlanOrPipeline == {<<>>, <<"auto", "review">>}
=============================================================================
