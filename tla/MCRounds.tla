------------------------------ MODULE MCRounds ------------------------------
(* A case and two design rounds whose blocks share an id, as ids do that     *)
(* authors number from one in each pack.                                     *)
EXTENDS Rounds

CONSTANTS n1, n2, ex

Block(id, answer) == [id |-> id, answer |-> answer]
Round(type, blocks, exhibits) == [type |-> type, pack |-> TRUE, blocks |-> blocks, exhibits |-> exhibits]

MCPlan == <<Round("case", <<Block("b1", n1)>>, {ex}),
            Round("system_design", <<Block("b1", n2)>>, {}),
            Round("case", <<Block("b1", n1)>>, {ex})>>

MCTags == <<Round("behavioral", <<>>, {}), Round("case", <<Block("b1", n1)>>, {ex})>>
=============================================================================
