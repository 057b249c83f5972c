---------------------------- MODULE Session_proofs ----------------------------
(***************************************************************************)
(* Proofs about the parts of one session that stand beside its engine:     *)
(* what its round plugins adjudicate (Rounds), what the evaluation makes   *)
(* of its log afterwards (Scoring), what the log makes of its code         *)
(* (Editor), and who speaks in its room (Dispatch).  Each part is a        *)
(* specification of its own, with variables of its own, and each theorem   *)
(* is about one of them, for every value of its constants.                 *)
(***************************************************************************)
EXTENDS Dispatch, Rounds, Scoring, Editor,
        SequenceTheorems, FiniteSetTheorems, WellFoundedInduction, TLAPS

-----------------------------------------------------------------------------
(* Natural numbers *)

Below == {p \in Nat \X Nat : p[1] < p[2]}

LEMMA BelowWellFounded == IsWellFoundedOn(Below, Nat)
BY NatLessThanWellFounded, Zenon DEF OpToRel, Below

\* Every set of natural numbers has a least element.
LEMMA LeastNat ==
  ASSUME NEW T, T \subseteq Nat, T # {}
  PROVE  \E x \in T : \A y \in T : x <= y
<1>1. \E x \in T : \A y \in T : ~ (<<y, x>> \in Below)
  BY BelowWellFounded, WFMin
<1>2. PICK x \in T : \A y \in T : ~ (<<y, x>> \in Below)
  BY <1>1
<1>3. \A a, b \in Nat : a < b => <<a, b>> \in Below
  BY DEF Below
<1>4. \A y \in T : ~(y < x)
  BY <1>2, <1>3
<1> QED BY <1>4

\* Induction on a set that contains 0 and with each number the next one.
LEMMA Climb ==
  ASSUME NEW n \in Nat, NEW G, 0 \in G, \A k \in 0..(n - 1) : k \in G => k + 1 \in G
  PROVE  \A k \in 0..n : k \in G
<1>1. SUFFICES ASSUME NEW b \in 0..n, b \notin G PROVE FALSE
  OBVIOUS
<1> DEFINE T == {k \in 0..n : k \notin G}
<1>2. T \subseteq Nat /\ T # {}
  BY <1>1
<1>3. PICK x \in T : \A y \in T : x <= y
  BY <1>2, LeastNat
<1>4. x # 0 /\ x \in 1..n
  BY <1>3
<1>5. x - 1 \in 0..(n - 1) /\ x - 1 \notin T
  BY <1>3, <1>4
<1>6. x - 1 \in G
  BY <1>5
<1>7. x - 1 + 1 \in G
  BY <1>5, <1>6
<1> QED BY <1>3, <1>4, <1>7

LEMMA GreatestNat ==
  ASSUME NEW n \in Nat, NEW T, T \subseteq 0..n, T # {}
  PROVE  \E x \in T : \A y \in T : y <= x
<1> DEFINE U == {k \in 0..n : n - k \in T}
<1>1. U \subseteq Nat
  OBVIOUS
<1>2. \A x \in T : n - x \in U
  <2> SUFFICES ASSUME NEW x \in T PROVE n - x \in U
    OBVIOUS
  <2>1. x \in 0..n
    OBVIOUS
  <2>2. n - x \in 0..n /\ n - (n - x) = x
    BY <2>1
  <2> QED BY <2>2
<1>3. U # {}
  BY <1>2
<1>4. PICK k \in U : \A y \in U : k <= y
  BY <1>1, <1>3, LeastNat
<1>5. n - k \in T
  BY <1>4
<1>6. \A y \in T : y <= n - k
  <2> SUFFICES ASSUME NEW y \in T PROVE y <= n - k
    OBVIOUS
  <2>1. y \in 0..n /\ k <= n - y /\ k \in 0..n
    BY <1>2, <1>4
  <2> QED BY <2>1
<1> QED BY <1>5, <1>6

-----------------------------------------------------------------------------
(***************************************************************************)
(* Rounds.  The inductive invariant of MathEarned, Earned, counts by       *)
(* block: up to any round an answer was found correct at most as often as  *)
(* it was stated, and once less while a correct one is waiting.            *)
(***************************************************************************)

Ids == {b.id : b \in UNION {{Plan[i].blocks[k] : k \in DOMAIN Plan[i].blocks} : i \in DOMAIN Plan}}

RoundsType ==
  /\ round \in 1..(Len(Plan) + 1)
  /\ elapsed \in Percents
  /\ tagged \cup seen \subseteq (DOMAIN Plan) \X (ValidIntents \cup PromptedIntents)
  /\ pending \in [block : {"none"} \cup Ids, correct : BOOLEAN]

LEMMA TypeIs == RoundsTypeOK <=> RoundsType
BY Zenon DEF RoundsTypeOK, RoundsType, Ids

LEMMA PlanFacts ==
  ASSUME RoundsAssumption
  PROVE  /\ Len(Plan) \in Nat \ {0} /\ DOMAIN Plan = 1..Len(Plan)
         /\ \A i \in DOMAIN Plan :
              Plan[i].type \in Types /\ DOMAIN Plan[i].blocks \subseteq Nat \ {0}
<1>1. Plan \in Seq({Plan[i] : i \in DOMAIN Plan}) /\ Plan # <<>>
  BY DEF RoundsAssumption
<1>2. \A i \in DOMAIN Plan :
        Plan[i].blocks \in Seq({Plan[i].blocks[k] : k \in DOMAIN Plan[i].blocks})
  BY DEF RoundsAssumption
<1>3. \A i \in DOMAIN Plan : Plan[i].type \in Types
  BY DEF RoundsAssumption
<1>4. Len(Plan) \in Nat \ {0} /\ DOMAIN Plan = 1..Len(Plan)
  BY <1>1
<1>5. ASSUME NEW i \in DOMAIN Plan PROVE DOMAIN Plan[i].blocks \subseteq Nat \ {0}
  <2>1. Plan[i].blocks \in Seq({Plan[i].blocks[k] : k \in DOMAIN Plan[i].blocks})
    BY <1>2
  <2>2. DOMAIN Plan[i].blocks = 1..Len(Plan[i].blocks) /\ Len(Plan[i].blocks) \in Nat
    BY <2>1
  <2> QED BY <2>2
<1> QED BY <1>3, <1>4, <1>5

LEMMA OnFacts ==
  ASSUME RoundsAssumption, On
  PROVE  /\ round \in 1..Len(Plan) /\ round \in Nat
         /\ Here.type \in Types
         /\ \A k \in DOMAIN Here.blocks : k \in Nat /\ Here.blocks[k].id \in Ids
<1>1. Len(Plan) \in Nat /\ round \in 1..Len(Plan) /\ round \in DOMAIN Plan
  BY PlanFacts DEF On
<1>2. Here.type \in Types /\ DOMAIN Here.blocks \subseteq Nat \ {0}
  BY <1>1, PlanFacts DEF Here
<1>3. ASSUME NEW k \in DOMAIN Here.blocks PROVE Here.blocks[k].id \in Ids
  <2>1. Here.blocks[k]
          \in UNION {{Plan[i].blocks[j] : j \in DOMAIN Plan[i].blocks} : i \in DOMAIN Plan}
    BY <1>1 DEF Here
  <2> QED BY <2>1 DEF Ids
<1> QED BY <1>1, <1>2, <1>3

LEMMA ActiveFacts ==
  ASSUME RoundsAssumption, On, ActiveBlock # NoBlock
  PROVE  ActiveBlock.id \in Ids /\ <<round, ActiveBlock.id>> \notin correct
<1> DEFINE open == {k \in DOMAIN Here.blocks : <<round, Here.blocks[k].id>> \notin correct}
           k == CHOOSE k \in open : \A j \in open : k <= j
<1>1. open # {} /\ ActiveBlock = Here.blocks[k]
  BY DEF ActiveBlock
<1>2. open \subseteq Nat
  BY OnFacts
<1>3. k \in open
  BY <1>1, <1>2, LeastNat
<1> HIDE DEF k
<1> QED BY <1>1, <1>3, OnFacts

LEMMA ParsedTags ==
  ASSUME NEW intent \in Tags, RoundsAssumption, On
  PROVE  /\ intent \in ValidIntents \cup PromptedIntents
         /\ Parse(intent) \in ValidIntents \cup PromptedIntents
<1>1. Here.type \in Types
  BY OnFacts
<1>2. CompletionIntents(Here.type) \subseteq PromptedIntents
  BY <1>1 DEF PromptedIntents
<1>3. "release_exhibit" \in PromptedIntents /\ "chat" \in ValidIntents
  <2>1. "release_exhibit" \in PromptedIntents
    BY Zenon DEF PromptedIntents
  <2> QED BY <2>1 DEF ValidIntents
<1>4. intent \in ValidIntents \cup PromptedIntents
  BY <1>2, <1>3 DEF Tags
<1> QED BY <1>3, <1>4 DEF Parse

\* The clock goes up, to one of the values that matter.
LEMMA Later ==
  ASSUME elapsed \in Percents, TimePasses
  PROVE  elapsed' \in Percents /\ elapsed' > elapsed
<1> DEFINE P == {p \in Percents : p > elapsed}
           next == CHOOSE p \in Percents : p > elapsed /\ \A q \in Percents : q > elapsed => p <= q
<1>1. P \subseteq Nat /\ 100 \in P
  BY DEF TimePasses, Percents
<1>2. PICK p \in P : \A q \in P : p <= q
  BY <1>1, LeastNat
<1>3. \E x \in Percents : x > elapsed /\ \A q \in Percents : q > elapsed => x <= q
  BY <1>2
<1>4. next \in Percents /\ next > elapsed
  BY <1>3
<1>5. elapsed' = next
  BY DEF TimePasses
<1> HIDE DEF next
<1> QED BY <1>4, <1>5

LEMMA TypeStep ==
  ASSUME RoundsAssumption, RoundsType, [RoundsNext]_roundsVars
  PROVE  RoundsType'
<1>1. /\ Len(Plan) \in Nat \ {0} /\ DOMAIN Plan = 1..Len(Plan)
  BY PlanFacts
<1>2. ASSUME NEW said \in SUBSET Numbers, Utter(said) PROVE RoundsType'
  <2>1. UNCHANGED <<round, elapsed, tagged, seen>>
    BY <1>2 DEF Utter
  <2>2. pending' \in [block : {"none"} \cup Ids, correct : BOOLEAN]
    <3>1. CASE ActiveBlock = NoBlock \/ said = {}
      BY <1>2, <3>1 DEF Utter, RoundsType
    <3>2. CASE ~(ActiveBlock = NoBlock \/ said = {})
      <4>1. pending' = [block |-> ActiveBlock.id, correct |-> ActiveBlock.answer \in said]
        BY <1>2, <3>2 DEF Utter
      <4>2. ActiveBlock.id \in Ids
        BY <1>2, <3>2, ActiveFacts DEF Utter
      <4> QED BY <4>1, <4>2
    <3> QED BY <3>1, <3>2
  <2> QED BY <2>1, <2>2 DEF RoundsType
<1>3. ASSUME NEW intent \in Tags, NEW ex \in Exhibits, AgentTurn(intent, ex) PROVE RoundsType'
  <2>1. UNCHANGED <<round, elapsed>> /\ pending' = NoVerdict /\ On
    BY <1>3 DEF AgentTurn, VerdictUsed
  <2>2. round \in DOMAIN Plan /\ intent \in ValidIntents \cup PromptedIntents
        /\ Parse(intent) \in ValidIntents \cup PromptedIntents
    BY <2>1, ParsedTags DEF On
  <2>3. seen' \subseteq seen \cup {<<round, Parse(intent)>>}
    BY <1>3 DEF AgentTurn
  <2>4. tagged' \subseteq tagged \cup {<<round, intent>>}
    BY <1>3 DEF AgentTurn
  <2>5. tagged' \cup seen' \subseteq (DOMAIN Plan) \X (ValidIntents \cup PromptedIntents)
    BY <2>2, <2>3, <2>4 DEF RoundsType
  <2> QED BY <2>1, <2>5 DEF RoundsType, NoVerdict
<1>4. CASE TimePasses
  BY <1>4, Later DEF TimePasses, RoundsType
<1>5. CASE NextRound
  BY <1>1, <1>5 DEF NextRound, RoundsType, On, Percents
<1>6. CASE Restart
  BY <1>6 DEF Restart, RoundsType, NoVerdict
<1>7. CASE UNCHANGED roundsVars
  BY <1>7 DEF roundsVars, RoundsType
<1> QED BY <1>2, <1>3, <1>4, <1>5, <1>6, <1>7 DEF RoundsNext

LEMMA TypeInit == ASSUME RoundsAssumption, RoundsInit PROVE RoundsType
BY PlanFacts DEF RoundsInit, RoundsType, Percents, NoVerdict

\* Every value the plugins' variables take has its type: the round is one of the plan or
\* the end, tags are intents, and a verdict waits for a block of the plan.
THEOREM RoundsTypeCorrect == RoundsSpec => []RoundsTypeOK
<1>1. RoundsInit => RoundsType
  BY RoundsAssumption, TypeInit
<1>2. RoundsType /\ [RoundsNext]_roundsVars => RoundsType'
  BY RoundsAssumption, TypeStep
<1>3. RoundsType => RoundsTypeOK
  BY TypeIs
<1> QED BY <1>1, <1>2, <1>3, PTL DEF RoundsSpec

-----------------------------------------------------------------------------
(* Numbers *)

Of(S, r, b) == {x \in S : x[2] = b /\ x[1] <= r}
Count(S, r, b) == Cardinality(Of(S, r, b))

Earned ==
  /\ round \in Nat \ {0}
  /\ correct \subseteq (1..round) \X Ids /\ IsFiniteSet(correct)
  /\ stated \subseteq (1..round) \X Ids /\ IsFiniteSet(stated)
  /\ \A b \in Ids, r \in Nat : Count(correct, r, b) <= Count(stated, r, b)
  /\ pending.correct =>
       /\ pending.block \in Ids
       /\ Count(correct, round, pending.block) < Count(stated, round, pending.block)

LEMMA Counts ==
  ASSUME NEW S, IsFiniteSet(S), NEW r, NEW b
  PROVE  IsFiniteSet(Of(S, r, b)) /\ Count(S, r, b) \in Nat
<1>1. Of(S, r, b) \in SUBSET S
  BY DEF Of
<1> QED BY <1>1, FS_Subset, FS_CardinalityType DEF Count

LEMMA CountsGrow ==
  ASSUME NEW S, NEW T, IsFiniteSet(T), S \subseteq T, NEW r, NEW b
  PROVE  Count(S, r, b) <= Count(T, r, b)
<1>1. Of(S, r, b) \in SUBSET Of(T, r, b)
  BY DEF Of
<1> QED BY <1>1, Counts, FS_Subset DEF Count

LEMMA CountsAdd ==
  ASSUME NEW S, IsFiniteSet(S), NEW q, NEW c, NEW r, NEW b
  PROVE  Count(S \cup {<<q, c>>}, r, b) =
           IF c = b /\ q <= r /\ <<q, c>> \notin S THEN Count(S, r, b) + 1 ELSE Count(S, r, b)
<1> DEFINE x == <<q, c>>
<1>1. x[1] = q /\ x[2] = c
  OBVIOUS
<1> HIDE DEF x
<1>2. CASE c = b /\ q <= r
  <2>1. Of(S \cup {x}, r, b) = Of(S, r, b) \cup {x}
    BY <1>1, <1>2 DEF Of
  <2>2. x \in Of(S, r, b) <=> x \in S
    BY <1>1, <1>2 DEF Of
  <2>3. Cardinality(Of(S, r, b) \cup {x}) =
           IF x \in Of(S, r, b) THEN Cardinality(Of(S, r, b)) ELSE Cardinality(Of(S, r, b)) + 1
    BY Counts, FS_AddElement
  <2> QED BY <1>2, <2>1, <2>2, <2>3 DEF Count, x
<1>3. CASE ~(c = b /\ q <= r)
  <2>1. Of(S \cup {x}, r, b) = Of(S, r, b)
    BY <1>1, <1>3 DEF Of
  <2> QED BY <1>3, <2>1 DEF Count, x
<1> QED BY <1>2, <1>3

\* What is still to come adds nothing, and what the last round adds is at most one.
LEMMA CountsLate ==
  ASSUME NEW n \in Nat, NEW S, S \subseteq (1..n) \X Ids, NEW r \in Nat, r >= n, NEW b
  PROVE  Count(S, r, b) = Count(S, n, b)
<1>1. \A x \in S : x[1] <= r /\ x[1] <= n
  OBVIOUS
<1>2. Of(S, r, b) = Of(S, n, b)
  BY <1>1 DEF Of
<1> QED BY <1>2 DEF Count

LEMMA CountsLast ==
  ASSUME NEW n \in Nat \ {0}, NEW S, S \subseteq (1..n) \X Ids, NEW b, <<n, b>> \notin S
  PROVE  Count(S, n, b) = Count(S, n - 1, b)
<1>1. ASSUME NEW x \in S, x[2] = b, x[1] <= n PROVE x[1] <= n - 1
  <2>1. x \in (1..n) \X Ids /\ x # <<n, b>>
    OBVIOUS
  <2>2. x = <<x[1], x[2]>> /\ x[1] \in 1..n
    BY <2>1
  <2>3. x[1] # n
    BY <1>1, <2>1, <2>2
  <2> QED BY <2>2, <2>3
<1>2. ASSUME NEW x \in S, x[1] <= n - 1 PROVE x[1] <= n
  <2>1. x[1] \in 1..n
    OBVIOUS
  <2> QED BY <1>2, <2>1
<1>3. Of(S, n, b) = Of(S, n - 1, b)
  BY <1>1, <1>2 DEF Of
<1> QED BY <1>3 DEF Count

LEMMA EarnedInit == ASSUME RoundsInit PROVE Earned
<1>1. correct = {} /\ stated = {} /\ round = 1 /\ ~pending.correct
  BY DEF RoundsInit, NoVerdict
<1>2. \A r, b : Of({}, r, b) = {}
  BY DEF Of
<1> QED BY <1>1, <1>2, FS_EmptySet DEF Earned, Count

LEMMA EarnedSame ==
  ASSUME Earned, UNCHANGED <<round, correct, pending, stated>>
  PROVE  Earned'
BY DEF Earned

LEMMA EarnedUtter ==
  ASSUME RoundsAssumption, Earned, NEW said, Utter(said)
  PROVE  Earned'
<1>1. UNCHANGED <<round, correct>> /\ On
  BY DEF Utter
<1>2. CASE UNCHANGED <<pending, stated>>
  <2>1. UNCHANGED <<round, correct, pending, stated>>
    BY <1>1, <1>2
  <2> QED BY <2>1, EarnedSame
<1>3. CASE ActiveBlock # NoBlock /\ ~(ActiveBlock.answer \in said) /\ said # {}
  <2> DEFINE right == ActiveBlock.answer \in said
  <2>1. pending' = [block |-> ActiveBlock.id, correct |-> right]
    BY <1>3, Zenon DEF Utter
  <2>2. stated' = stated
    BY <1>3 DEF Utter
  <2>3. right = FALSE
    BY <1>3
  <2> HIDE DEF right
  <2>4. ~pending'.correct
    BY <2>1, <2>3
  <2> QED BY <1>1, <2>2, <2>4 DEF Earned
<1>4. CASE ActiveBlock # NoBlock /\ ActiveBlock.answer \in said
  <2> DEFINE b == ActiveBlock.id
  <2>1. b \in Ids /\ <<round, b>> \notin correct
    BY <1>1, <1>4, ActiveFacts
  <2>2. pending' = [block |-> b, correct |-> TRUE] /\ stated' = stated \cup {<<round, b>>}
    BY <1>4 DEF Utter
  <2> HIDE DEF b
  <2>3. /\ round \in Nat \ {0} /\ round - 1 \in Nat
        /\ IsFiniteSet(stated) /\ IsFiniteSet(correct) /\ IsFiniteSet(stated')
        /\ correct \subseteq (1..round) \X Ids
    <3>1. round \in Nat \ {0} /\ IsFiniteSet(stated) /\ IsFiniteSet(correct)
          /\ correct \subseteq (1..round) \X Ids
      BY DEF Earned
    <3>2. IsFiniteSet(stated')
      BY <2>2, <3>1, FS_AddElement, Zenon
    <3> QED BY <3>1, <3>2
  <2>4. stated' \subseteq (1..round) \X Ids
    BY <2>1, <2>2, <2>3 DEF Earned
  <2>5. ASSUME NEW c \in Ids, NEW r \in Nat PROVE Count(correct, r, c) <= Count(stated', r, c)
    <3>1. Count(correct, r, c) <= Count(stated, r, c)
      BY DEF Earned
    <3>2. Count(stated, r, c) <= Count(stated', r, c)
      BY <2>2, <2>3, CountsGrow
    <3>3. /\ Count(correct, r, c) \in Nat /\ Count(stated, r, c) \in Nat
          /\ Count(stated', r, c) \in Nat
      BY <2>3, Counts
    <3> QED BY <3>1, <3>2, <3>3
  <2>6. Count(correct, round, b) < Count(stated', round, b)
    <3> DEFINE old == stated \ {<<round, b>>}
    <3>1. old \subseteq (1..round) \X Ids /\ <<round, b>> \notin old /\ IsFiniteSet(old)
      BY <2>3, FS_RemoveElement DEF Earned
    <3>2. stated' = old \cup {<<round, b>>}
      BY <2>2
    <3> HIDE DEF old
    <3>3. Count(stated', round, b) = Count(old, round, b) + 1
      BY <2>3, <3>1, <3>2, CountsAdd
    <3>4. Count(old, round, b) = Count(old, round - 1, b)
      BY <2>3, <3>1, CountsLast
    <3>5. Count(correct, round, b) = Count(correct, round - 1, b)
      BY <2>1, <2>3, CountsLast
    <3>6. Count(stated', round - 1, b) = Count(old, round - 1, b)
      <4>1. ~(round <= round - 1)
        BY <2>3
      <4> QED BY <3>1, <3>2, <4>1, CountsAdd
    <3>7. Count(correct, round - 1, b) <= Count(stated', round - 1, b)
      BY <2>1, <2>3, <2>5
    <3>8. Count(old, round - 1, b) \in Nat /\ Count(correct, round - 1, b) \in Nat
      BY <2>3, <3>1, Counts
    <3> QED BY <3>3, <3>4, <3>5, <3>6, <3>7, <3>8
  <2> QED BY <1>1, <2>1, <2>2, <2>3, <2>4, <2>5, <2>6 DEF Earned
<1> QED BY <1>2, <1>3, <1>4 DEF Utter

LEMMA EarnedTurn ==
  ASSUME Earned, NEW intent, NEW ex, AgentTurn(intent, ex)
  PROVE  Earned'
<1>1. UNCHANGED <<round, stated>> /\ ~pending'.correct
  BY DEF AgentTurn, VerdictUsed, NoVerdict
<1>2. CASE ~pending.correct
  BY <1>1, <1>2 DEF Earned, AgentTurn
<1>3. CASE pending.correct
  <2> DEFINE b == pending.block
             m == <<round, b>>
  <2>1. correct' = correct \cup {m} /\ b \in Ids
    BY <1>3 DEF AgentTurn, Earned
  <2>2. /\ round \in Nat \ {0} /\ IsFiniteSet(correct) /\ IsFiniteSet(stated)
        /\ correct \subseteq (1..round) \X Ids /\ stated \subseteq (1..round) \X Ids
        /\ Count(correct, round, b) < Count(stated, round, b)
    BY <1>3 DEF Earned
  <2> HIDE DEF b
  <2>3. correct' \subseteq (1..round) \X Ids /\ IsFiniteSet(correct')
    <3>1. IsFiniteSet(correct')
      BY <2>1, <2>2, FS_AddElement, Zenon
    <3>2. m \in (1..round) \X Ids
      BY <2>1, <2>2
    <3> QED BY <2>1, <2>2, <3>1, <3>2
  <2>4. ASSUME NEW c \in Ids, NEW r \in Nat PROVE Count(correct', r, c) <= Count(stated, r, c)
    <3>1. Count(correct, r, c) <= Count(stated, r, c)
      BY DEF Earned
    <3>2. Count(correct, r, c) \in Nat /\ Count(stated, r, c) \in Nat
      BY <2>2, Counts
    <3>3. Count(correct', r, c) =
            IF b = c /\ round <= r /\ m \notin correct THEN Count(correct, r, c) + 1
            ELSE Count(correct, r, c)
      BY <2>1, <2>2, CountsAdd
    <3>4. CASE ~(b = c /\ round <= r)
      BY <3>1, <3>3, <3>4
    <3>5. CASE b = c /\ round <= r
      <4>1. /\ Count(correct, r, c) = Count(correct, round, c)
            /\ Count(stated, r, c) = Count(stated, round, c)
        BY <2>2, <3>5, CountsLate
      <4>2. Count(correct, r, c) < Count(stated, r, c)
        BY <2>2, <3>5, <4>1
      <4> QED BY <3>2, <3>3, <4>2
    <3> QED BY <3>4, <3>5
  <2> QED BY <1>1, <2>2, <2>3, <2>4 DEF Earned
<1> QED BY <1>2, <1>3

LEMMA EarnedNextRound ==
  ASSUME Earned, NextRound
  PROVE  Earned'
<1>1. round' = round + 1 /\ UNCHANGED <<correct, stated, pending>>
  BY DEF NextRound
<1>2. /\ round \in Nat \ {0} /\ round + 1 \in Nat /\ round + 1 >= round
      /\ correct \subseteq (1..round) \X Ids /\ stated \subseteq (1..round) \X Ids
  BY DEF Earned
<1>3. correct \subseteq (1..(round + 1)) \X Ids /\ stated \subseteq (1..(round + 1)) \X Ids
  BY <1>2
<1>4. \A b : /\ Count(correct, round + 1, b) = Count(correct, round, b)
             /\ Count(stated, round + 1, b) = Count(stated, round, b)
  BY <1>2, CountsLate
<1> QED BY <1>1, <1>2, <1>3, <1>4 DEF Earned

LEMMA EarnedStep ==
  ASSUME RoundsAssumption, Earned, [RoundsNext]_roundsVars
  PROVE  Earned'
<1>1. ASSUME NEW said \in SUBSET Numbers, Utter(said) PROVE Earned'
  BY <1>1, EarnedUtter
<1>2. ASSUME NEW intent \in Tags, NEW ex \in Exhibits, AgentTurn(intent, ex) PROVE Earned'
  BY <1>2, EarnedTurn
<1>3. CASE TimePasses
  BY <1>3 DEF TimePasses, Earned
<1>4. CASE NextRound
  BY <1>4, EarnedNextRound
<1>5. CASE Restart
  BY <1>5 DEF Restart, Earned, NoVerdict
<1>6. CASE UNCHANGED roundsVars
  BY <1>6 DEF roundsVars, Earned
<1> QED BY <1>1, <1>2, <1>3, <1>4, <1>5, <1>6 DEF RoundsNext

LEMMA EarnedIsEarned == ASSUME Earned PROVE MathEarned
<1> SUFFICES ASSUME NEW m \in correct
             PROVE  LET UpTo(S) == {x \in S : x[2] = m[2] /\ x[1] <= m[1]} IN
                      Cardinality(UpTo(correct)) <= Cardinality(UpTo(stated))
  BY DEF MathEarned
<1>1. m[1] \in Nat /\ m[2] \in Ids
  BY DEF Earned
<1>2. Count(correct, m[1], m[2]) <= Count(stated, m[1], m[2])
  BY <1>1 DEF Earned
<1> QED BY <1>2 DEF Count, Of

\* What counts as answered was answered: no block is found correct more often than an
\* answer to it was stated (mathcheck.py:3).
THEOREM AnswersAreEarned == RoundsSpec => []MathEarned
<1>1. RoundsInit => Earned
  BY RoundsAssumption, EarnedInit
<1>2. Earned /\ [RoundsNext]_roundsVars => Earned'
  BY RoundsAssumption, EarnedStep
<1>3. Earned => MathEarned
  BY EarnedIsEarned
<1> QED BY <1>1, <1>2, <1>3, PTL DEF RoundsSpec

-----------------------------------------------------------------------------
(* Phases *)

Due(type) == {k \in DOMAIN Schedule(type) : elapsed >= Schedule(type)[k]}

LEMMA Six == IsFiniteSet(1..6) /\ Cardinality(1..6) = 6
<1>1. 1 \in Int /\ 6 \in Int /\ ~(1 > 6) /\ 6 - 1 + 1 = 6
  OBVIOUS
<1>2. /\ IsFiniteSet(1..6)
      /\ Cardinality(1..6) = IF 1 > 6 THEN 0 ELSE 6 - 1 + 1
  BY <1>1, FS_Interval
<1> QED BY <1>1, <1>2

LEMMA ScheduledFacts ==
  ASSUME NEW type
  PROVE  /\ IsFiniteSet(Due(type)) /\ Scheduled(type) = Cardinality(Due(type))
         /\ Scheduled(type) \in Nat
         /\ type = "case" => Scheduled(type) <= 6
<1>1. \A S : S \in SUBSET (1..6) => IsFiniteSet(S) /\ Cardinality(S) <= 6 /\ Cardinality(S) \in Nat
  <2>1. SUFFICES ASSUME NEW S \in SUBSET (1..6)
                 PROVE  IsFiniteSet(S) /\ Cardinality(S) <= 6 /\ Cardinality(S) \in Nat
    OBVIOUS
  <2> QED BY Six, FS_Subset, FS_CardinalityType, ZenonT(40)
<1>2. Due(type) \in SUBSET (1..6)
  BY DEF Due, Schedule
<1>3. Scheduled(type) = Cardinality(Due(type))
  BY DEF Scheduled, Due
<1> QED BY <1>1, <1>2, <1>3

LEMMA ScheduledGrows ==
  ASSUME NEW type, elapsed \in Nat, elapsed' \in Nat, elapsed' >= elapsed
  PROVE  Scheduled(type)' >= Scheduled(type) /\ Scheduled(type)' \in Nat
         /\ (type = "case" => Scheduled(type)' <= 6)
<1> DEFINE D2 == {k \in DOMAIN Schedule(type) : elapsed' >= Schedule(type)[k]}
<1>1. Due(type) \in SUBSET D2
  <2>1. \A k \in DOMAIN Schedule(type) : Schedule(type)[k] \in Nat
    BY DEF Schedule
  <2> QED BY <2>1 DEF Due
<1>2. Scheduled(type)' = Cardinality(D2)
  BY DEF Scheduled, Schedule
<1>3. D2 \in SUBSET (1..6)
  BY DEF Schedule
<1>4. IsFiniteSet(1..6) /\ Cardinality(1..6) = 6
  BY Six
<1>5. IsFiniteSet(D2) /\ Cardinality(D2) <= 6 /\ Cardinality(D2) \in Nat
  BY <1>3, <1>4, FS_Subset, FS_CardinalityType
<1>6. Cardinality(Due(type)) <= Cardinality(D2)
  BY <1>1, <1>5, FS_Subset
<1> QED BY <1>2, <1>5, <1>6, ScheduledFacts

LEMMA PhaseStep ==
  ASSUME RoundsType, [RoundsNext]_roundsVars, On, round' = round
  PROVE  /\ Here.type = "case" => CasePhase' >= CasePhase
         /\ Here.type = "system_design" => DesignPhase' >= DesignPhase
<1>1. elapsed \in Nat /\ elapsed' \in Nat /\ elapsed' >= elapsed
  <2>1. elapsed \in Percents
    BY DEF RoundsType
  <2>2. ~NextRound
    <3>1. round \in Nat
      BY DEF RoundsType
    <3> QED BY <3>1 DEF NextRound
  <2>3. CASE TimePasses
    BY <2>1, <2>3, Later DEF Percents
  <2>4. CASE UNCHANGED elapsed
    BY <2>1, <2>4 DEF Percents
  <2> QED BY <2>2, <2>3, <2>4 DEF RoundsNext, Utter, AgentTurn, Restart, roundsVars
<1>2. seen \subseteq seen'
  BY DEF RoundsNext, Utter, AgentTurn, TimePasses, NextRound, Restart, roundsVars
<1>3. \A i : IntentSeen(i) => IntentSeen(i)'
  BY <1>2 DEF IntentSeen
<1>4. /\ Scheduled("case") \in Nat /\ Scheduled("case")' \in Nat
      /\ Scheduled("case")' >= Scheduled("case") /\ Scheduled("case")' <= 6
  BY <1>1, ScheduledFacts, ScheduledGrows
<1>5. /\ Scheduled("system_design") \in Nat /\ Scheduled("system_design")' \in Nat
      /\ Scheduled("system_design")' >= Scheduled("system_design")
  BY <1>1, ScheduledFacts, ScheduledGrows
<1>6. CasePhase' >= CasePhase
  BY <1>3, <1>4 DEF CasePhase, CaseGated
<1>7. Scheduled("system_design")' >= 1
  <2> DEFINE D2 == {k \in DOMAIN Schedule("system_design") :
                      elapsed' >= Schedule("system_design")[k]}
  <2>1. 1 \in D2
    BY <1>1 DEF Schedule
  <2>2. Scheduled("system_design")' = Cardinality(D2)
    BY DEF Scheduled, Schedule
  <2>3. IsFiniteSet(D2)
    <3>1. D2 \in SUBSET (1..6)
      BY DEF Schedule
    <3> QED BY <3>1, Six, FS_Subset
  <2> HIDE DEF D2
  <2>4. Cardinality(D2) # 0
    BY <2>1, <2>3, FS_EmptySet
  <2> QED BY <1>5, <2>2, <2>4
<1>8. DesignPhase' >= DesignPhase
  BY <1>3, <1>5, <1>7 DEF DesignPhase
<1> QED BY <1>6, <1>8

\* A round's phase only advances, whatever the order of ticks and tags (case.py:32).
THEOREM NoPhaseTwice == RoundsSpec => PhasesForward
<1>1. RoundsInit => RoundsType
  BY RoundsAssumption, TypeInit
<1>2. RoundsType /\ [RoundsNext]_roundsVars => RoundsType'
  BY RoundsAssumption, TypeStep
<1>3. RoundsType /\ [RoundsNext]_roundsVars =>
        [On /\ round' = round =>
           /\ Here.type = "case" => CasePhase' >= CasePhase
           /\ Here.type = "system_design" => DesignPhase' >= DesignPhase]_roundsVars
  BY RoundsAssumption, PhaseStep
<1> QED BY <1>1, <1>2, <1>3, PTL DEF RoundsSpec, PhasesForward

-----------------------------------------------------------------------------
(***************************************************************************)
(* Scoring.  The inductive invariant, Scores, says of what is stored that  *)
(* it is either a flag and no scores, or a score for every competency that *)
(* cites its own evidence, all of it from the round's own log; of the work *)
(* in hand, that it would store no less.  The means are sums over sets: a  *)
(* sum lies between the number of its terms times the least of them and    *)
(* times the greatest.                                                     *)
(***************************************************************************)

(* Sums *)

Pick(s) == CHOOSE x \in s : TRUE

Summand(f, g, s) == IF s = {} THEN 0 ELSE g[Pick(s)] + f[s \ {Pick(s)}]

\* f has the sum of g over every subset of S.
IsSum(f, S, g) == f = [s \in SUBSET S |-> Summand(f, g, s)]

LEMMA PickFacts ==
  ASSUME NEW s, IsFiniteSet(s), s # {}
  PROVE  /\ Pick(s) \in s /\ IsFiniteSet(s \ {Pick(s)})
         /\ Cardinality(s) \in Nat \ {0}
         /\ Cardinality(s \ {Pick(s)}) = Cardinality(s) - 1
<1>1. Pick(s) \in s
  BY DEF Pick
<1>2. Cardinality(s) \in Nat /\ Cardinality(s) # 0
  BY FS_CardinalityType, FS_EmptySet
<1> HIDE DEF Pick
<1> QED BY <1>1, <1>2, FS_RemoveElement

UpToSize(f, S, g, n) ==
  /\ f = [s \in SUBSET S |-> f[s]]
  /\ \A s \in SUBSET S : Cardinality(s) <= n => f[s] = Summand(f, g, s)

LEMMA SumNext ==
  ASSUME NEW S, IsFiniteSet(S), NEW g, NEW n \in Nat, NEW f, UpToSize(f, S, g, n)
  PROVE  \E f2 : UpToSize(f2, S, g, n + 1)
<1> DEFINE f2 == [s \in SUBSET S |-> Summand(f, g, s)]
<1>1. ASSUME NEW s \in SUBSET S, Cardinality(s) <= n + 1 PROVE f2[s] = Summand(f2, g, s)
  <2>1. CASE s = {}
    BY <2>1 DEF Summand
  <2>2. CASE s # {}
    <3> DEFINE rest == s \ {Pick(s)}
    <3>1. IsFiniteSet(s)
      BY FS_Subset
    <3>2. rest \in SUBSET S /\ Cardinality(rest) <= n
      BY <1>1, <2>2, <3>1, PickFacts
    <3>3. f2[rest] = f[rest]
      BY <3>2 DEF UpToSize
    <3>4. f2[s] = g[Pick(s)] + f[rest]
      BY <2>2 DEF Summand
    <3> HIDE DEF f2
    <3> QED BY <2>2, <3>3, <3>4 DEF Summand
  <2> QED BY <2>1, <2>2
<1>2. f2 = [s \in SUBSET S |-> f2[s]]
  OBVIOUS
<1> HIDE DEF f2
<1>3. UpToSize(f2, S, g, n + 1)
  BY <1>1, <1>2 DEF UpToSize
<1> QED BY <1>3

LEMMA SumExists ==
  ASSUME NEW S, IsFiniteSet(S), NEW g
  PROVE  \E f : IsSum(f, S, g)
<1> DEFINE G == {n \in Nat : \E f : UpToSize(f, S, g, n)}
<1>1. 0 \in G
  <2> DEFINE f == [s \in SUBSET S |-> 0]
  <2>1. \A s \in SUBSET S : Cardinality(s) <= 0 => s = {}
    <3> SUFFICES ASSUME NEW s \in SUBSET S, Cardinality(s) <= 0 PROVE s = {}
      OBVIOUS
    <3>1. IsFiniteSet(s)
      BY FS_Subset
    <3>2. Cardinality(s) \in Nat
      BY <3>1, FS_CardinalityType
    <3> QED BY <3>1, <3>2, FS_EmptySet
  <2>2. f = [s \in SUBSET S |-> f[s]] /\ \A s \in SUBSET S : f[s] = 0
    OBVIOUS
  <2> HIDE DEF f
  <2>3. UpToSize(f, S, g, 0)
    BY <2>1, <2>2 DEF UpToSize, Summand
  <2> QED BY <2>3
<1>2. \A n \in Nat : n \in G => n + 1 \in G
  BY SumNext
<1> HIDE DEF G
<1>3. Cardinality(S) \in Nat
  BY FS_CardinalityType
<1>4. Cardinality(S) \in G
  BY <1>1, <1>2, <1>3, Climb
<1>5. PICK f : UpToSize(f, S, g, Cardinality(S))
  BY <1>4 DEF G
<1>6. \A s \in SUBSET S : f[s] = Summand(f, g, s)
  BY <1>5, FS_Subset DEF UpToSize
<1>7. f = [s \in SUBSET S |-> f[s]]
  BY <1>5 DEF UpToSize
<1>8. f = [s \in SUBSET S |-> Summand(f, g, s)]
  BY <1>6, <1>7
<1> QED BY <1>8 DEF IsSum

\* What holds of nothing, and of a set if of the set without one of its elements, holds.
LEMMA SmallSets ==
  ASSUME NEW S, IsFiniteSet(S), NEW G, {} \in G,
         \A s \in SUBSET S : s # {} /\ s \ {Pick(s)} \in G => s \in G
  PROVE  \A s \in SUBSET S : s \in G
<1> DEFINE H == {n \in Nat : \A s \in SUBSET S : Cardinality(s) <= n => s \in G}
<1>1. \A s \in SUBSET S :
        IsFiniteSet(s) /\ Cardinality(s) \in Nat /\ (Cardinality(s) = 0 <=> s = {})
  <2> SUFFICES ASSUME NEW s \in SUBSET S
               PROVE  IsFiniteSet(s) /\ Cardinality(s) \in Nat /\ (Cardinality(s) = 0 <=> s = {})
    OBVIOUS
  <2>1. IsFiniteSet(s)
    BY FS_Subset
  <2> QED BY <2>1, FS_CardinalityType, FS_EmptySet
<1>2. 0 \in H
  <2>1. ASSUME NEW s \in SUBSET S, Cardinality(s) <= 0 PROVE s \in G
    <3>1. Cardinality(s) \in Nat
      BY <1>1
    <3>2. s = {}
      BY <1>1, <2>1, <3>1
    <3> QED BY <3>2
  <2> QED BY <2>1
<1>3. ASSUME NEW n \in Nat, n \in H PROVE n + 1 \in H
  <2> SUFFICES ASSUME NEW s \in SUBSET S, Cardinality(s) <= n + 1 PROVE s \in G
    OBVIOUS
  <2>1. CASE s = {}
    BY <2>1
  <2>2. CASE s # {}
    <3>1. s \ {Pick(s)} \in SUBSET S /\ Cardinality(s \ {Pick(s)}) <= n
      BY <1>1, <2>2, PickFacts
    <3> QED BY <1>3, <2>2, <3>1
  <2> QED BY <2>1, <2>2
<1> HIDE DEF H
<1>4. Cardinality(S) \in Nat
  BY FS_CardinalityType
<1>5. Cardinality(S) \in H
  BY <1>2, <1>3, <1>4, Climb
<1>6. \A s \in SUBSET S : Cardinality(s) <= Cardinality(S)
  BY FS_Subset
<1> QED BY <1>5, <1>6 DEF H

LEMMA SumSteps ==
  ASSUME NEW S, NEW g, NEW f, IsSum(f, S, g)
  PROVE  /\ f[{}] = 0
         /\ \A s \in SUBSET S : s # {} => f[s] = g[Pick(s)] + f[s \ {Pick(s)}]
<1>1. \A s \in SUBSET S : f[s] = Summand(f, g, s)
  BY DEF IsSum
<1> QED BY <1>1 DEF Summand

LEMMA SumType ==
  ASSUME NEW S, IsFiniteSet(S), NEW g, \A x \in S : g[x] \in Int, NEW f, IsSum(f, S, g)
  PROVE  \A s \in SUBSET S : f[s] \in Int
<1> DEFINE G == {s \in SUBSET S : f[s] \in Int}
<1>0. /\ f[{}] = 0
      /\ \A s \in SUBSET S : s # {} => f[s] = g[Pick(s)] + f[s \ {Pick(s)}]
  BY SumSteps
<1>1. {} \in G
  BY <1>0
<1>2. ASSUME NEW s \in SUBSET S, s # {}, s \ {Pick(s)} \in G PROVE s \in G
  <2>1. Pick(s) \in S
    BY <1>2, FS_Subset, PickFacts
  <2>2. f[s] = g[Pick(s)] + f[s \ {Pick(s)}]
    BY <1>0, <1>2
  <2> QED BY <1>2, <2>1, <2>2
<1> HIDE DEF G
<1>3. \A s \in SUBSET S : s \in G
  BY <1>1, <1>2, SmallSets
<1> QED BY <1>3 DEF G

\* k times a sum, below or above another.
LEMMA SumsAtLeast ==
  ASSUME NEW S, IsFiniteSet(S), NEW g, NEW w, \A x \in S : g[x] \in Int /\ w[x] \in Int,
         NEW f, NEW h, IsSum(f, S, g), IsSum(h, S, w),
         NEW k \in Int, \A x \in S : k * w[x] <= g[x]
  PROVE  k * h[S] <= f[S]
<1> DEFINE G == {s \in SUBSET S : k * h[s] <= f[s]}
<1>1. {} \in G
  BY SumSteps
<1>2. ASSUME NEW s \in SUBSET S, s # {}, s \ {Pick(s)} \in G PROVE s \in G
  <2> DEFINE x == Pick(s)
             rest == s \ {x}
  <2>1. x \in S /\ rest \in SUBSET S
    BY <1>2, FS_Subset, PickFacts
  <2>2. f[s] = g[x] + f[rest] /\ h[s] = w[x] + h[rest]
    BY <1>2, SumSteps
  <2>3. f[rest] \in Int /\ h[rest] \in Int /\ g[x] \in Int /\ w[x] \in Int
    BY <2>1, SumType
  <2>4. k * w[x] <= g[x] /\ k * h[rest] <= f[rest]
    BY <1>2, <2>1
  <2> HIDE DEF x, rest
  <2>5. k * (w[x] + h[rest]) = k * w[x] + k * h[rest]
    BY <2>3
  <2>6. k * w[x] \in Int /\ k * h[rest] \in Int
    BY <2>3
  <2>7. k * h[s] <= f[s]
    BY <2>2, <2>3, <2>4, <2>5, <2>6
  <2> QED BY <2>7
<1> HIDE DEF G
<1>3. S \in G
  BY <1>1, <1>2, SmallSets
<1> QED BY <1>3 DEF G

LEMMA SumsAtMost ==
  ASSUME NEW S, IsFiniteSet(S), NEW g, NEW w, \A x \in S : g[x] \in Int /\ w[x] \in Int,
         NEW f, NEW h, IsSum(f, S, g), IsSum(h, S, w),
         NEW k \in Int, \A x \in S : g[x] <= k * w[x]
  PROVE  f[S] <= k * h[S]
<1> DEFINE G == {s \in SUBSET S : f[s] <= k * h[s]}
<1>1. {} \in G
  BY SumSteps
<1>2. ASSUME NEW s \in SUBSET S, s # {}, s \ {Pick(s)} \in G PROVE s \in G
  <2> DEFINE x == Pick(s)
             rest == s \ {x}
  <2>1. x \in S /\ rest \in SUBSET S
    BY <1>2, FS_Subset, PickFacts
  <2>2. f[s] = g[x] + f[rest] /\ h[s] = w[x] + h[rest]
    BY <1>2, SumSteps
  <2>3. f[rest] \in Int /\ h[rest] \in Int /\ g[x] \in Int /\ w[x] \in Int
    BY <2>1, SumType
  <2>4. g[x] <= k * w[x] /\ f[rest] <= k * h[rest]
    BY <1>2, <2>1
  <2> HIDE DEF x, rest
  <2>5. k * (w[x] + h[rest]) = k * w[x] + k * h[rest]
    BY <2>3
  <2>6. k * w[x] \in Int /\ k * h[rest] \in Int
    BY <2>3
  <2>7. f[s] <= k * h[s]
    BY <2>2, <2>3, <2>4, <2>5, <2>6
  <2> QED BY <2>7
<1> HIDE DEF G
<1>3. S \in G
  BY <1>1, <1>2, SmallSets
<1> QED BY <1>3 DEF G

LEMMA SumOfOnes ==
  ASSUME NEW S, IsFiniteSet(S), NEW h, IsSum(h, S, [x \in S |-> 1])
  PROVE  h[S] = Cardinality(S)
<1> DEFINE G == {s \in SUBSET S : h[s] = Cardinality(s)}
<1>1. {} \in G
  BY SumSteps, FS_EmptySet
<1>2. ASSUME NEW s \in SUBSET S, s # {}, s \ {Pick(s)} \in G PROVE s \in G
  <2>1. IsFiniteSet(s)
    BY FS_Subset
  <2>2. /\ Pick(s) \in S /\ Cardinality(s) \in Nat
        /\ Cardinality(s \ {Pick(s)}) = Cardinality(s) - 1
    BY <1>2, <2>1, PickFacts
  <2>3. h[s] = [x \in S |-> 1][Pick(s)] + h[s \ {Pick(s)}]
    BY <1>2, SumSteps
  <2>4. h[s \ {Pick(s)}] = Cardinality(s) - 1
    BY <1>2, <2>2
  <2> QED BY <2>2, <2>3, <2>4
<1> HIDE DEF G
<1>3. S \in G
  BY <1>1, <1>2, SmallSets
<1> QED BY <1>3 DEF G
-----------------------------------------------------------------------------
(* The sums of the model *)

LEMMA MarksSummed ==
  ASSUME NEW r, IsFiniteSet(Scored(r))
  PROVE  \E f : /\ IsSum(f, Scored(r), [c \in Scored(r) |-> Mark(r, c)])
                /\ MapThenSumSet(LAMBDA c : Mark(r, c), Scored(r)) = f[Scored(r)]
<1> DEFINE S == Scored(r)
           T(c) == Mark(r, c)
           g == [c \in S |-> T(c)]
           E(f) == f = [s \in SUBSET S |->
                          IF s = {} THEN 0
                          ELSE LET x == CHOOSE x \in s : TRUE IN T(x) + f[s \ {x}]]
<1>1. MapThenSumSet(LAMBDA c : Mark(r, c), S) = (CHOOSE h : E(h))[S]
  BY DEF MapThenSumSet, MapThenFoldSet
<1> HIDE DEF T
<1>2. PICK f : IsSum(f, S, g)
  BY SumExists
<1>3. \A h, s : s \in SUBSET S =>
        Summand(h, g, s) = IF s = {} THEN 0
                           ELSE LET x == CHOOSE x \in s : TRUE IN T(x) + h[s \ {x}]
  <2> SUFFICES ASSUME NEW h, NEW s \in SUBSET S, s # {}
               PROVE  g[Pick(s)] = T(CHOOSE x \in s : TRUE)
    BY DEF Summand, Pick
  <2>1. Pick(s) \in S
    BY DEF Pick
  <2> QED BY <2>1 DEF Pick
<1>4. \A h : E(h) <=> IsSum(h, S, g)
  BY <1>3, ZenonT(40) DEF IsSum
<1> HIDE DEF E, g
<1>5. \E h : E(h)
  BY <1>2, <1>4
<1>6. E(CHOOSE h : E(h))
  BY <1>5, Zenon
<1>7. IsSum(CHOOSE h : E(h), S, g)
  BY <1>4, <1>6, Zenon
<1> QED BY <1>1, <1>7 DEF g, T

LEMMA RollupSummed ==
  ASSUME NEW c, IsFiniteSet(Observed(c))
  PROVE  \E f : /\ IsSum(f, Observed(c), [r \in Observed(c) |-> Mark(r, c) * RoundWeight[r]])
                /\ MapThenSumSet(LAMBDA r : Mark(r, c) * RoundWeight[r], Observed(c))
                     = f[Observed(c)]
<1> DEFINE S == Observed(c)
           T(r) == Mark(r, c) * RoundWeight[r]
           g == [r \in S |-> T(r)]
           E(f) == f = [s \in SUBSET S |->
                          IF s = {} THEN 0
                          ELSE LET x == CHOOSE x \in s : TRUE IN T(x) + f[s \ {x}]]
<1>1. MapThenSumSet(LAMBDA r : Mark(r, c) * RoundWeight[r], S) = (CHOOSE h : E(h))[S]
  BY DEF MapThenSumSet, MapThenFoldSet
<1> HIDE DEF T
<1>2. PICK f : IsSum(f, S, g)
  BY SumExists
<1>3. \A h, s : s \in SUBSET S =>
        Summand(h, g, s) = IF s = {} THEN 0
                           ELSE LET x == CHOOSE x \in s : TRUE IN T(x) + h[s \ {x}]
  <2> SUFFICES ASSUME NEW h, NEW s \in SUBSET S, s # {}
               PROVE  g[Pick(s)] = T(CHOOSE x \in s : TRUE)
    BY DEF Summand, Pick
  <2>1. Pick(s) \in S
    BY DEF Pick
  <2> QED BY <2>1 DEF Pick
<1>4. \A h : E(h) <=> IsSum(h, S, g)
  BY <1>3, ZenonT(40) DEF IsSum
<1> HIDE DEF E, g
<1>5. \E h : E(h)
  BY <1>2, <1>4
<1>6. E(CHOOSE h : E(h))
  BY <1>5, Zenon
<1>7. IsSum(CHOOSE h : E(h), S, g)
  BY <1>4, <1>6, Zenon
<1> QED BY <1>1, <1>7 DEF g, T

LEMMA WeightsSummed ==
  ASSUME NEW c, IsFiniteSet(Observed(c))
  PROVE  \E f : /\ IsSum(f, Observed(c), [r \in Observed(c) |-> RoundWeight[r]])
                /\ MapThenSumSet(WeightAdded, Observed(c)) = f[Observed(c)]
<1> DEFINE S == Observed(c)
           T(r) == RoundWeight[r]
           g == [r \in S |-> T(r)]
           E(f) == f = [s \in SUBSET S |->
                          IF s = {} THEN 0
                          ELSE LET x == CHOOSE x \in s : TRUE IN T(x) + f[s \ {x}]]
<1>1. MapThenSumSet(WeightAdded, S) = (CHOOSE h : E(h))[S]
  BY DEF MapThenSumSet, MapThenFoldSet, WeightAdded
<1> HIDE DEF T
<1>2. PICK f : IsSum(f, S, g)
  BY SumExists
<1>3. \A h, s : s \in SUBSET S =>
        Summand(h, g, s) = IF s = {} THEN 0
                           ELSE LET x == CHOOSE x \in s : TRUE IN T(x) + h[s \ {x}]
  <2> SUFFICES ASSUME NEW h, NEW s \in SUBSET S, s # {}
               PROVE  g[Pick(s)] = T(CHOOSE x \in s : TRUE)
    BY DEF Summand, Pick
  <2>1. Pick(s) \in S
    BY DEF Pick
  <2> QED BY <2>1 DEF Pick
<1>4. \A h : E(h) <=> IsSum(h, S, g)
  BY <1>3, ZenonT(40) DEF IsSum
<1> HIDE DEF E, g
<1>5. \E h : E(h)
  BY <1>2, <1>4
<1>6. E(CHOOSE h : E(h))
  BY <1>5, Zenon
<1>7. IsSum(CHOOSE h : E(h), S, g)
  BY <1>4, <1>6, Zenon
<1> QED BY <1>1, <1>7 DEF g, T

-----------------------------------------------------------------------------
(* The invariant *)

\* What is stored: evidence of the session's own log, and either a flag and no
\* scores or a score for everything, each with references to its own evidence.
Sound(r) ==
  /\ eval[r].evidence \in [Competencies -> SUBSET log[r]]
  /\ \/ eval[r].degraded = TRUE /\ eval[r].scores = Nothing
     \/ /\ DOMAIN eval[r].scores = Competencies
        /\ \A c \in Competencies : /\ eval[r].scores[c].mark \in Marks
                                   /\ eval[r].scores[c].refs # {}
                                   /\ eval[r].scores[c].refs \subseteq eval[r].evidence[c]

Working ==
  \/ work = NoWork
  \/ work \in [at : {"evidence"}, round : Rounds] /\ eval[work.round] = None
  \/ /\ work \in [at : {"scoring"}, round : Rounds, attempt : {1, 2},
                  evidence : [Competencies -> SUBSET AllEvents]]
     /\ eval[work.round] = None
     /\ work.evidence \in [Competencies -> SUBSET log[work.round]]
  \/ work \in [at : {"brief"}, round : Rounds] /\ eval[work.round] # None

Scores ==
  /\ DOMAIN log = Rounds /\ DOMAIN eval = Rounds /\ DOMAIN brief = Rounds /\ DOMAIN gate = Rounds
  /\ Working
  /\ \A r \in Rounds : /\ log[r] \subseteq Events[r]
                       /\ eval[r] # None => Sound(r)
                       /\ gate[r] = "passed" => eval[r] # None /\ Scored(r) # {}
  /\ ClaimsCited

LEMMA Stored ==
  \A ev, s :
    /\ Evaluation(FALSE, ev, s) # None
    /\ Evaluation(FALSE, ev, s).evidence = ev /\ Evaluation(FALSE, ev, s).scores = s
    /\ Evaluation(TRUE, ev, s) # None /\ Evaluation(TRUE, ev, s).degraded = TRUE
    /\ Evaluation(TRUE, ev, s).evidence = ev /\ Evaluation(TRUE, ev, s).scores = s
<1> TAKE ev, s
<1>1. /\ DOMAIN Evaluation(FALSE, ev, s) = {"degraded", "evidence", "scores"}
      /\ DOMAIN Evaluation(TRUE, ev, s) = {"degraded", "evidence", "scores"}
      /\ DOMAIN None = {"degraded"}
  BY DEF Evaluation, None
<1>2. {"degraded", "evidence", "scores"} # {"degraded"}
  OBVIOUS
<1>3. Evaluation(FALSE, ev, s) # None
  BY <1>1, <1>2, Zenon
<1>4. Evaluation(TRUE, ev, s) # None
  BY <1>1, <1>2, Zenon
<1> QED BY <1>3, <1>4 DEF Evaluation

LEMMA ScoredOf ==
  ASSUME NEW r, eval[r] # None, Sound(r)
  PROVE  /\ Scored(r) = DOMAIN eval[r].scores
         /\ \/ eval[r].degraded = TRUE /\ Scored(r) = {}
            \/ Scored(r) = Competencies
<1>1. Scored(r) = DOMAIN eval[r].scores
  BY DEF Scored
<1>2. DOMAIN Nothing = {}
  BY DEF Nothing
<1> QED BY <1>1, <1>2 DEF Sound

LEMMA ScoresInit ==
  ASSUME ScoringInit
  PROVE  Scores
<1>1. DOMAIN log = Rounds /\ DOMAIN eval = Rounds /\ DOMAIN brief = Rounds /\ DOMAIN gate = Rounds
  BY DEF ScoringInit
<1>2. \A r \in Rounds :
        log[r] \subseteq Events[r] /\ eval[r] = None /\ brief[r] = None /\ gate[r] = "open"
  BY DEF ScoringInit
<1>3. work = NoWork /\ claims = {}
  BY DEF ScoringInit
<1>4. ClaimsCited
  BY <1>2, <1>3 DEF ClaimsCited
<1> QED BY <1>1, <1>2, <1>3, <1>4 DEF Scores, Working

LEMMA WorkingAt ==
  ASSUME Working
  PROVE  /\ work # NoWork => work.round \in Rounds
         /\ work.at = "evidence" => eval[work.round] = None /\ work # NoWork
         /\ work.at = "scoring" => /\ eval[work.round] = None /\ work # NoWork
                                   /\ work.evidence \in [Competencies -> SUBSET log[work.round]]
         /\ work.at = "brief" => eval[work.round] # None /\ work # NoWork
BY DEF Working, NoWork

\* An evaluation is stored once, and what it holds is sound when it is.
LEMMA ScoresStore ==
  ASSUME Scores, work # NoWork, eval[work.round] = None, NEW e, e # None, Store(e),
         e.evidence \in [Competencies -> SUBSET log[work.round]],
         \/ e.degraded = TRUE /\ e.scores = Nothing
         \/ /\ DOMAIN e.scores = Competencies
            /\ \A c \in Competencies : /\ e.scores[c].mark \in Marks
                                       /\ e.scores[c].refs # {}
                                       /\ e.scores[c].refs \subseteq e.evidence[c]
  PROVE  Scores'
<1> DEFINE q == work.round
<1>1. /\ UNCHANGED <<gated, log, brief, gate, decided, claims>>
      /\ eval' = [eval EXCEPT ![q] = e] /\ work' = [at |-> "brief", round |-> q]
  BY DEF Store
<1>2. q \in Rounds /\ DOMAIN eval = Rounds
  BY WorkingAt DEF Scores
<1> HIDE DEF q
<1>3. DOMAIN eval' = Rounds /\ eval'[q] = e /\ \A r \in Rounds : r # q => eval'[r] = eval[r]
  BY <1>1, <1>2
<1>4. Working'
  <2>1. work' \in [at : {"brief"}, round : Rounds] /\ work'.round = q
    BY <1>1, <1>2
  <2> QED BY <1>3, <2>1 DEF Working
<1>5. ASSUME NEW r \in Rounds, eval'[r] # None PROVE Sound(r)'
  <2>1. CASE r = q
    BY <1>1, <1>3, <2>1 DEF q, Sound
  <2>2. CASE r # q
    <3>1. eval'[r] = eval[r] /\ Sound(r)
      BY <1>3, <1>5, <2>2 DEF Scores
    <3> QED BY <1>1, <3>1 DEF Sound
  <2> QED BY <2>1, <2>2
<1>6. ASSUME NEW r \in Rounds, gate'[r] = "passed" PROVE eval'[r] # None /\ Scored(r)' # {}
  <2>1. eval[r] # None /\ Scored(r) # {}
    BY <1>1, <1>6 DEF Scores
  <2>2. r # q
    BY <2>1 DEF q
  <2>3. eval'[r] = eval[r]
    BY <1>3, <2>2
  <2> QED BY <2>1, <2>3 DEF Scored
<1>7. ClaimsCited'
  BY <1>1 DEF Scores, ClaimsCited
<1> QED BY <1>1, <1>3, <1>4, <1>5, <1>6, <1>7 DEF Scores

\* A step that leaves the evaluations, the briefs, the gates and the claims alone.
LEMMA ScoresKept ==
  ASSUME Scores, UNCHANGED <<log, eval, brief, gate, claims>>, Working'
  PROVE  Scores'
<1>1. \A r \in Rounds : Sound(r) => Sound(r)'
  BY DEF Sound
<1>2. \A r \in Rounds : Scored(r)' = Scored(r)
  BY DEF Scored
<1>3. ClaimsCited'
  BY DEF Scores, ClaimsCited
<1> QED BY <1>1, <1>2, <1>3 DEF Scores

LEMMA ScoresTake ==
  ASSUME Scores, NEW r \in Rounds, Take(r)
  PROVE  Scores'
<1>1. work' \in [at : {"evidence"}, round : Rounds] /\ work'.round = r
  BY DEF Take
<1>2. eval'[r] = None /\ UNCHANGED <<log, eval, brief, gate, claims>>
  BY DEF Take
<1>3. Working'
  BY <1>1, <1>2 DEF Working
<1> QED BY <1>2, <1>3, ScoresKept

LEMMA ScoresEvidence ==
  ASSUME Scores, EvidencePass
  PROVE  Scores'
<1>1. UNCHANGED <<log, eval, brief, gate, claims>> /\ work.at = "evidence"
  BY DEF EvidencePass
<1>2. eval[work.round] = None /\ work.round \in Rounds
  BY <1>1, WorkingAt DEF Scores
<1>3. PICK raw \in [Competencies -> SUBSET AllEvents] :
        work' = [at |-> "scoring", round |-> work.round, attempt |-> 1,
                 evidence |-> [c \in Competencies |-> raw[c] \cap log[work.round]]]
  BY DEF EvidencePass
<1> DEFINE ev == [c \in Competencies |-> raw[c] \cap log[work.round]]
<1>4. ev \in [Competencies -> SUBSET AllEvents] /\ ev \in [Competencies -> SUBSET log[work.round]]
  OBVIOUS
<1> HIDE DEF ev
<1>5. /\ work' \in [at : {"scoring"}, round : Rounds, attempt : {1, 2},
                    evidence : [Competencies -> SUBSET AllEvents]]
      /\ work'.round = work.round /\ work'.evidence = ev
  BY <1>2, <1>3, <1>4 DEF ev
<1>6. Working'
  BY <1>1, <1>2, <1>4, <1>5 DEF Working
<1> QED BY <1>1, <1>6, ScoresKept

LEMMA ScoresNoEvidence ==
  ASSUME Scores, EvidenceFails
  PROVE  Scores'
<1> DEFINE e == Evaluation(TRUE, NoEvidence, Nothing)
<1>1. work.at = "evidence" /\ Store(e)
  BY DEF EvidenceFails
<1>2. work # NoWork /\ eval[work.round] = None
  BY <1>1, WorkingAt DEF Scores
<1>3. e # None /\ e.degraded = TRUE /\ e.evidence = NoEvidence /\ e.scores = Nothing
  BY Stored, ZenonT(40)
<1>4. NoEvidence \in [Competencies -> SUBSET log[work.round]]
  BY DEF NoEvidence
<1> HIDE DEF e
<1> QED BY <1>1, <1>2, <1>3, <1>4, ScoresStore

LEMMA ScoresScored ==
  ASSUME Scores, ScoringPass
  PROVE  Scores'
<1>1. work.at = "scoring"
  BY DEF ScoringPass
<1>2. PICK raw \in [Competencies -> [mark : Marks, refs : SUBSET AllEvents]] :
        /\ \A c \in Competencies : raw[c].refs \cap Allowed(c) # {}
        /\ Store(Evaluation(FALSE, work.evidence,
                   [c \in Competencies |-> [raw[c] EXCEPT !.refs = @ \cap Allowed(c)]]))
  BY DEF ScoringPass
<1> DEFINE s == [c \in Competencies |-> [raw[c] EXCEPT !.refs = @ \cap Allowed(c)]]
           e == Evaluation(FALSE, work.evidence, s)
<1>3. /\ work # NoWork /\ eval[work.round] = None
      /\ work.evidence \in [Competencies -> SUBSET log[work.round]]
  BY <1>1, WorkingAt DEF Scores
<1>5. DOMAIN s = Competencies
  OBVIOUS
<1>6. ASSUME NEW c \in Competencies
      PROVE  s[c].mark \in Marks /\ s[c].refs # {} /\ s[c].refs \subseteq work.evidence[c]
  <2>1. raw[c] \in [mark : Marks, refs : SUBSET AllEvents] /\ raw[c].refs \cap Allowed(c) # {}
    BY <1>2
  <2>2. s[c].mark = raw[c].mark /\ s[c].refs = raw[c].refs \cap Allowed(c)
    BY <2>1
  <2> QED BY <2>1, <2>2 DEF Allowed
<1>7. Store(e)
  BY <1>2
<1> HIDE DEF s
<1>4. e # None /\ e.evidence = work.evidence /\ e.scores = s
  BY Stored
<1> HIDE DEF e
<1> QED BY <1>3, <1>4, <1>5, <1>6, <1>7, ScoresStore

LEMMA ScoresNotScored ==
  ASSUME Scores, ScoringFails
  PROVE  Scores'
<1>1. /\ work.at = "scoring" /\ work # NoWork /\ eval[work.round] = None
      /\ work.evidence \in [Competencies -> SUBSET log[work.round]]
  BY WorkingAt DEF ScoringFails, Scores
<1>2. CASE work.attempt = 1
  <2>1. work' = [work EXCEPT !.attempt = 2] /\ UNCHANGED <<log, eval, brief, gate, claims>>
    BY <1>2 DEF ScoringFails
  <2>2. work \in [at : {"scoring"}, round : Rounds, attempt : {1, 2},
                  evidence : [Competencies -> SUBSET AllEvents]]
    BY <1>1 DEF Scores, Working
  <2>3. /\ work' \in [at : {"scoring"}, round : Rounds, attempt : {1, 2},
                      evidence : [Competencies -> SUBSET AllEvents]]
        /\ work'.round = work.round /\ work'.evidence = work.evidence
    BY <2>1, <2>2
  <2>4. Working'
    BY <1>1, <2>1, <2>3 DEF Working
  <2> QED BY <2>1, <2>4, ScoresKept
<1>3. CASE work.attempt # 1
  <2> DEFINE e == Evaluation(GivesUp, work.evidence, Nothing)
  <2>1. Store(e)
    BY <1>3 DEF ScoringFails
  <2>2. e # None /\ e.degraded = TRUE /\ e.evidence = work.evidence /\ e.scores = Nothing
    BY Stored, ZenonT(40) DEF GivesUp
  <2> HIDE DEF e
  <2> QED BY <1>1, <2>1, <2>2, ScoresStore
<1> QED BY <1>2, <1>3

LEMMA Quoted ==
  ASSUME NEW r, eval[r] # None, Sound(r), NEW c \in Scored(r)
  PROVE  Quote(r, c) # {} /\ Quote(r, c) \subseteq log[r]
<1>1. c \in Competencies /\ c \in DOMAIN eval[r].scores /\ DOMAIN eval[r].scores = Competencies
  BY ScoredOf DEF Sound, Nothing
<1>2. eval[r].scores # Nothing
  BY <1>1 DEF Nothing
<1>3. /\ eval[r].scores[c].refs # {} /\ eval[r].scores[c].refs \subseteq eval[r].evidence[c]
      /\ eval[r].evidence[c] \subseteq log[r]
  BY <1>1, <1>2 DEF Sound
<1> QED BY <1>3 DEF Quote

LEMMA ScoresBrief ==
  ASSUME Scores, MakeBrief
  PROVE  Scores'
<1> DEFINE r == work.round
           up == Statements(r, {c \in Scored(r) : Mark(r, c) >= 3})
           down == Statements(r, {c \in Scored(r) : Mark(r, c) <= 3})
           b == [hire |-> AtLeast(WeightedMean(r, PlanWeight), Hire),
                 strengths |-> up, risks |-> down]
<1>1. /\ UNCHANGED <<gated, log, eval, gate, decided, claims>> /\ work' = NoWork
      /\ brief' = [brief EXCEPT ![r] = b] /\ work.at = "brief"
  BY DEF MakeBrief
<1>2. r \in Rounds /\ eval[r] # None /\ Sound(r) /\ DOMAIN brief = Rounds
  BY <1>1, WorkingAt DEF Scores
<1>3. b.strengths = up /\ b.risks = down
  OBVIOUS
<1>4. ASSUME NEW s \in up \cup down PROVE s.quotes # {} /\ s.quotes \subseteq log[r]
  <2>1. PICK c \in Scored(r) : s = [competency |-> c, quotes |-> Quote(r, c)]
    BY DEF Statements
  <2> QED BY <1>2, <2>1, Quoted
<1> HIDE DEF r, up, down, b
<1>5. brief'[r] = b /\ DOMAIN brief' = Rounds /\ \A q \in Rounds : q # r => brief'[q] = brief[q]
  BY <1>1, <1>2
<1>6. ASSUME NEW q \in Rounds, brief'[q] # None, NEW s \in brief'[q].strengths \cup brief'[q].risks
      PROVE  s.quotes # {} /\ s.quotes \subseteq log[q]
  <2>1. CASE q = r
    BY <1>3, <1>4, <1>5, <1>6, <2>1
  <2>2. CASE q # r
    <3>1. brief'[q] = brief[q]
      BY <1>5, <2>2
    <3> QED BY <1>6, <3>1 DEF Scores, ClaimsCited
  <2> QED BY <2>1, <2>2
<1>7. ClaimsCited'
  BY <1>1, <1>6 DEF Scores, ClaimsCited
<1>8. Working'
  BY <1>1 DEF Working
<1>9. \A q \in Rounds : (Sound(q) => Sound(q)') /\ Scored(q)' = Scored(q)
  BY <1>1 DEF Sound, Scored
<1> QED BY <1>1, <1>5, <1>7, <1>8, <1>9 DEF Scores

LEMMA ScoresGate ==
  ASSUME Scores, NEW r \in Rounds, AutoGate(r)
  PROVE  Scores'
<1>1. /\ UNCHANGED <<gated, log, work, eval, brief, decided, claims>> /\ eval[r] # None
      /\ gate' = [gate EXCEPT ![r] = IF Passes(r) THEN "passed" ELSE "ended"]
  BY DEF AutoGate
<1>2. DOMAIN gate = Rounds
  BY DEF Scores
<1>3. DOMAIN gate' = Rounds /\ \A q \in Rounds : q # r => gate'[q] = gate[q]
  BY <1>1, <1>2
<1>4. gate'[r] = "passed" => Passes(r)
  BY <1>1, <1>2
<1>5. \A q \in Rounds : (Sound(q) => Sound(q)') /\ Scored(q)' = Scored(q)
  BY <1>1 DEF Sound, Scored
<1>6. \A q \in Rounds : gate'[q] = "passed" => eval'[q] # None /\ Scored(q)' # {}
  BY <1>1, <1>3, <1>4, <1>5 DEF Scores, Passes
<1>7. ClaimsCited' /\ Working'
  BY <1>1 DEF Scores, ClaimsCited, Working
<1> QED BY <1>1, <1>3, <1>5, <1>6, <1>7 DEF Scores

\* A set of two rounds or more has two different ones.
LEMMA Pair ==
  ASSUME ScoringAssumption, NEW S \in SUBSET Rounds, Cardinality(S) >= 2
  PROVE  /\ IsFiniteSet(S) /\ \E r \in S : \E q \in S : r # q
<1>1. IsFiniteSet(Rounds)
  <2>1. 1 \in Int /\ NRounds \in Int
    BY DEF ScoringAssumption
  <2>2. IsFiniteSet(1..NRounds)
    BY <2>1, FS_Interval
  <2> QED BY <2>2 DEF Rounds
<1>2. IsFiniteSet(S)
  BY <1>1, FS_Subset
<1>3. S # {}
  BY FS_EmptySet
<1>4. PICK r \in S : TRUE
  BY <1>3
<1>5. S # {r}
  <2>1. Cardinality({r}) = 1
    BY FS_Singleton
  <2> QED BY <2>1
<1> QED BY <1>2, <1>4, <1>5

LEMMA ScoresClaims ==
  ASSUME ScoringAssumption, Scores, Aggregate
  PROVE  Scores'
<1>1. UNCHANGED <<gated, log, work, eval, brief, gate, decided>>
  BY DEF Aggregate
<1>0. PICK cited \in SUBSET Rounds : \E claim \in [cited -> {{e} : e \in AllEvents}] :
        claims' = IF Stands(claim) THEN {claim} ELSE {}
  BY DEF Aggregate
<1>2. PICK claim \in [cited -> {{e} : e \in AllEvents}] :
        claims' = IF Stands(claim) THEN {claim} ELSE {}
  BY <1>0
<1>3. ASSUME Stands(claim)
      PROVE  \E r, q \in DOMAIN claim :
               r # q /\ claim[r] \cap Events[r] # {} /\ claim[q] \cap Events[q] # {}
  <2>1. DOMAIN claim = cited /\ Cardinality(cited) >= 2
    BY <1>3 DEF Stands
  <2>2. PICK r, q \in cited : r # q
    BY <2>1, Pair
  <2>3. log[r] \subseteq Events[r] /\ log[q] \subseteq Events[q]
    BY <2>2 DEF Scores
  <2>4. claim[r] \cap log[r] # {} /\ claim[q] \cap log[q] # {}
    BY <1>3, <2>1, <2>2 DEF Stands
  <2> QED BY <2>1, <2>2, <2>3, <2>4
<1>4. \A k \in claims' : \E r, q \in DOMAIN k :
        r # q /\ k[r] \cap Events[r] # {} /\ k[q] \cap Events[q] # {}
  BY <1>2, <1>3
<1>5. ClaimsCited'
  BY <1>1, <1>4 DEF Scores, ClaimsCited
<1>6. Working'
  BY <1>1 DEF Scores, Working
<1>7. \A q \in Rounds : (Sound(q) => Sound(q)') /\ Scored(q)' = Scored(q)
  BY <1>1 DEF Sound, Scored
<1> QED BY <1>1, <1>5, <1>6, <1>7 DEF Scores

LEMMA ScoresStep ==
  ASSUME ScoringAssumption, Scores, [ScoringNext]_scoringVars
  PROVE  Scores'
<1>1. ASSUME NEW r \in Rounds, Decide(r) PROVE Scores'
  <2>1. Working' /\ UNCHANGED <<log, eval, brief, gate, claims>>
    BY <1>1 DEF Decide, Scores, Working
  <2> QED BY <2>1, ScoresKept
<1>2. CASE UNCHANGED scoringVars
  <2>1. Working' /\ UNCHANGED <<log, eval, brief, gate, claims>>
    BY <1>2 DEF scoringVars, Scores, Working
  <2> QED BY <2>1, ScoresKept
<1> QED BY <1>1, <1>2, ScoresTake, ScoresGate, ScoresEvidence, ScoresNoEvidence, ScoresScored,
           ScoresNotScored, ScoresBrief, ScoresClaims DEF ScoringNext

\* Whatever the model answers, no statement ships without a quote of its session's log,
\* no claim without events of two sessions (brief.py:6, aggregate.py:90).
THEOREM StatementsAreCited == ScoringSpec => []ClaimsCited
<1>1. ScoringInit => Scores
  BY ScoringAssumption, ScoresInit
<1>2. Scores /\ [ScoringNext]_scoringVars => Scores'
  BY ScoringAssumption, ScoresStep
<1>3. Scores => ClaimsCited
  BY DEF Scores
<1> QED BY <1>1, <1>2, <1>3, PTL DEF ScoringSpec

LEMMA SeenUnscored == ASSUME Scores PROVE UnscoredIsSeen
<1> SUFFICES ASSUME NEW r \in Rounds, eval[r] # None, Scored(r) # Competencies
             PROVE  /\ gate[r] # "passed"
                    /\ \A c \in Competencies : r \notin Observed(c)
                    /\ InQueue(r) \/ r \in decided
  BY DEF UnscoredIsSeen
<1>1. eval[r].degraded = TRUE /\ Scored(r) = {}
  BY ScoredOf DEF Scores
<1> QED BY <1>1 DEF Scores, Observed, InQueue

\* An evaluation that could not be scored is never silently shipped (pipeline.py:7).
THEOREM NothingUnscoredIsShipped == ScoringSpec => []UnscoredIsSeen
<1>1. ScoringInit => Scores
  BY ScoringAssumption, ScoresInit
<1>2. Scores /\ [ScoringNext]_scoringVars => Scores'
  BY ScoringAssumption, ScoresStep
<1>3. Scores => UnscoredIsSeen
  BY SeenUnscored
<1> QED BY <1>1, <1>2, <1>3, PTL DEF ScoringSpec

-----------------------------------------------------------------------------
(* Means *)

LEMMA LeastAndGreatest ==
  ASSUME NEW n \in Nat, NEW S, S \subseteq 0..n, S # {}
  PROVE  /\ Min(S) \in S /\ \A x \in S : Min(S) <= x
         /\ Max(S) \in S /\ \A x \in S : x <= Max(S)
<1>1. \E x \in S : \A y \in S : x <= y
  <2>1. S \subseteq Nat
    OBVIOUS
  <2> QED BY <2>1, LeastNat
<1>2. \E x \in S : \A y \in S : y <= x
  BY GreatestNat
<1>3. \E x \in S : \A y \in S : x >= y
  <2>1. PICK x \in S : \A y \in S : y <= x
    BY <1>2
  <2>2. \A y \in S : x >= y
    BY <2>1
  <2> QED BY <2>2
<1>4. Min(S) \in S /\ \A x \in S : Min(S) <= x
  BY <1>1 DEF Min
<1>5. Max(S) \in S /\ \A x \in S : Max(S) >= x
  BY <1>3 DEF Max
<1> QED BY <1>4, <1>5

LEMMA Products ==
  ASSUME NEW a \in Nat, NEW b \in Nat, NEW w \in Nat, a <= b
  PROVE  a * w \in Nat /\ b * w \in Nat /\ a * w <= b * w
<1>1. b - a \in Nat /\ b = a + (b - a)
  OBVIOUS
<1>2. PICK d \in Nat : b = a + d
  BY <1>1
<1>3. (a + d) * w = a * w + d * w /\ a * w \in Nat /\ d * w \in Nat
  BY <1>2
<1> QED BY <1>2, <1>3

LEMMA MarkIsMark ==
  ASSUME ScoringAssumption, Scores, NEW r \in Rounds, NEW c \in Scored(r)
  PROVE  Mark(r, c) \in 1..5 /\ c \in Competencies /\ eval[r] # None
<1>1. eval[r] # None
  BY DEF Scored
<1>2. Sound(r)
  BY <1>1 DEF Scores
<1>3. DOMAIN eval[r].scores = Competencies /\ c \in Competencies /\ eval[r].scores # Nothing
  BY <1>1, <1>2, ScoredOf DEF Nothing
<1>4. eval[r].scores[c].mark \in Marks
  BY <1>2, <1>3 DEF Sound
<1> QED BY <1>1, <1>3, <1>4 DEF Mark, ScoringAssumption

LEMMA Finite ==
  ASSUME ScoringAssumption, Scores
  PROVE  /\ IsFiniteSet(Rounds)
         /\ \A c : IsFiniteSet(Observed(c))
         /\ \A r \in Rounds : IsFiniteSet(Scored(r))
<1>1. IsFiniteSet(Rounds)
  <2>1. 1 \in Int /\ NRounds \in Int
    BY DEF ScoringAssumption
  <2>2. IsFiniteSet(1..NRounds)
    BY <2>1, FS_Interval
  <2> QED BY <2>2 DEF Rounds
<1>2. ASSUME NEW c PROVE IsFiniteSet(Observed(c))
  <2>1. Observed(c) \in SUBSET Rounds
    BY DEF Observed
  <2> QED BY <1>1, <2>1, FS_Subset
<1>3. ASSUME NEW r \in Rounds PROVE IsFiniteSet(Scored(r))
  <2>1. Scored(r) \in SUBSET Competencies
    BY MarkIsMark
  <2>2. IsFiniteSet(Competencies)
    BY DEF ScoringAssumption
  <2> QED BY <2>1, <2>2, FS_Subset
<1> QED BY <1>1, <1>2, <1>3

LEMMA RollupBetween ==
  ASSUME ScoringAssumption, Scores, NEW c \in Competencies, Rollup(c)[2] > 0
  PROVE  LET marks == {Mark(r, c) : r \in Observed(c)} IN
           Min(marks) * Rollup(c)[2] <= Rollup(c)[1] /\ Rollup(c)[1] <= Max(marks) * Rollup(c)[2]
<1> DEFINE S == Observed(c)
           marks == {Mark(r, c) : r \in S}
           g == [r \in S |-> Mark(r, c) * RoundWeight[r]]
           w == [r \in S |-> RoundWeight[r]]
<1>1. IsFiniteSet(S)
  BY Finite
<1>2. PICK f : /\ IsSum(f, S, g)
               /\ MapThenSumSet(LAMBDA r : Mark(r, c) * RoundWeight[r], S) = f[S]
  BY <1>1, RollupSummed
<1>3. PICK h : IsSum(h, S, w) /\ MapThenSumSet(WeightAdded, S) = h[S]
  BY <1>1, WeightsSummed
<1>4. IsSum(f, S, g) /\ IsSum(h, S, w)
  BY <1>2, <1>3, Zenon
<1>5. Rollup(c)[1] = f[S] /\ Rollup(c)[2] = h[S]
  BY <1>2, <1>3 DEF Rollup
<1>6. S # {}
  <2> HIDE DEF g, w, S
  <2>1. h[{}] = 0
    BY <1>4, SumSteps
  <2>2. h[S] # 0
    <3>1. ~(0 > 0)
      OBVIOUS
    <3> QED BY <1>5, <3>1, Zenon
  <2> QED BY <2>1, <2>2, Zenon
<1>7. ASSUME NEW r \in S PROVE Mark(r, c) \in 1..5 /\ RoundWeight[r] \in Nat
  <2>1. r \in Rounds /\ c \in Scored(r)
    BY DEF Observed
  <2> QED BY <2>1, MarkIsMark DEF ScoringAssumption
<1>8. marks \subseteq 0..5 /\ marks # {}
  BY <1>6, <1>7
<1> DEFINE lo == Min(marks)
           hi == Max(marks)
<1>9. lo \in marks /\ hi \in marks /\ \A m \in marks : lo <= m /\ m <= hi
  BY <1>8, LeastAndGreatest
<1>10. lo \in Nat /\ hi \in Nat
  BY <1>8, <1>9
<1> HIDE DEF lo, hi
<1>11. ASSUME NEW r \in S
       PROVE  g[r] \in Int /\ w[r] \in Int /\ lo * w[r] <= g[r] /\ g[r] <= hi * w[r]
  <2> DEFINE m == Mark(r, c)
             v == RoundWeight[r]
  <2>1. m \in Nat /\ v \in Nat /\ lo <= m /\ m <= hi
    BY <1>7, <1>9
  <2>2. g[r] = m * v /\ w[r] = v
    OBVIOUS
  <2> HIDE DEF m, v, g, w
  <2>3. lo * v <= m * v /\ m * v <= hi * v /\ m * v \in Nat
    BY <1>10, <2>1, Products
  <2> QED BY <2>1, <2>2, <2>3
<1> HIDE DEF g, w, S
<1>12. \A r \in S : g[r] \in Int /\ w[r] \in Int
  BY <1>11
<1>13. IsSum(f, S, g) /\ IsSum(h, S, w) /\ lo \in Int /\ hi \in Int
  BY <1>4, <1>10
<1>14. lo * h[S] <= f[S]
  <2>1. \A r \in S : lo * w[r] <= g[r]
    BY <1>11
  <2> QED BY <1>1, <1>12, <1>13, <2>1, SumsAtLeast
<1>15. f[S] <= hi * h[S]
  <2>1. \A r \in S : g[r] <= hi * w[r]
    BY <1>11
  <2> QED BY <1>1, <1>12, <1>13, <2>1, SumsAtMost
<1>16. lo * Rollup(c)[2] <= Rollup(c)[1] /\ Rollup(c)[1] <= hi * Rollup(c)[2]
  BY <1>5, <1>14, <1>15
<1> QED BY <1>16 DEF lo, hi, S

\* The mean of a round is its marks over their number, and keeps to a bound they keep to.
LEMMA MeanOf ==
  ASSUME ScoringAssumption, Scores, NEW r \in Rounds, Scored(r) # {}
  PROVE  /\ RoundMean(r)[1] \in Int /\ RoundMean(r)[2] \in Nat \ {0}
         /\ \A k \in Nat :
              /\ (\A c \in Scored(r) : k <= Mark(r, c)) => k * RoundMean(r)[2] <= RoundMean(r)[1]
              /\ (\A c \in Scored(r) : Mark(r, c) <= k) => RoundMean(r)[1] <= k * RoundMean(r)[2]
<1> DEFINE S == Scored(r)
           g == [c \in S |-> Mark(r, c)]
           w == [c \in S |-> 1]
<1>1. IsFiniteSet(S)
  BY Finite
<1>2. PICK f : IsSum(f, S, g) /\ MapThenSumSet(LAMBDA c : Mark(r, c), S) = f[S]
  BY <1>1, MarksSummed
<1>3. PICK h : IsSum(h, S, w)
  BY <1>1, SumExists
<1>4. h[S] = Cardinality(S)
  BY <1>1, <1>3, SumOfOnes
<1>5. RoundMean(r)[1] = f[S] /\ RoundMean(r)[2] = h[S]
  BY <1>2, <1>4 DEF RoundMean
<1>6. h[S] \in Nat \ {0}
  BY <1>1, <1>4, FS_CardinalityType, FS_EmptySet
<1>7. \A c \in S : g[c] \in Int /\ w[c] \in Int /\ g[c] = Mark(r, c) /\ w[c] = 1
  BY MarkIsMark
<1> HIDE DEF g, w, S
<1>8. f[S] \in Int
  BY <1>1, <1>2, <1>7, SumType
<1>9. ASSUME NEW k \in Nat, \A c \in S : k <= Mark(r, c) PROVE k * h[S] <= f[S]
  <2>1. \A c \in S : k * w[c] <= g[c]
    BY <1>7, <1>9
  <2> QED BY <1>1, <1>2, <1>3, <1>7, <2>1, SumsAtLeast
<1>10. ASSUME NEW k \in Nat, \A c \in S : Mark(r, c) <= k PROVE f[S] <= k * h[S]
  <2>1. \A c \in S : g[c] <= k * w[c]
    BY <1>7, <1>10
  <2> QED BY <1>1, <1>2, <1>3, <1>7, <2>1, SumsAtMost
<1> QED BY <1>5, <1>6, <1>8, <1>9, <1>10 DEF S

LEMMA AboveOnce ==
  ASSUME ScoringAssumption, Scores, NEW a \in Rounds, NEW b \in Rounds,
         Scored(a) # {}, Scored(b) # {}, ClearlyAbove(RoundMean(b), RoundMean(a))
  PROVE  OnceAbove(b, a)
<1> SUFFICES ASSUME \A c \in Scored(a), d \in Scored(b) : ~(Mark(b, d) > Mark(a, c)) PROVE FALSE
  BY DEF OnceAbove
<1> DEFINE marks == {Mark(b, d) : d \in Scored(b)}
           k == Max(marks)
           A1 == RoundMean(a)[1]
           A2 == RoundMean(a)[2]
           B1 == RoundMean(b)[1]
           B2 == RoundMean(b)[2]
<1>1. marks \subseteq 0..5 /\ marks # {}
  BY MarkIsMark
<1>2. k \in marks /\ \A m \in marks : m <= k
  BY <1>1, LeastAndGreatest
<1>3. k \in Nat /\ \A d \in Scored(b) : Mark(b, d) <= k
  BY <1>1, <1>2
<1>4. ASSUME NEW c \in Scored(a) PROVE k <= Mark(a, c)
  <2>1. PICK d \in Scored(b) : k = Mark(b, d)
    BY <1>2
  <2>2. Mark(a, c) \in Nat /\ Mark(b, d) \in Nat /\ ~(Mark(b, d) > Mark(a, c))
    BY MarkIsMark
  <2> QED BY <2>1, <2>2
<1> HIDE DEF k, marks
<1>5. A1 \in Int /\ A2 \in Nat \ {0} /\ k * A2 <= A1
  BY <1>3, <1>4, MeanOf
<1>6. B1 \in Int /\ B2 \in Nat \ {0} /\ B1 <= k * B2
  BY <1>3, MeanOf
<1>7. 10 * (B1 * A2 - A1 * B2) > 4 * A2 * B2
  BY DEF ClearlyAbove
<1> HIDE DEF A1, A2, B1, B2
<1>8. B1 * A2 <= (k * B2) * A2
  <2>1. PICK d \in Nat : k * B2 = B1 + d
    <3>1. k * B2 \in Nat /\ k * B2 - B1 \in Nat /\ k * B2 = B1 + (k * B2 - B1)
      BY <1>3, <1>6
    <3> QED BY <3>1
  <2>2. (B1 + d) * A2 = B1 * A2 + d * A2 /\ d * A2 \in Nat /\ B1 * A2 \in Int
    BY <1>5, <1>6, <2>1
  <2> QED BY <2>1, <2>2
<1>9. (k * A2) * B2 <= A1 * B2
  <2>1. PICK d \in Nat : A1 = k * A2 + d
    <3>1. k * A2 \in Nat /\ A1 - k * A2 \in Nat /\ A1 = k * A2 + (A1 - k * A2)
      BY <1>3, <1>5
    <3> QED BY <3>1
  <2>2. (k * A2 + d) * B2 = (k * A2) * B2 + d * B2 /\ d * B2 \in Nat /\ (k * A2) * B2 \in Int
    BY <1>3, <1>5, <1>6, <2>1
  <2> QED BY <2>1, <2>2
<1>10. (k * B2) * A2 = (k * A2) * B2
  BY <1>3, <1>5, <1>6
<1>11. /\ B1 * A2 \in Int /\ A1 * B2 \in Int /\ A2 * B2 \in Nat
       /\ (k * B2) * A2 \in Int /\ 4 * A2 * B2 = 4 * (A2 * B2)
  BY <1>3, <1>5, <1>6
<1>12. B1 * A2 - A1 * B2 <= 0
  BY <1>8, <1>9, <1>10, <1>11
<1>13. 10 * (B1 * A2 - A1 * B2) <= 0 /\ 4 * A2 * B2 >= 0
  BY <1>11, <1>12
<1> QED BY <1>7, <1>11, <1>13

LEMMA EndsOfTrajectory ==
  ASSUME ScoringAssumption, NEW judged \in SUBSET Rounds, ~(Cardinality(judged) < 2),
         IsFiniteSet(judged)
  PROVE  Min(judged) \in judged /\ Max(judged) \in judged /\ Min(judged) < Max(judged)
<1>1. NRounds \in Nat /\ judged \subseteq 0..NRounds
  BY DEF ScoringAssumption, Rounds
<1>2. Cardinality(judged) \in Nat
  BY FS_CardinalityType
<1>3. PICK r \in judged : \E q \in judged : r # q
  BY <1>2, Pair
<1>4. PICK q \in judged : r # q
  BY <1>3
<1>5. /\ Min(judged) \in judged /\ \A x \in judged : Min(judged) <= x
      /\ Max(judged) \in judged /\ \A x \in judged : x <= Max(judged)
  BY <1>1, <1>3, LeastAndGreatest
<1>6. \A x \in judged : x \in Nat
  BY <1>1
<1>7. Min(judged) <= r /\ Min(judged) <= q /\ r <= Max(judged) /\ q <= Max(judged)
  BY <1>3, <1>4, <1>5
<1>8. Min(judged) \in Nat /\ Max(judged) \in Nat /\ r \in Nat /\ q \in Nat
  BY <1>3, <1>4, <1>5, <1>6
<1> QED BY <1>4, <1>5, <1>7, <1>8

LEMMA RollupsAreMeans == ASSUME ScoringAssumption, Scores PROVE RollupIsMean
<1> DEFINE judged == {r \in Rounds : Scored(r) # {}}
           a == Min(judged)
           b == Max(judged)
<1>1. ASSUME ~(Cardinality(judged) < 2)
      PROVE  /\ a \in Rounds /\ b \in Rounds /\ a < b
             /\ ClearlyAbove(RoundMean(b), RoundMean(a)) => OnceAbove(b, a)
             /\ ClearlyAbove(RoundMean(a), RoundMean(b)) => OnceAbove(a, b)
  <2>1. judged \in SUBSET Rounds /\ IsFiniteSet(judged)
    <3>1. judged \in SUBSET Rounds
      OBVIOUS
    <3> QED BY <3>1, Finite, FS_Subset
  <2>2. a \in judged /\ b \in judged /\ a < b
    BY <1>1, <2>1, EndsOfTrajectory
  <2>3. a \in Rounds /\ b \in Rounds /\ Scored(a) # {} /\ Scored(b) # {}
    BY <2>2
  <2> QED BY <2>2, <2>3, AboveOnce
<1> DEFINE up == ClearlyAbove(RoundMean(b), RoundMean(a))
           down == ClearlyAbove(RoundMean(a), RoundMean(b))
           single == Cardinality(judged) < 2
<1>2. Trajectory = IF single THEN "single_round"
                   ELSE IF up THEN "improving" ELSE IF down THEN "declining" ELSE "steady"
  BY DEF Trajectory
<1> HIDE DEF up, down, single
<1>3. (Trajectory = "improving" => ~single /\ up) /\ (Trajectory = "declining" => ~single /\ down)
  BY <1>2
<1> HIDE DEF a, b, judged
<1>4. ASSUME Trajectory = "improving" PROVE \E r, q \in Rounds : r < q /\ OnceAbove(q, r)
  BY <1>1, <1>3, <1>4 DEF up, single
<1>5. ASSUME Trajectory = "declining" PROVE \E r, q \in Rounds : r < q /\ OnceAbove(r, q)
  BY <1>1, <1>3, <1>5 DEF down, single
<1> QED BY <1>4, <1>5, RollupBetween DEF RollupIsMean

\* A roll-up lies between the scores it merges, for any weights, and a trajectory has
\* a pair of scores to show for it (rollup_competencies).
THEOREM RollupsAreBetween == ScoringSpec => []RollupIsMean
<1>1. ScoringInit => Scores
  BY ScoringAssumption, ScoresInit
<1>2. Scores /\ [ScoringNext]_scoringVars => Scores'
  BY ScoringAssumption, ScoresStep
<1>3. Scores => RollupIsMean
  BY ScoringAssumption, RollupsAreMeans
<1> QED BY <1>1, <1>2, <1>3, PTL DEF ScoringSpec

-----------------------------------------------------------------------------
(***************************************************************************)
(* Editor.  The inductive invariant of ExactInOneSitting, Exact, says of   *)
(* every post that it leaves what the log and the posts yield as it was:   *)
(* handling the oldest one (FirstEvent), flushing a buffer (OneEvent), and *)
(* recording two cursors of one text from the back (TwoCursors).           *)
(***************************************************************************)

(* The two folds *)

TextsTo(f, code, deltas, m) ==
  f = [k \in 0..m |-> IF k = 0 THEN code ELSE ApplyDelta(f[k - 1], deltas[k])]

LEMMA TextsNext ==
  ASSUME NEW code, NEW deltas, NEW m \in Nat, NEW f, TextsTo(f, code, deltas, m)
  PROVE  \E f2 : TextsTo(f2, code, deltas, m + 1)
<1> DEFINE f2 == [k \in 0..(m + 1) |-> IF k = 0 THEN code ELSE ApplyDelta(f[k - 1], deltas[k])]
<1>1. \A k \in 0..m : f2[k] = f[k]
  BY DEF TextsTo
<1>2. \A k \in 0..(m + 1) : k # 0 => k - 1 \in 0..m
  OBVIOUS
<1>3. \A k \in 0..(m + 1) : k # 0 => f2[k - 1] = f[k - 1]
  BY <1>1, <1>2
<1>4. f2 = [k \in 0..(m + 1) |-> IF k = 0 THEN code ELSE ApplyDelta(f2[k - 1], deltas[k])]
  BY <1>3
<1> QED BY <1>4 DEF TextsTo

LEMMA TextsExist ==
  ASSUME NEW code, NEW deltas, NEW n \in Nat
  PROVE  \E f : TextsTo(f, code, deltas, n)
<1> DEFINE G == {m \in Nat : \E f : TextsTo(f, code, deltas, m)}
<1>1. 0 \in G
  <2> DEFINE f == [k \in 0..0 |-> code]
  <2>1. f = [k \in 0..0 |-> IF k = 0 THEN code ELSE ApplyDelta(f[k - 1], deltas[k])]
    OBVIOUS
  <2> QED BY <2>1 DEF TextsTo
<1>2. \A m \in 0..(n - 1) : m \in G => m + 1 \in G
  BY TextsNext
<1> HIDE DEF G
<1>3. \A m \in 0..n : m \in G
  BY <1>1, <1>2, Climb
<1> QED BY <1>3 DEF G

LEMMA TextsDef ==
  ASSUME NEW code, NEW S, NEW deltas \in Seq(S)
  PROVE  /\ Texts(code, deltas)[0] = code
         /\ \A k \in 1..Len(deltas) :
              Texts(code, deltas)[k] = ApplyDelta(Texts(code, deltas)[k - 1], deltas[k])
<1>1. Len(deltas) \in Nat
  OBVIOUS
<1>2. PICK f : TextsTo(f, code, deltas, Len(deltas))
  BY <1>1, TextsExist
<1>3. Texts(code, deltas) = [k \in 0..Len(deltas) |->
        IF k = 0 THEN code ELSE ApplyDelta(Texts(code, deltas)[k - 1], deltas[k])]
  BY <1>2 DEF TextsTo, Texts
<1>4. 0 \in 0..Len(deltas) /\ \A k \in 1..Len(deltas) : k \in 0..Len(deltas) /\ k # 0
  BY <1>1
<1>5. \A k \in 0..Len(deltas) : Texts(code, deltas)[k] =
        IF k = 0 THEN code ELSE ApplyDelta(Texts(code, deltas)[k - 1], deltas[k])
  BY <1>3
<1> QED BY <1>4, <1>5

Applied(code, deltas) == Texts(code, deltas)[Len(deltas)]

\* One delta more.
LEMMA OneDelta ==
  ASSUME NEW code, NEW S, NEW deltas \in Seq(S), NEW d \in S
  PROVE  /\ Applied(code, <<>>) = code
         /\ Applied(code, Append(deltas, d)) = ApplyDelta(Applied(code, deltas), d)
<1>1. Applied(code, <<>>) = code
  <2>1. <<>> \in Seq(S) /\ Len(<<>>) = 0
    OBVIOUS
  <2> QED BY <2>1, TextsDef DEF Applied
<1> DEFINE more == Append(deltas, d)
           n == Len(deltas)
<1>2. /\ more \in Seq(S) /\ Len(more) = n + 1 /\ n \in Nat /\ more[n + 1] = d
      /\ \A k \in 1..n : more[k] = deltas[k]
  OBVIOUS
<1> HIDE DEF more, n
<1>3. /\ Texts(code, deltas)[0] = code /\ Texts(code, more)[0] = code
      /\ \A k \in 1..n : Texts(code, deltas)[k] = ApplyDelta(Texts(code, deltas)[k - 1], deltas[k])
      /\ \A k \in 1..(n + 1) : Texts(code, more)[k] = ApplyDelta(Texts(code, more)[k - 1], more[k])
  BY <1>2, TextsDef DEF n
<1> DEFINE G == {k \in 0..n : Texts(code, more)[k] = Texts(code, deltas)[k]}
<1>4. 0 \in G
  BY <1>2, <1>3
<1>5. ASSUME NEW k \in 0..(n - 1), k \in G PROVE k + 1 \in G
  <2>1. k + 1 \in 1..n /\ k + 1 \in 1..(n + 1) /\ (k + 1) - 1 = k /\ k + 1 \in 0..n
    BY <1>2
  <2>2. /\ Texts(code, deltas)[k + 1] = ApplyDelta(Texts(code, deltas)[k], deltas[k + 1])
        /\ Texts(code, more)[k + 1] = ApplyDelta(Texts(code, more)[k], more[k + 1])
    BY <1>3, <2>1
  <2> QED BY <1>2, <1>5, <2>1, <2>2
<1> HIDE DEF G
<1>6. \A k \in 0..n : k \in G
  BY <1>2, <1>4, <1>5, Climb
<1>7. Texts(code, more)[n] = Texts(code, deltas)[n]
  BY <1>2, <1>6 DEF G
<1>8. n + 1 \in 1..(n + 1) /\ (n + 1) - 1 = n
  BY <1>2
<1>9. Texts(code, more)[n + 1] = ApplyDelta(Texts(code, deltas)[n], d)
  BY <1>2, <1>3, <1>7, <1>8
<1> QED BY <1>1, <1>2, <1>9 DEF Applied, more, n

ReplayStep(base, code, f, e, k) ==
  IF k <= base THEN code
  ELSE IF e.type = "batch" THEN ApplyBatch(f[k - 1], e) ELSE f[k - 1]

ReplaysTo(f, base, code, events, m) ==
  f = [k \in 0..m |-> ReplayStep(base, code, f, events[k], k)]

LEMMA ReplaysNext ==
  ASSUME NEW base \in Nat, NEW code, NEW events, NEW m \in Nat, NEW f,
         ReplaysTo(f, base, code, events, m)
  PROVE  \E f2 : ReplaysTo(f2, base, code, events, m + 1)
<1> DEFINE f2 == [k \in 0..(m + 1) |-> ReplayStep(base, code, f, events[k], k)]
<1>1. \A k \in 0..m : f2[k] = f[k]
  BY DEF ReplaysTo
<1>2. \A k \in 0..(m + 1) : ~(k <= base) => k - 1 \in 0..m
  OBVIOUS
<1>3. \A k \in 0..(m + 1) : ~(k <= base) => f2[k - 1] = f[k - 1]
  BY <1>1, <1>2
<1>4. \A k \in 0..(m + 1) :
        ReplayStep(base, code, f2, events[k], k) = ReplayStep(base, code, f, events[k], k)
  <2> HIDE DEF f2
  <2> QED BY <1>3 DEF ReplayStep
<1>5. f2 = [k \in 0..(m + 1) |-> ReplayStep(base, code, f2, events[k], k)]
  BY <1>4
<1> QED BY <1>5 DEF ReplaysTo

LEMMA ReplaysExist ==
  ASSUME NEW base \in Nat, NEW code, NEW events, NEW n \in Nat
  PROVE  \E f : ReplaysTo(f, base, code, events, n)
<1> DEFINE G == {m \in Nat : \E f : ReplaysTo(f, base, code, events, m)}
<1>1. 0 \in G
  <2> DEFINE f == [k \in 0..0 |-> code]
  <2>1. f = [k \in 0..0 |-> ReplayStep(base, code, f, events[k], k)]
    BY DEF ReplayStep
  <2> QED BY <2>1 DEF ReplaysTo
<1>2. \A m \in 0..(n - 1) : m \in G => m + 1 \in G
  BY ReplaysNext
<1> HIDE DEF G
<1>3. \A m \in 0..n : m \in G
  BY <1>1, <1>2, Climb
<1> QED BY <1>3 DEF G

LEMMA ReplaysDef ==
  ASSUME NEW base \in Nat, NEW code, NEW S, NEW events \in Seq(S)
  PROVE  \A k \in 0..Len(events) :
           Replays(base, code, events)[k] =
             ReplayStep(base, code, Replays(base, code, events), events[k], k)
<1>1. Len(events) \in Nat
  OBVIOUS
<1>2. PICK f : ReplaysTo(f, base, code, events, Len(events))
  BY <1>1, ReplaysExist
<1>3. ReplaysTo(Replays(base, code, events), base, code, events, Len(events))
  BY <1>2 DEF ReplaysTo, Replays, ReplayStep
<1> HIDE DEF ReplayStep
<1> QED BY <1>3 DEF ReplaysTo

-----------------------------------------------------------------------------
(* What code_at() makes of one event more *)

LEMMA Latest ==
  ASSUME NEW S, NEW events \in Seq(S)
  PROVE  LET base == LatestSnapshot(events) IN
           /\ base \in 0..Len(events)
           /\ base = 0 <=> Snapshots(events) = {}
           /\ base # 0 => base \in Snapshots(events) /\ \A j \in Snapshots(events) : j <= base
<1>1. Len(events) \in Nat /\ DOMAIN events = 1..Len(events)
  OBVIOUS
<1>2. Snapshots(events) \subseteq 1..Len(events)
  BY <1>1 DEF Snapshots
<1>3. CASE Snapshots(events) = {}
  BY <1>1, <1>3 DEF LatestSnapshot
<1>4. CASE Snapshots(events) # {}
  <2>1. Snapshots(events) \subseteq 0..Len(events)
    BY <1>2
  <2>2. \E i \in Snapshots(events) : \A j \in Snapshots(events) : j <= i
    BY <1>1, <1>4, <2>1, GreatestNat
  <2>3. /\ LatestSnapshot(events) \in Snapshots(events)
        /\ \A j \in Snapshots(events) : j <= LatestSnapshot(events)
    BY <1>4, <2>2 DEF LatestSnapshot
  <2> QED BY <1>2, <1>4, <2>3
<1> QED BY <1>3, <1>4

LEMMA NoEvents == \A code : CodeAt(code, <<>>) = code
<1> TAKE code
<1>1. PICK none : none = <<>>
  OBVIOUS
<1>2. none \in Seq({}) /\ Len(none) = 0
  BY <1>1
<1>3. LatestSnapshot(none) = 0
  <2>1. LatestSnapshot(none) \in 0..Len(none)
    BY <1>2, Latest
  <2> QED BY <1>2, <2>1
<1>4. Replays(0, code, none)[0] = code
  <2>1. PICK base \in Nat : base = 0
    OBVIOUS
  <2>2. \A k \in 0..Len(none) : Replays(base, code, none)[k] =
          ReplayStep(base, code, Replays(base, code, none), none[k], k)
    BY <1>2, ReplaysDef, ZenonT(40)
  <2>3. 0 \in 0..Len(none) /\ 0 <= base
    BY <1>2, <2>1
  <2>4. Replays(base, code, none)[0] = code
    BY <2>2, <2>3 DEF ReplayStep
  <2> QED BY <2>1, <2>4
<1>5. CodeAt(code, none) = code
  BY <1>2, <1>3, <1>4 DEF CodeAt
<1> QED BY <1>1, <1>5

LEMMA SnapshotNext ==
  ASSUME NEW code, NEW S, NEW events \in Seq(S), NEW e \in S, e.type = "snapshot"
  PROVE  CodeAt(code, Append(events, e)) = e.code
<1> DEFINE more == Append(events, e)
           n == Len(events)
<1>1. /\ more \in Seq(S) /\ Len(more) = n + 1 /\ n \in Nat
      /\ more[n + 1] = e /\ DOMAIN more = 1..(n + 1)
  OBVIOUS
<1> HIDE DEF more, n
<1>2. n + 1 \in Snapshots(more) /\ n + 1 \in 1..(n + 1)
  BY <1>1 DEF Snapshots
<1>3. LatestSnapshot(more) = n + 1
  BY <1>1, <1>2, Latest
<1>4. \A c : Replays(n + 1, c, more)[n + 1] = c
  <2> TAKE c
  <2>1. n + 1 \in Nat /\ n + 1 \in 0..Len(more) /\ n + 1 <= n + 1
    BY <1>1
  <2>2. Replays(n + 1, c, more)[n + 1]
          = ReplayStep(n + 1, c, Replays(n + 1, c, more), more[n + 1], n + 1)
    BY <1>1, <2>1, ReplaysDef
  <2> QED BY <2>1, <2>2 DEF ReplayStep
<1>5. CodeAt(code, more) = more[n + 1].code
  BY <1>1, <1>3, <1>4 DEF CodeAt
<1> QED BY <1>1, <1>5 DEF more

LEMMA BatchNext ==
  ASSUME NEW code, NEW S, NEW events \in Seq(S), NEW e \in S, e.type = "batch"
  PROVE  CodeAt(code, Append(events, e)) = ApplyBatch(CodeAt(code, events), e)
<1> DEFINE more == Append(events, e)
           n == Len(events)
           base == LatestSnapshot(events)
           c == IF base = 0 THEN code ELSE events[base].code
<1>1. /\ more \in Seq(S) /\ Len(more) = n + 1 /\ n \in Nat /\ more[n + 1] = e
      /\ DOMAIN more = 1..(n + 1) /\ DOMAIN events = 1..n
      /\ \A k \in 1..n : more[k] = events[k]
  OBVIOUS
<1> HIDE DEF more, n
<1>2. Snapshots(more) = Snapshots(events)
  <2>1. \A k \in 1..(n + 1) : k # n + 1 => k \in 1..n
    BY <1>1
  <2>2. \A k \in 1..n : k \in 1..(n + 1)
    BY <1>1
  <2> QED BY <1>1, <2>1, <2>2 DEF Snapshots
<1>3. LatestSnapshot(more) = base
  BY <1>2 DEF LatestSnapshot
<1>4. base \in 0..n /\ (base # 0 => more[base] = events[base])
  <2>1. base \in 0..n
    BY Latest DEF n
  <2> QED BY <1>1, <2>1
<1> HIDE DEF base
<1>5. CodeAt(code, more) = Replays(base, c, more)[n + 1]
  BY <1>1, <1>3, <1>4 DEF CodeAt
<1>6. CodeAt(code, events) = Replays(base, c, events)[n]
  BY DEF CodeAt, base, n
<1> HIDE DEF c
<1>7. /\ \A k \in 0..n : Replays(base, c, events)[k] =
                          ReplayStep(base, c, Replays(base, c, events), events[k], k)
      /\ \A k \in 0..(n + 1) : Replays(base, c, more)[k] =
                          ReplayStep(base, c, Replays(base, c, more), more[k], k)
  <2>1. base \in Nat
    BY <1>1, <1>4
  <2>2. \A k \in 0..n : Replays(base, c, events)[k] =
                          ReplayStep(base, c, Replays(base, c, events), events[k], k)
    BY <2>1, ReplaysDef DEF n
  <2>3. \A k \in 0..(n + 1) : Replays(base, c, more)[k] =
                          ReplayStep(base, c, Replays(base, c, more), more[k], k)
    BY <1>1, <2>1, ReplaysDef
  <2> QED BY <2>2, <2>3
<1> DEFINE G == {k \in 0..n : Replays(base, c, more)[k] = Replays(base, c, events)[k]}
<1>8. 0 \in G
  <2>1. 0 <= base /\ 0 \in 0..n /\ 0 \in 0..(n + 1)
    BY <1>1, <1>4
  <2>2. Replays(base, c, more)[0] = c /\ Replays(base, c, events)[0] = c
    BY <1>7, <2>1 DEF ReplayStep
  <2> QED BY <2>1, <2>2
<1>9. ASSUME NEW k \in 0..(n - 1), k \in G PROVE k + 1 \in G
  <2>1. /\ k + 1 \in 0..n /\ k + 1 \in 0..(n + 1) /\ (k + 1) - 1 = k /\ k + 1 \in 1..n
    BY <1>1
  <2>2. more[k + 1] = events[k + 1] /\ Replays(base, c, more)[k] = Replays(base, c, events)[k]
    BY <1>1, <1>9, <2>1
  <2>3. /\ Replays(base, c, more)[k + 1]
             = ReplayStep(base, c, Replays(base, c, more), more[k + 1], k + 1)
        /\ Replays(base, c, events)[k + 1]
             = ReplayStep(base, c, Replays(base, c, events), events[k + 1], k + 1)
    BY <1>7, <2>1
  <2>4. ReplayStep(base, c, Replays(base, c, more), more[k + 1], k + 1)
          = ReplayStep(base, c, Replays(base, c, events), events[k + 1], k + 1)
    BY <2>1, <2>2 DEF ReplayStep
  <2> QED BY <2>1, <2>3, <2>4
<1> HIDE DEF G
<1>10. \A k \in 0..n : k \in G
  BY <1>1, <1>8, <1>9, Climb
<1>11. Replays(base, c, more)[n] = Replays(base, c, events)[n]
  BY <1>1, <1>10 DEF G
<1>12. Replays(base, c, more)[n + 1] = ApplyBatch(Replays(base, c, more)[n], e)
  <2>1. ~(n + 1 <= base) /\ n + 1 \in 0..(n + 1) /\ (n + 1) - 1 = n
    BY <1>1, <1>4
  <2>2. Replays(base, c, more)[n + 1]
          = ReplayStep(base, c, Replays(base, c, more), more[n + 1], n + 1)
    BY <1>7, <2>1
  <2> QED BY <1>1, <2>1, <2>2 DEF ReplayStep
<1> QED BY <1>5, <1>6, <1>11, <1>12 DEF more

-----------------------------------------------------------------------------
(* Prefixes *)

LEMMA PrefixSteps ==
  ASSUME NEW S, NEW s \in Seq(S)
  PROVE  /\ Len(s) \in Nat /\ SubSeq(s, 1, 0) = <<>> /\ SubSeq(s, 1, Len(s)) = s
         /\ \A k \in 0..(Len(s) - 1) :
              /\ SubSeq(s, 1, k) \in Seq(S) /\ s[k + 1] \in S
              /\ SubSeq(s, 1, k + 1) = Append(SubSeq(s, 1, k), s[k + 1])
<1>1. Len(s) \in Nat /\ SubSeq(s, 1, 0) = <<>> /\ SubSeq(s, 1, Len(s)) = s
  BY SubSeqFull, SubSeqEmpty
<1>2. ASSUME NEW k \in 0..(Len(s) - 1)
      PROVE  /\ SubSeq(s, 1, k) \in Seq(S) /\ s[k + 1] \in S
             /\ SubSeq(s, 1, k + 1) = Append(SubSeq(s, 1, k), s[k + 1])
  <2>1. k + 1 \in 1..Len(s) /\ k \in Nat /\ (k + 1) - 1 = k
    BY <1>1
  <2>2. s[k + 1] \in S
    BY <2>1, ElementOfSeq
  <2>3. SubSeq(s, 1, k) \in Seq(S)
    <3>1. \A i \in 1..k : s[i] \in S
      BY <2>1, ElementOfSeq
    <3> QED BY <2>1, <3>1, SubSeqProperties
  <2>4. SubSeq(s, 1, k + 1) = SubSeq(s, 1, k) \o <<s[k + 1]>>
    <3>1. 1 \in 1..Len(s) /\ k + 1 \in 1..Len(s)
      BY <1>1, <2>1
    <3> QED BY <2>1, <3>1, SubSeqRecursiveSecond
  <2> QED BY <2>2, <2>3, <2>4, AppendIsConcat
<1> QED BY <1>1, <1>2

-----------------------------------------------------------------------------
(* Texts *)

LEMMA Slices ==
  ASSUME NEW code \in Text, NEW n \in Nat
  PROVE  Upto(code, n) \in Text /\ From(code, n) \in Text
<1>1. Len(code) \in Nat /\ \A i \in 1..Len(code) : code[i] \in 1..MaxEdits
  <2>1. code \in Seq(1..MaxEdits)
    BY DEF Text
  <2> QED BY <2>1, ElementOfSeq, LenProperties
<1> DEFINE m == IF n < Len(code) THEN n ELSE Len(code)
<1>2. m \in Nat /\ m <= Len(code)
  BY <1>1
<1> HIDE DEF m
<1>3. SubSeq(code, 1, m) \in Seq(1..MaxEdits)
  <2>1. \A i \in 1..m : code[i] \in 1..MaxEdits
    BY <1>1, <1>2
  <2> QED BY <1>2, <2>1, SubSeqProperties
<1>4. SubSeq(code, n + 1, Len(code)) \in Seq(1..MaxEdits)
  <2>1. \A i \in (n + 1)..Len(code) : code[i] \in 1..MaxEdits
    BY <1>1
  <2> QED BY <1>1, <2>1, SubSeqProperties
<1> QED BY <1>3, <1>4 DEF Upto, From, Text, m

LEMMA DeltaType ==
  ASSUME NEW code \in Text, NEW d \in Delta
  PROVE  ApplyDelta(code, d) \in Text
<1>1. d.at \in Nat /\ d.at + d.len \in Nat /\ d.text \in Text
  BY DEF Delta
<1>2. Upto(code, d.at) \in Text /\ From(code, d.at + d.len) \in Text
  BY <1>1, Slices
<1> QED BY <1>1, <1>2, ConcatProperties DEF ApplyDelta, Text

LEMMA AppliedType ==
  ASSUME NEW code \in Text, NEW deltas \in Seq(Delta)
  PROVE  Applied(code, deltas) \in Text
<1> DEFINE n == Len(deltas)
           G == {k \in 0..n : Applied(code, SubSeq(deltas, 1, k)) \in Text}
<1>1. n \in Nat
  OBVIOUS
<1>2. 0 \in G
  <2>1. Applied(code, <<>>) = code
    <3>1. <<>> \in Seq({1}) /\ 1 \in {1}
      OBVIOUS
    <3> QED BY <3>1, OneDelta
  <2>2. SubSeq(deltas, 1, 0) = <<>>
    BY PrefixSteps
  <2>3. Applied(code, SubSeq(deltas, 1, 0)) \in Text /\ 0 \in 0..n
    <3>1. Applied(code, SubSeq(deltas, 1, 0)) \in Text
      BY <2>1, <2>2, Zenon
    <3> QED BY <1>1, <3>1
  <2> QED BY <2>3, Zenon
<1>3. ASSUME NEW k \in 0..(n - 1), k \in G PROVE k + 1 \in G
  <2> DEFINE old == SubSeq(deltas, 1, k)
             d == deltas[k + 1]
  <2>1. old \in Seq(Delta) /\ d \in Delta /\ SubSeq(deltas, 1, k + 1) = Append(old, d)
    BY PrefixSteps
  <2>2. Applied(code, old) \in Text
    BY <1>3
  <2> HIDE DEF old, d
  <2>3. Applied(code, Append(old, d)) = ApplyDelta(Applied(code, old), d)
    BY <2>1, OneDelta
  <2>4. Applied(code, Append(old, d)) \in Text
    BY <2>1, <2>2, <2>3, DeltaType
  <2>5. Applied(code, SubSeq(deltas, 1, k + 1)) \in Text
    BY <2>1, <2>4, Zenon
  <2>6. k + 1 \in 0..n
    BY <1>1
  <2> QED BY <2>5, <2>6, Zenon
<1> HIDE DEF G
<1>4. \A k \in 0..n : k \in G
  BY <1>1, <1>2, <1>3, Climb
<1>5. n \in G
  BY <1>1, <1>4
<1> QED BY <1>5, PrefixSteps DEF G

LEMMA EventFacts ==
  ASSUME NEW e \in Event
  PROVE  \/ e.type = "snapshot" /\ e.code \in Text
         \/ e.type = "batch" /\ e.deltas \in Seq(Delta)
BY DEF Event

\* What the log yields with one event more.
LEMMA OneEvent ==
  ASSUME NEW code, NEW events \in Seq(Event), NEW e \in Event
  PROVE  CodeAt(code, Append(events, e)) =
           IF e.type = "snapshot" THEN e.code ELSE Applied(CodeAt(code, events), e.deltas)
<1>1. CASE e.type = "snapshot"
  BY <1>1, SnapshotNext
<1>2. CASE e.type = "batch"
  BY <1>2, BatchNext DEF ApplyBatch, Applied
<1> QED BY <1>1, <1>2, EventFacts

LEMMA CodeType ==
  ASSUME NEW code \in Text, NEW events \in Seq(Event)
  PROVE  CodeAt(code, events) \in Text
<1> DEFINE n == Len(events)
           G == {k \in 0..n : CodeAt(code, SubSeq(events, 1, k)) \in Text}
<1>1. n \in Nat
  OBVIOUS
<1>2. 0 \in G
  <2>1. CodeAt(code, <<>>) = code
    BY NoEvents
  <2>2. SubSeq(events, 1, 0) = <<>>
    BY PrefixSteps
  <2>3. CodeAt(code, SubSeq(events, 1, 0)) \in Text
    BY <2>1, <2>2, Zenon
  <2>4. 0 \in 0..n
    BY <1>1
  <2> QED BY <2>3, <2>4, Zenon
<1>3. ASSUME NEW k \in 0..(n - 1), k \in G PROVE k + 1 \in G
  <2> DEFINE old == SubSeq(events, 1, k)
             e == events[k + 1]
  <2>1. /\ old \in Seq(Event) /\ e \in Event
        /\ SubSeq(events, 1, k + 1) = Append(old, e)
    BY PrefixSteps
  <2>2. CodeAt(code, old) \in Text
    BY <1>3
  <2> HIDE DEF old, e
  <2>3. CodeAt(code, Append(old, e)) =
           IF e.type = "snapshot" THEN e.code ELSE Applied(CodeAt(code, old), e.deltas)
    BY <2>1, OneEvent
  <2>4. CodeAt(code, Append(old, e)) \in Text
    BY <2>1, <2>2, <2>3, EventFacts, AppliedType
  <2>5. CodeAt(code, SubSeq(events, 1, k + 1)) \in Text
    BY <2>1, <2>4, Zenon
  <2>6. k + 1 \in 0..n
    BY <1>1
  <2> QED BY <2>5, <2>6, Zenon
<1> HIDE DEF G
<1>4. \A k \in 0..n : k \in G
  BY <1>1, <1>2, <1>3, Climb
<1>5. n \in G
  BY <1>1, <1>4
<1> QED BY <1>5, PrefixSteps DEF G

\* To have stored the first event is to have read on from it.
LEMMA FirstEvent ==
  ASSUME NEW code, NEW e \in Event, NEW rest \in Seq(Event)
  PROVE  CodeAt(CodeAt(code, <<e>>), rest) = CodeAt(code, <<e>> \o rest)
<1> DEFINE n == Len(rest)
           mid == CodeAt(code, <<e>>)
           G == {k \in 0..n :
                   CodeAt(mid, SubSeq(rest, 1, k)) = CodeAt(code, <<e>> \o SubSeq(rest, 1, k))}
<1>1. n \in Nat /\ <<e>> \in Seq(Event)
  OBVIOUS
<1>2. 0 \in G
  <2>1. CodeAt(mid, <<>>) = mid
    BY NoEvents
  <2>2. SubSeq(rest, 1, 0) = <<>> /\ <<e>> \o <<>> = <<e>>
    BY <1>1, PrefixSteps, ConcatEmptySeq
  <2>3. CodeAt(mid, SubSeq(rest, 1, 0)) = CodeAt(code, <<e>> \o SubSeq(rest, 1, 0))
    BY <2>1, <2>2, Zenon
  <2>4. 0 \in 0..n
    BY <1>1
  <2> QED BY <2>3, <2>4, Zenon
<1>3. ASSUME NEW k \in 0..(n - 1), k \in G PROVE k + 1 \in G
  <2> DEFINE old == SubSeq(rest, 1, k)
             x == rest[k + 1]
  <2>1. old \in Seq(Event) /\ x \in Event /\ SubSeq(rest, 1, k + 1) = Append(old, x)
    BY PrefixSteps
  <2>2. CodeAt(mid, old) = CodeAt(code, <<e>> \o old)
    BY <1>3
  <2> HIDE DEF old, x, mid
  <2>3. <<e>> \o old \in Seq(Event) /\ <<e>> \o Append(old, x) = Append(<<e>> \o old, x)
    <3>1. <<e>> \o old \in Seq(Event)
      BY <1>1, <2>1, ConcatProperties
    <3>2. <<x>> \in Seq(Event) /\ Append(old, x) = old \o <<x>>
      BY <2>1, AppendIsConcat
    <3>3. (<<e>> \o old) \o <<x>> = <<e>> \o (old \o <<x>>)
      BY <1>1, <2>1, <3>2, ConcatAssociative
    <3>4. Append(<<e>> \o old, x) = (<<e>> \o old) \o <<x>>
      BY <2>1, <3>1, AppendIsConcat
    <3> QED BY <3>1, <3>2, <3>3, <3>4
  <2>4. CodeAt(mid, Append(old, x)) =
           IF x.type = "snapshot" THEN x.code ELSE Applied(CodeAt(mid, old), x.deltas)
    BY <2>1, OneEvent
  <2>5. CodeAt(code, Append(<<e>> \o old, x)) =
           IF x.type = "snapshot" THEN x.code ELSE Applied(CodeAt(code, <<e>> \o old), x.deltas)
    BY <2>1, <2>3, OneEvent
  <2>6. CodeAt(mid, Append(old, x)) = CodeAt(code, <<e>> \o Append(old, x))
    BY <2>2, <2>3, <2>4, <2>5
  <2>7. k + 1 \in 0..n
    BY <1>1
  <2>8. CodeAt(mid, SubSeq(rest, 1, k + 1)) = CodeAt(code, <<e>> \o SubSeq(rest, 1, k + 1))
    BY <2>1, <2>6, Zenon
  <2> QED BY <2>7, <2>8, Zenon
<1> HIDE DEF G
<1>4. \A k \in 0..n : k \in G
  BY <1>1, <1>2, <1>3, Climb
<1>5. n \in G /\ SubSeq(rest, 1, n) = rest
  BY <1>1, <1>4, PrefixSteps
<1> QED BY <1>5 DEF G

-----------------------------------------------------------------------------
(* Two cursors *)

\* The elements m + 1 to n of a sequence, k in all.
LEMMA Slice ==
  ASSUME NEW S, NEW s, NEW m \in Nat, NEW n \in Nat, NEW k \in Nat, n = m + k,
         \A i \in (m + 1)..n : s[i] \in S
  PROVE  /\ SubSeq(s, m + 1, n) \in Seq(S) /\ Len(SubSeq(s, m + 1, n)) = k
         /\ \A i \in 1..k : SubSeq(s, m + 1, n)[i] = s[m + i]
<1> DEFINE a == m + 1
           t == SubSeq(s, a, n)
<1>1. a \in Int /\ n \in Int /\ \A i \in a..n : s[i] \in S
  OBVIOUS
<1>2. n - a + 1 = k /\ (a <= n <=> k # 0) /\ \A i \in 1..k : a + i - 1 = m + i
  OBVIOUS
<1> HIDE DEF a
<1>3. /\ t \in Seq(S) /\ Len(t) = IF a <= n THEN n - a + 1 ELSE 0
      /\ \A i \in 1..(n - a + 1) : t[i] = s[a + i - 1]
  BY <1>1, SubSeqProperties
<1> HIDE DEF t
<1>4. t \in Seq(S) /\ Len(t) = k /\ \A i \in 1..k : t[i] = s[m + i]
  BY <1>2, <1>3
<1> QED BY <1>4 DEF t, a

LEMMA Rest ==
  ASSUME NEW S, NEW s \in Seq(S), NEW n \in 0..Len(s)
  PROVE  /\ SubSeq(s, n + 1, Len(s)) \in Seq(S) /\ Len(SubSeq(s, n + 1, Len(s))) = Len(s) - n
         /\ \A i \in 1..(Len(s) - n) : SubSeq(s, n + 1, Len(s))[i] = s[n + i]
<1> DEFINE part == SubSeq(s, n + 1, Len(s))
           k == Len(s) - n
<1>1. Len(s) \in Nat /\ n \in Nat /\ k \in Nat /\ Len(s) = n + k
  BY LenProperties
<1>2. \A i \in (n + 1)..Len(s) : s[i] \in S
  BY <1>1, ElementOfSeq
<1>3. part \in Seq(S) /\ Len(part) = k /\ \A i \in 1..k : part[i] = s[n + i]
  <2> HIDE DEF k, part
  <2> QED BY <1>1, <1>2, Slice DEF part
<1> QED BY <1>3

\* Concatenation under a name, so that its grouping is left to these lemmas.
Cat(s, t) == s \o t

LEMMA CatTwo ==
  ASSUME NEW S, NEW s \in Seq(S), NEW t \in Seq(S)
  PROVE  Cat(s, t) \in Seq(S)
BY ConcatProperties DEF Cat

LEMMA CatThree ==
  ASSUME NEW S, NEW x \in Seq(S), NEW a \in Seq(S), NEW b \in Seq(S)
  PROVE  Cat(Cat(x, a), b) = Cat(x, Cat(a, b))
BY ConcatAssociative, SMTT(30) DEF Cat

LEMMA CatFour ==
  ASSUME NEW S, NEW x \in Seq(S), NEW a \in Seq(S), NEW b \in Seq(S), NEW c \in Seq(S)
  PROVE  Cat(Cat(Cat(x, a), b), c) = Cat(x, Cat(a, Cat(b, c)))
<1>1. Cat(x, a) \in Seq(S) /\ Cat(b, c) \in Seq(S)
  BY CatTwo
<1>2. Cat(Cat(Cat(x, a), b), c) = Cat(Cat(x, a), Cat(b, c))
  BY <1>1, CatThree
<1>3. Cat(Cat(x, a), Cat(b, c)) = Cat(x, Cat(a, Cat(b, c)))
  BY <1>1, CatThree
<1> QED BY <1>2, <1>3

LEMMA Taken ==
  ASSUME NEW S, NEW s \in Seq(S), NEW rest \in Seq(S), NEW n \in 0..Len(s)
  PROVE  /\ SubSeq(s \o rest, 1, n) = SubSeq(s, 1, n)
         /\ SubSeq(s \o rest, n + 1, Len(s \o rest)) = SubSeq(s, n + 1, Len(s)) \o rest
<1> DEFINE all == s \o rest
<1>1. /\ all \in Seq(S) /\ Len(all) = Len(s) + Len(rest) /\ Len(s) \in Nat /\ Len(rest) \in Nat
      /\ \A i \in 1..(Len(s) + Len(rest)) : all[i] = IF i <= Len(s) THEN s[i] ELSE rest[i - Len(s)]
  BY ConcatProperties, LenProperties
<1>2. /\ \A i \in 1..Len(s) : s[i] \in S
      /\ \A i \in 1..Len(all) : all[i] \in S
  BY <1>1, ElementOfSeq
<1> HIDE DEF all
<1>3. SubSeq(all, 1, n) = SubSeq(s, 1, n)
  <2>1. \A i \in 1..n : all[i] \in S /\ s[i] \in S /\ all[i] = s[i]
    BY <1>1, <1>2
  <2>2. /\ SubSeq(all, 1, n) \in Seq(S) /\ Len(SubSeq(all, 1, n)) = n
        /\ \A i \in 1..n : SubSeq(all, 1, n)[i] = all[i]
    <3>1. /\ 1 \in Int /\ n \in Int /\ n - 1 + 1 = n /\ (1 > n => n = 0)
          /\ \A i \in 1..n : 1 + i - 1 = i
      BY <1>1
    <3> QED BY <2>1, <3>1, SubSeqProperties
  <2>3. /\ SubSeq(s, 1, n) \in Seq(S) /\ Len(SubSeq(s, 1, n)) = n
        /\ \A i \in 1..n : SubSeq(s, 1, n)[i] = s[i]
    <3>1. /\ 1 \in Int /\ n \in Int /\ n - 1 + 1 = n /\ (1 > n => n = 0)
          /\ \A i \in 1..n : 1 + i - 1 = i
      BY <1>1
    <3> QED BY <2>1, <3>1, SubSeqProperties
  <2> QED BY <2>1, <2>2, <2>3, SeqEqual
<1>4. SubSeq(all, n + 1, Len(all)) = SubSeq(s, n + 1, Len(s)) \o rest
  <2> DEFINE left == SubSeq(all, n + 1, Len(all))
             part == SubSeq(s, n + 1, Len(s))
             right == part \o rest
             k == Len(s) - n
  <2>1. k \in Nat /\ Len(all) - n = k + Len(rest) /\ n \in Nat
    BY <1>1
  <2>2. /\ left \in Seq(S) /\ Len(left) = k + Len(rest)
        /\ \A i \in 1..(k + Len(rest)) : left[i] = all[n + i]
    <3>1. Len(all) \in Nat /\ k + Len(rest) \in Nat /\ Len(all) = n + (k + Len(rest))
      BY <1>1, <2>1
    <3>2. \A i \in (n + 1)..Len(all) : all[i] \in S
      BY <1>1, <1>2
    <3> HIDE DEF k, left
    <3> QED BY <2>1, <3>1, <3>2, Slice DEF left
  <2>3. /\ part \in Seq(S) /\ Len(part) = k
        /\ \A i \in 1..k : part[i] = s[n + i]
    BY Rest
  <2> HIDE DEF left, part
  <2>4. /\ right \in Seq(S) /\ Len(right) = k + Len(rest)
        /\ \A i \in 1..(k + Len(rest)) : right[i] = IF i <= k THEN part[i] ELSE rest[i - k]
    <3> HIDE DEF k
    <3>1. /\ right \in Seq(S) /\ Len(right) = Len(part) + Len(rest)
          /\ \A i \in 1..(Len(part) + Len(rest)) :
               right[i] = IF i <= Len(part) THEN part[i] ELSE rest[i - Len(part)]
      BY <2>3, ConcatProperties
    <3> QED BY <2>3, <3>1
  <2> HIDE DEF right
  <2>5. ASSUME NEW i \in 1..(k + Len(rest)) PROVE left[i] = right[i]
    <3>1. n + i \in 1..(Len(s) + Len(rest)) /\ (n + i <= Len(s) <=> i <= k)
      BY <1>1, <2>1
    <3>2. (n + i) - Len(s) = i - k /\ (i <= k => i \in 1..k)
      BY <1>1, <2>1
    <3> HIDE DEF k
    <3>3. left[i] = IF i <= k THEN s[n + i] ELSE rest[i - k]
      BY <1>1, <2>2, <3>1, <3>2
    <3> QED BY <2>3, <2>4, <3>2, <3>3
  <2>6. left = right
    <3> HIDE DEF k
    <3> QED BY <2>2, <2>4, <2>5, SeqEqual
  <2> QED BY <2>6 DEF left, right, part
<1> QED BY <1>3, <1>4 DEF all

\* A cut of a cut.
LEMMA CutTwice ==
  ASSUME NEW S, NEW s \in Seq(S), NEW p \in 0..Len(s), NEW a \in Nat \ {0}, NEW b \in 0..p
  PROVE  SubSeq(SubSeq(s, 1, p), a, b) = SubSeq(s, a, b)
<1>1. Len(s) \in Nat /\ p \in Nat /\ b \in Nat /\ \A i \in 1..Len(s) : s[i] \in S
  BY LenProperties, ElementOfSeq
<1>2. CASE b < a
  BY <1>1, <1>2, SubSeqEmpty
<1>3. CASE a <= b
  <2>1. a \in 1..Len(s) /\ b \in 1..Len(s) /\ 1 \in 1..Len(s) /\ p \in 1..Len(s)
    BY <1>1, <1>3
  <2>2. a \in 1..(p - 1 + 1) /\ b \in 1..(p - 1 + 1) /\ 1 + a - 1 = a /\ 1 + b - 1 = b
    BY <1>1, <1>3
  <2> QED BY <2>1, <2>2, SubSeqOfSubSeq
<1> QED BY <1>1, <1>2, <1>3

LEMMA ChangeFacts ==
  ASSUME edits \in 0..MaxEdits, edits < MaxEdits, MaxEdits \in Nat,
         NEW text \in Text, NEW c \in Change(text)
  PROVE  /\ c \in Delta /\ c.at \in 0..Len(text) /\ c.len \in 0..1 /\ c.at + c.len <= Len(text)
         /\ ~(c.len = 0 /\ c.text = <<>>)
<1>1. Len(text) \in Nat
  BY DEF Text
<1>2. edits + 1 \in 1..MaxEdits
  OBVIOUS
<1>3. <<edits + 1>> \in Text /\ <<>> \in Text /\ <<edits + 1>> # <<>>
  BY <1>2 DEF Text
<1>4. CASE \E at \in 0..Len(text) : c = Insertion(at, <<edits + 1>>)
  <2>1. PICK at \in 0..Len(text) : c = Insertion(at, <<edits + 1>>)
    BY <1>4
  <2>2. c = [at |-> at, len |-> 0, text |-> <<edits + 1>>]
    BY <2>1 DEF Insertion
  <2>3. at \in Nat /\ at + 0 <= Len(text)
    BY <1>1
  <2> QED BY <1>3, <2>2, <2>3 DEF Delta
<1>5. CASE \E at \in 0..(Len(text) - 1) : c = [at |-> at, len |-> 1, text |-> <<>>]
  <2>1. PICK at \in 0..(Len(text) - 1) : c = [at |-> at, len |-> 1, text |-> <<>>]
    BY <1>5
  <2>2. at \in Nat /\ at + 1 <= Len(text) /\ at \in 0..Len(text)
    BY <1>1
  <2> QED BY <1>3, <2>1, <2>2 DEF Delta
<1> QED BY <1>4, <1>5 DEF Change

\* A change with one cursor.
LEMMA OneCursor ==
  ASSUME NEW text \in Text, NEW c \in Delta, c.at + c.len <= Len(text)
  PROVE  Edited(text, c, NoChange(text)) = ApplyDelta(text, c)
<1> DEFINE X == Upto(text, c.at) \o c.text
           Z == From(text, c.at + c.len)
           d == NoChange(text)
<1>1. Len(text) \in Nat /\ Len(text) + 0 = Len(text)
  BY DEF Text
<1>2. d.at = Len(text) /\ d.len = 0 /\ d.text = <<>>
  BY DEF NoChange, Insertion
<1>3. c.at \in Nat /\ c.at + c.len \in Nat /\ c.text \in Text
  BY DEF Delta
<1>4. Z \in Text /\ X \in Text
  BY <1>3, Slices, ConcatProperties DEF Text
<1>5. From(text, Len(text)) = <<>>
  BY <1>1, SubSeqEmpty DEF From
<1>6. Z = SubSeq(text, c.at + c.len + 1, Len(text))
  BY DEF From
<1>7. ApplyDelta(text, c) = X \o Z
  BY DEF ApplyDelta
<1>8. Edited(text, c, d) = ((X \o Z) \o <<>>) \o <<>>
  BY <1>1, <1>2, <1>5, <1>6 DEF Edited
<1>9. X \o Z \in Text
  BY <1>4, ConcatProperties DEF Text
<1> HIDE DEF X, Z, d
<1>10. ((X \o Z) \o <<>>) \o <<>> = X \o Z
  BY <1>9, ConcatEmptySeq DEF Text
<1> QED BY <1>7, <1>8, <1>10 DEF d

\* Applied from the back, two changes of one text do not move each other.
LEMMA TwoCursors ==
  ASSUME NEW text \in Text, NEW c \in Delta, NEW d \in Delta,
         c.at + c.len < d.at, d.at <= Len(text)
  PROVE  Edited(text, c, d) = ApplyDelta(ApplyDelta(text, d), c)
<1> DEFINE p == d.at
           q == c.at + c.len
           P == SubSeq(text, 1, p)
           T == From(text, d.at + d.len)
           R == d.text \o T
           M == SubSeq(text, q + 1, p)
           A == SubSeq(text, 1, c.at)
           mid == ApplyDelta(text, d)
<1>1. /\ p \in Nat /\ q \in Nat /\ c.at \in Nat /\ c.at <= q /\ q < p /\ d.at + d.len \in Nat
      /\ c.text \in Text /\ d.text \in Text /\ p <= Len(text) /\ Len(text) \in Nat
  BY DEF Delta, Text
<1>2. /\ P = Upto(text, p) /\ A = Upto(text, c.at)
      /\ P \in Text /\ A \in Text /\ T \in Text /\ R \in Text
  <2>1. P = Upto(text, p) /\ A = Upto(text, c.at)
    BY <1>1 DEF Upto
  <2>2. P \in Text /\ A \in Text /\ T \in Text
    BY <1>1, <2>1, Slices
  <2>3. R \in Text
    BY <1>1, <2>2, ConcatProperties DEF Text
  <2> QED BY <2>1, <2>2, <2>3
<1>3. Len(P) = p
  <2>1. \A i \in 1..p : text[i] \in 1..MaxEdits
    <3>1. text \in Seq(1..MaxEdits) /\ \A i \in 1..p : i \in 1..Len(text)
      BY <1>1 DEF Text
    <3> QED BY <3>1, ElementOfSeq
  <2>2. Len(SubSeq(text, 1, p)) = IF 1 <= p THEN p - 1 + 1 ELSE 0
    BY <1>1, <2>1, SubSeqProperties
  <2> QED BY <1>1, <2>2
<1>4. mid = (P \o d.text) \o T
  BY <1>2 DEF ApplyDelta
<1>5. mid = P \o R
  <2>1. P \in Seq(1..MaxEdits) /\ d.text \in Seq(1..MaxEdits) /\ T \in Seq(1..MaxEdits)
    BY <1>1, <1>2 DEF Text
  <2> HIDE DEF P, T, mid
  <2>2. (P \o d.text) \o T = P \o (d.text \o T)
    <3>1. Cat(Cat(P, d.text), T) = Cat(P, Cat(d.text, T))
      BY <2>1, CatThree
    <3> QED BY <3>1 DEF Cat
  <2> QED BY <1>4, <2>2
<1> HIDE DEF mid
<1>6. Len(mid) \in Nat /\ Len(mid) >= p /\ mid \in Text
  <2>1. Len(mid) = Len(P) + Len(R) /\ mid \in Text /\ Len(R) \in Nat
    <3>1. P \in Seq(1..MaxEdits) /\ R \in Seq(1..MaxEdits)
      BY <1>2 DEF Text
    <3> HIDE DEF P, R
    <3>2. P \o R \in Seq(1..MaxEdits) /\ Len(P \o R) = Len(P) + Len(R)
      BY <3>1, ConcatProperties, Zenon
    <3>3. Len(R) \in Nat
      BY <3>1, LenProperties, Zenon
    <3>4. mid \in Text /\ Len(mid) = Len(P) + Len(R)
      BY <1>5, <3>2, Zenon DEF Text
    <3> QED BY <3>3, <3>4, Zenon
  <2> HIDE DEF P, R
  <2> QED BY <1>1, <1>3, <2>1
<1> HIDE DEF R
<1>7. Upto(mid, c.at) = A
  <2>1. Upto(mid, c.at) = SubSeq(mid, 1, c.at)
    BY <1>1, <1>6 DEF Upto
  <2>2. c.at \in 0..Len(P)
    BY <1>1, <1>3
  <2>3. SubSeq(P \o R, 1, c.at) = SubSeq(P, 1, c.at)
    BY <1>2, <2>2, Taken DEF Text
  <2>4. SubSeq(SubSeq(text, 1, p), 1, c.at) = SubSeq(text, 1, c.at)
    <3>1. p \in 0..Len(text) /\ 1 \in Nat \ {0} /\ c.at \in 0..p
      BY <1>1
    <3> QED BY <3>1, CutTwice DEF Text
  <2> QED BY <1>5, <2>1, <2>3, <2>4
<1>8. From(mid, q) = M \o R
  <2>1. From(mid, q) = SubSeq(P \o R, q + 1, Len(P \o R))
    BY <1>5 DEF From
  <2>2. q \in 0..Len(P)
    BY <1>1, <1>3
  <2>3. SubSeq(P \o R, q + 1, Len(P \o R)) = SubSeq(P, q + 1, Len(P)) \o R
    BY <1>2, <2>2, Taken DEF Text
  <2>4. SubSeq(SubSeq(text, 1, p), q + 1, p) = SubSeq(text, q + 1, p)
    <3>1. p \in 0..Len(text) /\ q + 1 \in Nat \ {0} /\ p \in 0..p
      BY <1>1
    <3> QED BY <3>1, CutTwice DEF Text
  <2> QED BY <1>3, <2>1, <2>3, <2>4
<1>9. ApplyDelta(mid, c) = (A \o c.text) \o (M \o R)
  BY <1>7, <1>8 DEF ApplyDelta
<1>10. Edited(text, c, d) = (((A \o c.text) \o M) \o d.text) \o T
  BY <1>2 DEF Edited
<1>11. A \o c.text \in Text /\ M \in Text
  <2>1. A \o c.text \in Text
    BY <1>1, <1>2, ConcatProperties DEF Text
  <2>2. M \in Text
    <3>1. \A i \in (q + 1)..p : text[i] \in 1..MaxEdits
      <4>1. text \in Seq(1..MaxEdits) /\ \A i \in (q + 1)..p : i \in 1..Len(text)
        BY <1>1 DEF Text
      <4> QED BY <4>1, ElementOfSeq
    <3>2. q + 1 \in Int /\ p \in Int
      BY <1>1
    <3> QED BY <3>1, <3>2, SubSeqProperties DEF Text
  <2> QED BY <2>1, <2>2
<1> DEFINE X == A \o c.text
           Y == d.text
<1>12. /\ X \in Seq(1..MaxEdits) /\ M \in Seq(1..MaxEdits)
       /\ Y \in Seq(1..MaxEdits) /\ T \in Seq(1..MaxEdits)
  BY <1>1, <1>2, <1>11 DEF Text
<1> HIDE DEF X, M, Y, T
<1>13. ((X \o M) \o Y) \o T = X \o (M \o (Y \o T))
  <2>1. Cat(Cat(Cat(X, M), Y), T) = Cat(X, Cat(M, Cat(Y, T)))
    BY <1>12, CatFour
  <2> QED BY <2>1 DEF Cat
<1> QED BY <1>9, <1>10, <1>13 DEF X, Y, R, mid

\* The deltas that are recorded of a change lead to the text it led to.
LEMMA RecordedIsEdited ==
  ASSUME edits \in 0..MaxEdits, edits < MaxEdits, MaxEdits \in Nat,
         NEW text \in Text, NEW cd \in TwoChanges(text), NEW code, NEW deltas \in Seq(Delta),
         Applied(code, deltas) = text
  PROVE  /\ Recorded(cd[1], cd[2]) \in Seq(Delta)
         /\ Applied(code, deltas \o Recorded(cd[1], cd[2])) = Edited(text, cd[1], cd[2])
         /\ Edited(text, cd[1], cd[2]) \in Text
<1> DEFINE c == cd[1]
           d == cd[2]
<1>1. /\ c \in Change(text) /\ d \in Change(text) \cup {NoChange(text)}
      /\ c.at + c.len < d.at \/ d = NoChange(text)
  BY DEF TwoChanges
<1> HIDE DEF c, d
<1>2. c \in Delta /\ c.at + c.len <= Len(text)
  BY <1>1, ChangeFacts
<1>3. CASE d = NoChange(text)
  <2>1. Recorded(c, d) = <<c>>
    BY <1>3 DEF Recorded, NoChange, Insertion
  <2>2. <<c>> \in Seq(Delta) /\ deltas \o <<c>> = Append(deltas, c)
    BY <1>2, AppendIsConcat
  <2>3. Applied(code, Append(deltas, c)) = ApplyDelta(text, c)
    BY <1>2, OneDelta
  <2>4. Edited(text, c, d) = ApplyDelta(text, c) /\ ApplyDelta(text, c) \in Text
    BY <1>2, <1>3, OneCursor, DeltaType
  <2> QED BY <2>1, <2>2, <2>3, <2>4 DEF c, d
<1>4. CASE d # NoChange(text)
  <2>1. d \in Change(text) /\ c.at + c.len < d.at
    BY <1>1, <1>4
  <2>2. d \in Delta /\ d.at <= Len(text) /\ ~(d.len = 0 /\ d.text = <<>>)
    BY <2>1, ChangeFacts
  <2>3. Recorded(c, d) = <<d, c>> /\ <<d, c>> \in Seq(Delta)
    BY <1>2, <2>2 DEF Recorded
  <2>4. deltas \o <<d, c>> = Append(Append(deltas, d), c) /\ Append(deltas, d) \in Seq(Delta)
    <3>1. <<d>> \in Seq(Delta) /\ <<c>> \in Seq(Delta) /\ <<d, c>> = <<d>> \o <<c>>
      BY <1>2, <2>2
    <3>2. Append(deltas, d) = deltas \o <<d>> /\ Append(deltas, d) \in Seq(Delta)
      BY <2>2, AppendIsConcat, AppendProperties
    <3>3. Append(Append(deltas, d), c) = Append(deltas, d) \o <<c>>
      BY <1>2, <3>2, AppendIsConcat
    <3>4. (deltas \o <<d>>) \o <<c>> = deltas \o (<<d>> \o <<c>>)
      BY <3>1, ConcatAssociative
    <3> QED BY <3>1, <3>2, <3>3, <3>4
  <2>5. Applied(code, Append(deltas, d)) = ApplyDelta(text, d)
    BY <2>2, OneDelta
  <2>6. Applied(code, Append(Append(deltas, d), c)) = ApplyDelta(ApplyDelta(text, d), c)
    <3> DEFINE more == Append(deltas, d)
    <3>1. more \in Seq(Delta) /\ Applied(code, more) = ApplyDelta(text, d)
      BY <2>4, <2>5
    <3> HIDE DEF more
    <3>2. Applied(code, Append(more, c)) = ApplyDelta(Applied(code, more), c)
      BY <1>2, <3>1, OneDelta
    <3> QED BY <3>1, <3>2 DEF more
  <2>7. Edited(text, c, d) = ApplyDelta(ApplyDelta(text, d), c)
    BY <1>2, <2>1, <2>2, TwoCursors
  <2>8. ApplyDelta(ApplyDelta(text, d), c) \in Text
    BY <1>2, <2>2, DeltaType
  <2> QED BY <2>3, <2>4, <2>6, <2>7, <2>8 DEF c, d
<1> QED BY <1>3, <1>4

-----------------------------------------------------------------------------
(* Types of the editors *)

AskStates == {"armed", "late", "asked", "answered", "done", "failed"}

LEMMA EditorBounds ==
  MaxMounts \in Nat /\ MaxEdits \in Nat /\ MaxLen \in Nat /\ MaxFlight \in Nat /\ MaxFaults \in Nat
BY EditorAssumption

LEMMA EmptyText == <<>> \in Text /\ <<>> \in Seq(Delta)
BY DEF Text

LEMMA PaneKinds ==
  /\ Closed.pc = "closed" /\ Fresh \in OpenPane
  /\ \A s \in {Closed} \cup OpenPane : s.pc # "closed" <=> s \in OpenPane
<1>1. Closed.pc = "closed"
  BY DEF Closed
<1>2. Fresh \in OpenPane
  BY EmptyText DEF Fresh, OpenPane
<1>3. \A s \in OpenPane : s.pc # "closed"
  BY DEF OpenPane
<1> QED BY <1>1, <1>2, <1>3

\* What an open editor may become.
LEMMA PaneFields ==
  ASSUME NEW s \in OpenPane
  PROVE  /\ s.pc \in {"fresh", "synced"} /\ s.text \in Text /\ s.buffer \in Seq(Delta)
         /\ s.ask \in AskStates /\ s.answer \in Text
BY DEF OpenPane, AskStates

EditedPane(s, code, more) == [s EXCEPT !.text = code, !.buffer = @ \o more]

LEMMA PaneEdited ==
  ASSUME NEW s \in OpenPane, NEW code \in Text, NEW more \in Seq(Delta)
  PROVE  LET r == EditedPane(s, code, more) IN
           r \in OpenPane /\ r.pc = s.pc /\ r.text = code /\ r.buffer = s.buffer \o more
<1> DEFINE all == s.buffer \o more
           r == [s EXCEPT !.text = code, !.buffer = all]
<1>1. all \in Seq(Delta)
  BY PaneFields, ConcatProperties
<1> HIDE DEF all
<1>2. r \in OpenPane /\ r.pc = s.pc /\ r.text = code /\ r.buffer = all
  BY <1>1 DEF OpenPane
<1> QED BY <1>2 DEF all, EditedPane

LEMMA PaneAsked ==
  ASSUME NEW s \in OpenPane, NEW ask \in AskStates, NEW answer \in Text
  PROVE  /\ LET r == [s EXCEPT !.ask = ask] IN
              r \in OpenPane /\ r.pc = s.pc /\ r.text = s.text /\ r.buffer = s.buffer
         /\ LET r == [s EXCEPT !.ask = ask, !.answer = answer] IN
              r \in OpenPane /\ r.pc = s.pc /\ r.text = s.text /\ r.buffer = s.buffer
         /\ Asks(s) \in OpenPane /\ Asks(s).pc = s.pc /\ Asks(s).text = s.text
         /\ Asks(s).buffer = s.buffer
<1>1. \A a \in AskStates : LET r == [s EXCEPT !.ask = a] IN
              r \in OpenPane /\ r.pc = s.pc /\ r.text = s.text /\ r.buffer = s.buffer
  BY DEF OpenPane, AskStates
<1>2. LET r == [s EXCEPT !.ask = ask, !.answer = answer] IN
              r \in OpenPane /\ r.pc = s.pc /\ r.text = s.text /\ r.buffer = s.buffer
  BY DEF OpenPane, AskStates
<1>3. "asked" \in AskStates
  BY DEF AskStates
<1>4. /\ Asks(s) \in OpenPane /\ Asks(s).pc = s.pc /\ Asks(s).text = s.text
      /\ Asks(s).buffer = s.buffer
  BY <1>1, <1>3 DEF Asks
<1> QED BY <1>1, <1>2, <1>4

LEMMA PaneSynced ==
  ASSUME NEW s \in OpenPane, NEW code \in Text, NEW more \in Seq(Delta)
  PROVE  LET r == SyncedPane(s, code, more) IN
           r \in OpenPane /\ r.pc = "synced" /\ r.text = code /\ r.buffer = s.buffer \o more
<1> DEFINE all == s.buffer \o more
           r == [s EXCEPT !.pc = "synced", !.text = code, !.buffer = all]
<1>1. all \in Seq(Delta)
  BY PaneFields, ConcatProperties
<1> HIDE DEF all
<1>2. r \in OpenPane /\ r.pc = "synced" /\ r.text = code /\ r.buffer = all
  BY <1>1 DEF OpenPane
<1> QED BY <1>2 DEF all, SyncedPane

LEMMA PaneFlushed ==
  ASSUME NEW s \in OpenPane
  PROVE  LET r == [s EXCEPT !.buffer = <<>>] IN
           r \in OpenPane /\ r.pc = s.pc /\ r.text = s.text /\ r.buffer = <<>>
BY EmptyText DEF OpenPane

PanesTyped == pane \in [Panes -> {Closed} \cup OpenPane]

LEMMA OpenIsOpen ==
  ASSUME PanesTyped, NEW t \in Panes
  PROVE  /\ IsOpen(t) <=> pane[t] \in OpenPane
         /\ t \in Synced <=> IsOpen(t) /\ pane[t].pc = "synced"
         /\ pane[t].pc = "fresh" => IsOpen(t)
<1>1. pane[t] \in {Closed} \cup OpenPane
  BY DEF PanesTyped
<1> QED BY <1>1, PaneKinds DEF IsOpen, Synced

LEMMA ChangedPanes ==
  ASSUME PanesTyped, NEW S, NEW code, NEW more,
         (\A t \in S : t \in Panes /\ IsOpen(t)) /\ code \in Text /\ more \in Seq(Delta)
  PROVE  /\ Changed(S, code, more) \in [Panes -> {Closed} \cup OpenPane]
         /\ \A t \in Panes \ S : Changed(S, code, more)[t] = pane[t]
         /\ \A t \in S : LET r == Changed(S, code, more)[t] IN
              /\ r \in OpenPane /\ r.pc = pane[t].pc /\ r.text = code
              /\ r.buffer = pane[t].buffer \o more
<1>1. \A t \in Panes \ S : Changed(S, code, more)[t] = pane[t] /\ pane[t] \in {Closed} \cup OpenPane
  BY DEF Changed, PanesTyped
<1>2. ASSUME NEW t \in S
      PROVE  LET r == Changed(S, code, more)[t] IN
               /\ r \in OpenPane /\ r.pc = pane[t].pc /\ r.text = code
               /\ r.buffer = pane[t].buffer \o more
  <2>1. Changed(S, code, more)[t] = EditedPane(pane[t], code, more)
    BY DEF Changed, EditedPane
  <2>2. pane[t] \in OpenPane
    BY OpenIsOpen
  <2>3. LET r == EditedPane(pane[t], code, more) IN
          /\ r \in OpenPane /\ r.pc = pane[t].pc /\ r.text = code
          /\ r.buffer = pane[t].buffer \o more
    BY <2>2, PaneEdited, Zenon
  <2> QED BY <2>1, <2>3, Zenon
<1>3. Changed(S, code, more) \in [Panes -> {Closed} \cup OpenPane]
  <2>1. \A t \in Panes : Changed(S, code, more)[t] \in {Closed} \cup OpenPane
    BY <1>1, <1>2
  <2>2. DOMAIN Changed(S, code, more) = Panes
        /\ Changed(S, code, more) = [t \in Panes |-> Changed(S, code, more)[t]]
    BY DEF Changed
  <2> QED BY <2>1, <2>2
<1> QED BY <1>1, <1>2, <1>3

LEMMA PaneSet ==
  ASSUME PanesTyped, NEW t \in Panes, NEW s \in {Closed} \cup OpenPane
  PROVE  /\ [pane EXCEPT ![t] = s] \in [Panes -> {Closed} \cup OpenPane]
         /\ [pane EXCEPT ![t] = s][t] = s
         /\ \A u \in Panes \ {t} : [pane EXCEPT ![t] = s][u] = pane[u]
BY DEF PanesTyped

LEMMA Shared ==
  ASSUME PanesTyped, NEW t \in Panes, IsOpen(t)
  PROVE  t \in Shown(t) /\ \A u \in Shown(t) : u \in Panes /\ IsOpen(u)
BY OpenIsOpen DEF Shown, Synced

-----------------------------------------------------------------------------
(* Posts *)

LEMMA Removed ==
  ASSUME NEW s \in Seq(Event), NEW i \in DOMAIN s
  PROVE  /\ RemoveAt(s, i) \in Seq(Event) /\ Len(RemoveAt(s, i)) = Len(s) - 1
         /\ i = 1 => s = <<s[1]>> \o RemoveAt(s, 1)
<1>1. /\ Len(s) \in Nat /\ DOMAIN s = 1..Len(s) /\ i \in 1..Len(s)
      /\ \A k \in 1..Len(s) : s[k] \in Event
  BY ElementOfSeq, LenProperties
<1> DEFINE A == SubSeq(s, 0 + 1, i - 1)
           B == SubSeq(s, i + 1, Len(s))
<1>2. A \in Seq(Event) /\ Len(A) = i - 1
  <2>1. /\ 0 \in Nat /\ i - 1 \in Nat /\ i - 1 = 0 + (i - 1)
        /\ \A k \in (0 + 1)..(i - 1) : s[k] \in Event
    BY <1>1
  <2> HIDE DEF A
  <2> QED BY <2>1, Slice DEF A
<1>3. /\ B \in Seq(Event) /\ Len(B) = Len(s) - i
      /\ \A k \in 1..(Len(s) - i) : B[k] = s[i + k]
  <2>1. i \in 0..Len(s)
    BY <1>1
  <2> QED BY <2>1, Rest
<1>4. RemoveAt(s, i) = A \o B
  BY DEF RemoveAt
<1> HIDE DEF A, B
<1>5. A \o B \in Seq(Event) /\ Len(A \o B) = Len(A) + Len(B)
  BY <1>2, <1>3, ConcatProperties
<1>6. RemoveAt(s, i) \in Seq(Event) /\ Len(RemoveAt(s, i)) = Len(s) - 1
  <2>1. Len(A) + Len(B) = Len(s) - 1
    BY <1>1, <1>2, <1>3
  <2> QED BY <1>4, <1>5, <2>1, Zenon
<1>7. ASSUME i = 1 PROVE s = <<s[1]>> \o RemoveAt(s, 1)
  <2>1. s[1] \in Event /\ <<s[1]>> \in Seq(Event) /\ Len(<<s[1]>>) = 1 /\ <<s[1]>>[1] = s[1]
    BY <1>1, <1>7
  <2>2. A = <<>>
    BY <1>2, <1>7, EmptySeq
  <2>3. A \o B = B
    BY <1>3, <2>2, ConcatEmptySeq
  <2> DEFINE one == <<s[1]>>
  <2>4. one \in Seq(Event) /\ Len(one) = 1 /\ one[1] = s[1]
    BY <2>1
  <2> HIDE DEF one
  <2>5. /\ one \o B \in Seq(Event) /\ Len(one \o B) = 1 + Len(B)
        /\ \A k \in 1..(1 + Len(B)) : (one \o B)[k] = IF k <= 1 THEN one[k] ELSE B[k - 1]
    <3>1. /\ one \o B \in Seq(Event) /\ Len(one \o B) = Len(one) + Len(B)
          /\ \A k \in 1..(Len(one) + Len(B)) :
               (one \o B)[k] = IF k <= Len(one) THEN one[k] ELSE B[k - Len(one)]
      BY <1>3, <2>4, ConcatProperties
    <3>2. Len(one) = 1
      BY <2>4
    <3> QED BY <3>1, <3>2, Zenon
  <2> DEFINE t == one \o B
  <2>6. /\ t \in Seq(Event) /\ Len(t) = Len(s)
        /\ \A k \in 1..Len(s) : t[k] = s[k]
    <3>1. 1 + Len(B) = Len(s)
      BY <1>1, <1>3, <1>7
    <3>2. ASSUME NEW k \in 1..Len(s) PROVE t[k] = s[k]
      <4>1. t[k] = IF k <= 1 THEN one[k] ELSE B[k - 1]
        BY <2>5, <3>1, <3>2
      <4>2. CASE k <= 1
        <5>1. k = 1
          BY <1>1, <4>2
        <5> QED BY <2>4, <4>1, <4>2, <5>1
      <4>3. CASE ~(k <= 1)
        <5>1. k - 1 \in 1..(Len(s) - i) /\ i + (k - 1) = k
          BY <1>1, <1>7, <4>3
        <5> HIDE DEF t
        <5> QED BY <1>3, <4>1, <4>3, <5>1
      <4> QED BY <4>2, <4>3
    <3> QED BY <2>5, <3>1, <3>2
  <2> HIDE DEF t
  <2>7. s = t
    BY <2>6, SeqEqual
  <2>8. t = one \o RemoveAt(s, 1)
    BY <1>4, <1>7, <2>3, Zenon DEF t
  <2> QED BY <2>7, <2>8, Zenon DEF one
<1> QED BY <1>6, <1>7

-----------------------------------------------------------------------------
(* Types *)

LEMMA EditorInitType == EditorInit => EditorTypeOK
<1> SUFFICES ASSUME EditorInit PROVE EditorTypeOK
  OBVIOUS
<1>1. pane \in [Panes -> {Closed} \cup OpenPane]
  BY DEF EditorInit
<1>2. posts \in Seq(Event) /\ Len(posts) = 0
  BY DEF EditorInit
<1>3. doc \in Text /\ replay \in Text
  BY EmptyText DEF EditorInit
<1>4. /\ mounts \in 0..MaxMounts /\ edits \in 0..MaxEdits /\ faults \in 0..MaxFaults
      /\ Len(posts) <= MaxFlight
  BY <1>2, EditorBounds DEF EditorInit
<1>5. gap \in BOOLEAN
  BY DEF EditorInit
<1> QED BY <1>1, <1>2, <1>3, <1>4, <1>5, Zenon DEF EditorTypeOK

\* A change of an open editor, and what is recorded of it.
LEMMA EditTypes ==
  ASSUME EditorTypeOK, NEW t \in Panes, Edit(t)
  PROVE  \E cd \in TwoChanges(pane[t].text) :
           LET code == Edited(pane[t].text, cd[1], cd[2])
               more == Recorded(cd[1], cd[2])
           IN  /\ code \in Text /\ more \in Seq(Delta)
               /\ pane' = Changed(Shown(t), code, more)
               /\ doc' = IF t \in Synced THEN code ELSE doc
               /\ \A base, deltas : deltas \in Seq(Delta) /\ Applied(base, deltas) = pane[t].text
                    => Applied(base, deltas \o more) = code
<1> DEFINE text == pane[t].text
<1>1. PanesTyped /\ IsOpen(t) /\ edits \in 0..MaxEdits /\ edits < MaxEdits /\ MaxEdits \in Nat
  BY EditorBounds DEF Edit, EditorTypeOK, PanesTyped
<1>2. text \in Text
  BY <1>1, OpenIsOpen, PaneFields
<1>3. PICK cd \in TwoChanges(text) :
        /\ pane' = Changed(Shown(t), Edited(text, cd[1], cd[2]), Recorded(cd[1], cd[2]))
        /\ doc' = IF t \in Synced THEN Edited(text, cd[1], cd[2]) ELSE doc
  BY DEF Edit
<1> HIDE DEF text
<1>4. ASSUME NEW base, NEW deltas \in Seq(Delta), Applied(base, deltas) = text
      PROVE  /\ Recorded(cd[1], cd[2]) \in Seq(Delta)
             /\ Applied(base, deltas \o Recorded(cd[1], cd[2])) = Edited(text, cd[1], cd[2])
             /\ Edited(text, cd[1], cd[2]) \in Text
  BY <1>1, <1>2, <1>4, RecordedIsEdited
<1>5. Applied(text, <<>>) = text /\ <<>> \in Seq(Delta)
  <2>1. <<>> \in Seq({1}) /\ 1 \in {1}
    OBVIOUS
  <2>2. Applied(text, <<>>) = text
    BY <2>1, OneDelta
  <2> QED BY <2>2, EmptyText
<1>6. Recorded(cd[1], cd[2]) \in Seq(Delta) /\ Edited(text, cd[1], cd[2]) \in Text
  BY <1>4, <1>5, Zenon
<1> QED BY <1>3, <1>4, <1>6, Zenon DEF text

LEMMA SyncTypes ==
  ASSUME EditorTypeOK, NEW t \in Panes, Sync(t)
  PROVE  \E code \in Text, here \in Seq(Delta), there \in Seq(Delta), s \in OpenPane :
           /\ doc' = code
           /\ pane' = [Changed(Synced, code, here) EXCEPT ![t] = s]
           /\ s.pc = "synced" /\ s.text = code /\ s.buffer = pane[t].buffer \o there
           /\ doc = <<>> => code = pane[t].text /\ there = <<>>
<1>1. PanesTyped /\ pane[t].pc = "fresh" /\ pane[t] \in OpenPane /\ doc \in Text
  BY OpenIsOpen DEF EditorTypeOK, PanesTyped, Sync
<1> DEFINE own == pane[t].text
<1>2. own \in Text /\ Len(own) \in Nat /\ Len(doc) \in Nat
  <2>1. own \in Text
    BY <1>1, PaneFields
  <2> QED BY <1>1, <2>1 DEF Text
<1> DEFINE Joined(first) == IF first THEN own \o doc ELSE doc \o own
           There(first) == IF doc = <<>> THEN <<>>
                           ELSE <<Insertion(IF first THEN Len(own) ELSE 0, doc)>>
           Herein(first) == IF own = <<>> THEN <<>>
                            ELSE <<Insertion(IF first THEN 0 ELSE Len(doc), own)>>
<1>3. PICK first \in BOOLEAN :
        /\ doc' = Joined(first)
        /\ pane' = [Changed(Synced, Joined(first), Herein(first)) EXCEPT ![t] =
                      Asks(SyncedPane(@, Joined(first), There(first)))]
  BY DEF Sync
<1>4. Joined(first) \in Text
  <2>1. own \o doc \in Text /\ doc \o own \in Text
    <3>1. own \in Seq(1..MaxEdits) /\ doc \in Seq(1..MaxEdits)
      BY <1>1, <1>2 DEF Text
    <3> QED BY <3>1, ConcatProperties DEF Text
  <2> QED BY <2>1
<1>5. There(first) \in Seq(Delta) /\ Herein(first) \in Seq(Delta)
  <2>1. \A at \in Nat, x \in Text : Insertion(at, x) \in Delta
    BY DEF Insertion, Delta
  <2>2. \A at \in Nat, x \in Text : <<Insertion(at, x)>> \in Seq(Delta)
    BY <2>1
  <2> QED BY <1>1, <1>2, <2>2, EmptyText
<1>6. doc = <<>> => Joined(first) = own /\ There(first) = <<>>
  <2>1. own \o <<>> = own /\ <<>> \o own = own
    BY <1>2, ConcatEmptySeq DEF Text
  <2> QED BY <2>1
<1> DEFINE code == Joined(first)
           there == There(first)
           here == Herein(first)
           joined == Changed(Synced, code, here)
           r == SyncedPane(pane[t], code, there)
           s == Asks(r)
<1>7. joined[t] = pane[t]
  BY <1>1 DEF Changed, Synced
<1>8. pane' = [Changed(Synced, code, here) EXCEPT ![t] = s]
  <2> HIDE DEF Joined, There, Herein
  <2>1. pane' = [joined EXCEPT ![t] = Asks(SyncedPane(@, code, there))]
    BY <1>3, Zenon
  <2> HIDE DEF joined, Joined, There, Herein
  <2>2. pane' = [joined EXCEPT ![t] = s]
    BY <1>7, <2>1
  <2> QED BY <2>2 DEF joined
<1>9. r \in OpenPane /\ r.pc = "synced" /\ r.text = code /\ r.buffer = pane[t].buffer \o there
  <2>1. code \in Text /\ there \in Seq(Delta)
    BY <1>4, <1>5
  <2> HIDE DEF Joined, There
  <2> QED BY <1>1, <2>1, PaneSynced, Zenon
<1> HIDE DEF r
<1>10. s \in OpenPane /\ s.pc = r.pc /\ s.text = r.text /\ s.buffer = r.buffer
  <2>1. "asked" \in AskStates /\ <<>> \in Text
    BY EmptyText DEF AskStates
  <2> QED BY <1>9, <2>1, PaneAsked
<1> HIDE DEF s, Joined, There, Herein, code, there, here
<1>11. code \in Text /\ here \in Seq(Delta) /\ there \in Seq(Delta) /\ doc' = code
  BY <1>3, <1>4, <1>5 DEF code, here, there
<1>12. s.pc = "synced" /\ s.text = code /\ s.buffer = pane[t].buffer \o there
  BY <1>9, <1>10
<1>13. doc = <<>> => code = own /\ there = <<>>
  BY <1>6 DEF code, there
<1> QED BY <1>8, <1>10, <1>11, <1>12, <1>13, Zenon

LEMMA RestoreTypes ==
  ASSUME EditorTypeOK, NEW t \in Panes, Restore(t)
  PROVE  /\ pane' \in [Panes -> {Closed} \cup OpenPane] /\ doc' \in Text
         /\ pane'[t] \in OpenPane /\ pane'[t].pc = pane[t].pc
         /\ \/ /\ \A u \in Panes \ {t} : pane'[u] = pane[u]
               /\ doc' = doc /\ pane'[t].text = pane[t].text /\ pane'[t].buffer = pane[t].buffer
            \/ /\ pane[t].text = <<>> /\ pane[t].answer \in Text /\ pane'[t].text = pane[t].answer
               /\ pane'[t].buffer = pane[t].buffer \o <<Insertion(0, pane[t].answer)>>
               /\ \A u \in Panes \ Shown(t) : pane'[u] = pane[u]
               /\ doc' = IF t \in Synced THEN pane[t].answer ELSE doc
<1> DEFINE code == pane[t].answer
           restored == pane[t].text = <<>> /\ code # <<>>
           more == <<Insertion(0, code)>>
           now == IF restored THEN Changed(Shown(t), code, more) ELSE pane
           s == [now[t] EXCEPT !.ask = "done", !.answer = <<>>]
<1>1. PanesTyped /\ IsOpen(t) /\ pane[t] \in OpenPane /\ doc \in Text
  BY OpenIsOpen DEF EditorTypeOK, PanesTyped, Restore
<1>2. code \in Text /\ more \in Seq(Delta)
  <2>1. code \in Text
    BY <1>1, PaneFields
  <2>2. \A x \in Text : Insertion(0, x) \in Delta
    BY DEF Insertion, Delta
  <2> QED BY <2>1, <2>2
<1> HIDE DEF code, more
<1>3. /\ now \in [Panes -> {Closed} \cup OpenPane]
      /\ now[t] \in OpenPane /\ now[t].pc = pane[t].pc
      /\ restored => /\ now[t].text = code /\ now[t].buffer = pane[t].buffer \o more
                     /\ \A u \in Panes \ Shown(t) : now[u] = pane[u]
      /\ ~restored => now = pane
  <2>1. t \in Shown(t) /\ \A u \in Shown(t) : u \in Panes /\ IsOpen(u)
    BY <1>1, Shared
  <2> DEFINE c == Changed(Shown(t), code, more)
  <2>2. /\ c \in [Panes -> {Closed} \cup OpenPane]
        /\ \A u \in Panes \ Shown(t) : c[u] = pane[u]
        /\ c[t] \in OpenPane /\ c[t].pc = pane[t].pc /\ c[t].text = code
        /\ c[t].buffer = pane[t].buffer \o more
    <3>1. PICK S : S = Shown(t)
      OBVIOUS
    <3>2. PanesTyped /\ \A u \in S : u \in Panes /\ IsOpen(u)
      BY <1>1, <2>1, <3>1
    <3>3. /\ Changed(S, code, more) \in [Panes -> {Closed} \cup OpenPane]
          /\ \A u \in Panes \ S : Changed(S, code, more)[u] = pane[u]
          /\ \A u \in S : LET x == Changed(S, code, more)[u] IN
               /\ x \in OpenPane /\ x.pc = pane[u].pc /\ x.text = code
               /\ x.buffer = pane[u].buffer \o more
      BY <1>2, <3>2, ChangedPanes
    <3> QED BY <2>1, <3>1, <3>3, Zenon
  <2> HIDE DEF c
  <2>3. now = IF restored THEN c ELSE pane
    BY DEF c
  <2> HIDE DEF now, restored
  <2> QED BY <1>1, <2>2, <2>3 DEF PanesTyped
<1>4. pane' = [now EXCEPT ![t] = s] /\ doc' = IF restored /\ t \in Synced THEN code ELSE doc
  BY DEF Restore, code, more
<1> HIDE DEF now
<1>5. s \in OpenPane /\ s.pc = now[t].pc /\ s.text = now[t].text /\ s.buffer = now[t].buffer
  <2>1. "done" \in AskStates /\ <<>> \in Text
    BY EmptyText DEF AskStates
  <2> QED BY <1>3, <2>1, PaneAsked, ZenonT(40)
<1> HIDE DEF s
<1>6. /\ pane' \in [Panes -> {Closed} \cup OpenPane] /\ pane'[t] = s
      /\ \A u \in Panes \ {t} : pane'[u] = now[u]
  BY <1>3, <1>4, <1>5
<1>7. doc' \in Text
  BY <1>1, <1>2, <1>4
<1>8. t \in Shown(t)
  BY <1>1, Shared
<1>9. CASE restored
  BY <1>2, <1>3, <1>4, <1>5, <1>6, <1>7, <1>8, <1>9 DEF code, more
<1>10. CASE ~restored
  <2>1. now = pane /\ doc' = doc
    BY <1>3, <1>4, <1>10
  <2> QED BY <1>3, <1>5, <1>6, <1>7, <2>1
<1> QED BY <1>9, <1>10

\* The timer, a reconnection and the fetch leave text and buffer alone.
LEMMA AsksOne ==
  ASSUME EditorTypeOK, NEW t \in Panes, IsOpen(t),
         Timer(t) \/ Reconnect(t) \/ Fetch(t) \/ FetchFails(t)
  PROVE  \E s \in OpenPane :
           /\ pane' = [pane EXCEPT ![t] = s]
           /\ s.pc = pane[t].pc /\ s.text = pane[t].text /\ s.buffer = pane[t].buffer
<1> DEFINE p == pane[t]
<1>1. p \in OpenPane /\ replay \in Text
  BY OpenIsOpen DEF EditorTypeOK, PanesTyped
<1>2. <<>> \in Text /\ {"late", "asked", "answered", "failed"} \subseteq AskStates
  BY EmptyText DEF AskStates
<1> HIDE DEF p
<1>3. CASE Timer(t)
  <2> DEFINE late == [p EXCEPT !.ask = "late"]
  <2>1. pane' = [pane EXCEPT ![t] = Asks(late)]
    BY <1>3 DEF Timer, p
  <2>2. late \in OpenPane /\ late.pc = p.pc /\ late.text = p.text /\ late.buffer = p.buffer
    BY <1>1, <1>2, PaneAsked
  <2> HIDE DEF late
  <2>3. /\ Asks(late) \in OpenPane /\ Asks(late).pc = p.pc /\ Asks(late).text = p.text
        /\ Asks(late).buffer = p.buffer
    BY <1>2, <2>2, PaneAsked
  <2> QED BY <2>1, <2>3, Zenon DEF p
<1>4. CASE Reconnect(t)
  <2>1. pane' = [pane EXCEPT ![t] = Asks(p)]
    BY <1>4 DEF Reconnect, p
  <2>2. /\ Asks(p) \in OpenPane /\ Asks(p).pc = p.pc
        /\ Asks(p).text = p.text /\ Asks(p).buffer = p.buffer
    BY <1>1, <1>2, PaneAsked
  <2> QED BY <2>1, <2>2, Zenon DEF p
<1>5. CASE Fetch(t)
  <2> DEFINE s == [p EXCEPT !.ask = "answered", !.answer = replay]
  <2>1. pane' = [pane EXCEPT ![t] = s]
    BY <1>1, <1>5 DEF Fetch, p, EditorTypeOK
  <2>2. s \in OpenPane /\ s.pc = p.pc /\ s.text = p.text /\ s.buffer = p.buffer
    BY <1>1, <1>2, PaneAsked, ZenonT(40)
  <2> HIDE DEF s
  <2> QED BY <2>1, <2>2, Zenon DEF p
<1>6. CASE FetchFails(t)
  <2> DEFINE s == [p EXCEPT !.ask = "failed"]
  <2>1. pane' = [pane EXCEPT ![t] = s]
    BY <1>6 DEF FetchFails, p
  <2>2. s \in OpenPane /\ s.pc = p.pc /\ s.text = p.text /\ s.buffer = p.buffer
    BY <1>1, <1>2, PaneAsked
  <2> HIDE DEF s
  <2> QED BY <2>1, <2>2, Zenon DEF p
<1> QED BY <1>3, <1>4, <1>5, <1>6

LEMMA Flushed ==
  ASSUME EditorTypeOK, NEW t \in Panes, Flush(t)
  PROVE  LET batch == [type |-> "batch", deltas |-> pane[t].buffer] IN
           /\ batch \in Event /\ posts' = Append(posts, batch)
           /\ posts' \in Seq(Event) /\ Len(posts') <= MaxFlight
<1> DEFINE batch == [type |-> "batch", deltas |-> pane[t].buffer]
<1>1. pane[t] \in OpenPane /\ posts \in Seq(Event) /\ Len(posts) \in Nat /\ Len(posts) < MaxFlight
  BY OpenIsOpen DEF EditorTypeOK, PanesTyped, Flush
<1>2. batch \in Event
  BY <1>1, PaneFields DEF Event
<1>3. posts' = Append(posts, batch)
  BY DEF Flush
<1> HIDE DEF batch
<1>4. Append(posts, batch) \in Seq(Event) /\ Len(Append(posts, batch)) = Len(posts) + 1
  BY <1>1, <1>2, AppendProperties
<1>5. Len(posts) + 1 <= MaxFlight
  BY <1>1, EditorBounds
<1> QED BY <1>2, <1>3, <1>4, <1>5 DEF batch

LEMMA Snapped ==
  ASSUME EditorTypeOK, NEW t \in Panes, Snapshot(t)
  PROVE  LET event == [type |-> "snapshot", code |-> pane[t].text] IN
           /\ event \in Event /\ posts' = Append(posts, event)
           /\ posts' \in Seq(Event) /\ Len(posts') <= MaxFlight
<1> DEFINE event == [type |-> "snapshot", code |-> pane[t].text]
<1>1. pane[t] \in OpenPane /\ posts \in Seq(Event) /\ Len(posts) \in Nat /\ Len(posts) < MaxFlight
  BY OpenIsOpen DEF EditorTypeOK, PanesTyped, Snapshot
<1>2. event \in Event
  BY <1>1, PaneFields DEF Event
<1>3. posts' = Append(posts, event)
  BY DEF Snapshot
<1> HIDE DEF event
<1>4. Append(posts, event) \in Seq(Event) /\ Len(Append(posts, event)) = Len(posts) + 1
  BY <1>1, <1>2, AppendProperties
<1>5. Len(posts) + 1 <= MaxFlight
  BY <1>1, EditorBounds
<1> QED BY <1>2, <1>3, <1>4, <1>5 DEF event

\* What an action leaves of the types that it does not touch.
TypesButPane ==
  /\ replay \in Text /\ posts \in Seq(Event) /\ Len(posts) <= MaxFlight /\ gap \in BOOLEAN
  /\ mounts \in 0..MaxMounts /\ edits \in 0..MaxEdits /\ faults \in 0..MaxFaults

LEMMA EditorStepType == EditorTypeOK /\ [EditorNext]_editorVars => EditorTypeOK'
<1> SUFFICES ASSUME EditorTypeOK, [EditorNext]_editorVars PROVE EditorTypeOK'
  OBVIOUS
<1>1. /\ doc \in Text /\ pane \in [Panes -> {Closed} \cup OpenPane] /\ PanesTyped /\ TypesButPane
      /\ replay \in Text /\ posts \in Seq(Event) /\ gap \in BOOLEAN /\ Len(posts) \in Nat
  BY DEF EditorTypeOK, TypesButPane, PanesTyped
<1>2. ASSUME doc' \in Text, pane' \in [Panes -> {Closed} \cup OpenPane], TypesButPane'
      PROVE  EditorTypeOK'
  BY <1>2 DEF EditorTypeOK, TypesButPane
<1>3. ASSUME NEW t \in Panes, Mount(t) PROVE EditorTypeOK'
  <2>1. pane' \in [Panes -> {Closed} \cup OpenPane]
    BY <1>1, <1>3, PaneSet, PaneKinds DEF Mount
  <2>2. TypesButPane' /\ doc' \in Text
    BY <1>1, <1>3, EditorBounds DEF Mount, TypesButPane
  <2> QED BY <1>2, <2>1, <2>2
<1>4. ASSUME NEW t \in Panes, Unmount(t) PROVE EditorTypeOK'
  <2>1. pane' \in [Panes -> {Closed} \cup OpenPane]
    BY <1>1, <1>4, PaneSet DEF Unmount
  <2>2. TypesButPane' /\ doc' \in Text
    BY <1>1, <1>4 DEF Unmount, TypesButPane, counts
  <2> QED BY <1>2, <2>1, <2>2
<1>5. ASSUME NEW t \in Panes, Edit(t) PROVE EditorTypeOK'
  <2>1. PICK code \in Text, more \in Seq(Delta) :
          pane' = Changed(Shown(t), code, more) /\ doc' = IF t \in Synced THEN code ELSE doc
    BY <1>5, EditTypes, Zenon
  <2>2. IsOpen(t)
    BY <1>5 DEF Edit
  <2>3. pane' \in [Panes -> {Closed} \cup OpenPane]
    <3>1. PICK S : S = Shown(t)
      OBVIOUS
    <3>2. \A u \in S : u \in Panes /\ IsOpen(u)
      BY <1>1, <2>2, <3>1, Shared
    <3>3. Changed(S, code, more) \in [Panes -> {Closed} \cup OpenPane]
      BY <1>1, <3>2, ChangedPanes
    <3> QED BY <2>1, <3>1, <3>3, Zenon
  <2>4. TypesButPane'
    BY <1>1, <1>5, EditorBounds DEF Edit, TypesButPane
  <2> QED BY <1>1, <1>2, <2>1, <2>3, <2>4
<1>6. ASSUME NEW t \in Panes, Sync(t) PROVE EditorTypeOK'
  <2>1. PICK code \in Text, here \in Seq(Delta), there \in Seq(Delta), s \in OpenPane :
          /\ doc' = code
          /\ pane' = [Changed(Synced, code, here) EXCEPT ![t] = s]
          /\ s.pc = "synced" /\ s.text = code /\ s.buffer = pane[t].buffer \o there
          /\ doc = <<>> => code = pane[t].text /\ there = <<>>
    BY <1>6, SyncTypes
  <2>2. pane' \in [Panes -> {Closed} \cup OpenPane]
    <3>1. PICK S : S = Synced
      OBVIOUS
    <3>2. \A u \in S : u \in Panes /\ IsOpen(u)
      BY <3>1 DEF Synced, IsOpen
    <3>3. Changed(S, code, here) \in [Panes -> {Closed} \cup OpenPane]
      BY <1>1, <3>2, ChangedPanes
    <3> QED BY <2>1, <3>1, <3>3
  <2>3. TypesButPane'
    BY <1>1, <1>6 DEF Sync, TypesButPane, counts
  <2> QED BY <1>2, <2>1, <2>2, <2>3
<1>7. ASSUME NEW t \in Panes, IsOpen(t), NEW s \in {Closed} \cup OpenPane,
             pane' = [pane EXCEPT ![t] = s], doc' = doc, TypesButPane'
      PROVE  EditorTypeOK'
  <2>1. pane' \in [Panes -> {Closed} \cup OpenPane]
    BY <1>1, <1>7, PaneSet
  <2> QED BY <1>1, <1>2, <1>7, <2>1
<1>8. \A t \in Panes : IsOpen(t) => pane[t] \in OpenPane
  BY <1>1, OpenIsOpen
<1>9. ASSUME NEW t \in Panes, Timer(t) \/ Reconnect(t) \/ Fetch(t) \/ FetchFails(t)
      PROVE  EditorTypeOK'
  <2>1. IsOpen(t) /\ pane[t] \in OpenPane
    BY <1>1, <1>8, <1>9, OpenIsOpen DEF Timer, Reconnect, Fetch, FetchFails
  <2>2. \E s \in OpenPane : pane' = [pane EXCEPT ![t] = s]
    BY <1>1, <1>9, <2>1, AsksOne
  <2>3. TypesButPane' /\ doc' = doc
    BY <1>1, <1>9, EditorBounds DEF Timer, Reconnect, Fetch, FetchFails, Fault, TypesButPane, counts
  <2> QED BY <1>7, <2>1, <2>2, <2>3
<1>10. ASSUME NEW t \in Panes, Restore(t) PROVE EditorTypeOK'
  <2>1. pane' \in [Panes -> {Closed} \cup OpenPane] /\ doc' \in Text
    BY <1>10, RestoreTypes
  <2>2. TypesButPane'
    BY <1>1, <1>10 DEF Restore, TypesButPane, counts
  <2> QED BY <1>2, <2>1, <2>2
<1>11. ASSUME NEW t \in Panes, Flush(t) PROVE EditorTypeOK'
  <2>1. IsOpen(t) /\ pane[t] \in OpenPane /\ Len(posts) < MaxFlight
    BY <1>8, <1>11 DEF Flush
  <2>2. pane' = [pane EXCEPT ![t] = [pane[t] EXCEPT !.buffer = <<>>]]
    BY <1>11 DEF Flush
  <2>3. [pane[t] EXCEPT !.buffer = <<>>] \in OpenPane
    BY <2>1, PaneFlushed
  <2>4. posts' \in Seq(Event) /\ Len(posts') <= MaxFlight
    BY <1>1, <1>11, <2>1, Flushed, EditorBounds, Zenon
  <2>5. TypesButPane' /\ doc' = doc
    BY <1>1, <1>11, <2>4 DEF Flush, TypesButPane, counts
  <2> QED BY <1>7, <2>1, <2>2, <2>3, <2>5
<1>12. ASSUME NEW t \in Panes, Snapshot(t) PROVE EditorTypeOK'
  <2>1. posts' \in Seq(Event) /\ Len(posts') <= MaxFlight
    BY <1>12, Snapped, Zenon
  <2>2. TypesButPane'
    BY <1>1, <1>12, <2>1 DEF Snapshot, TypesButPane, counts
  <2>3. doc' \in Text /\ pane' \in [Panes -> {Closed} \cup OpenPane]
    BY <1>1, <1>12 DEF Snapshot
  <2> QED BY <1>2, <2>2, <2>3
<1>13. ASSUME NEW i \in DOMAIN posts, Deliver(i) \/ Lose(i) PROVE EditorTypeOK'
  <2>1. posts' = RemoveAt(posts, i) /\ doc' = doc /\ pane' = pane
    BY <1>13 DEF Deliver, Lose
  <2>2. RemoveAt(posts, i) \in Seq(Event) /\ Len(RemoveAt(posts, i)) = Len(posts) - 1
    BY <1>1, Removed
  <2>3. posts' \in Seq(Event) /\ Len(posts') <= MaxFlight
    BY <1>1, <2>1, <2>2, EditorBounds DEF TypesButPane
  <2>4. CodeAt(replay, <<posts[i]>>) \in Text
    <3>1. posts[i] \in Event
      BY <1>1
    <3>2. <<posts[i]>> \in Seq(Event)
      BY <3>1
    <3> QED BY <1>1, <3>2, CodeType
  <2>5. replay' \in Text
    BY <1>1, <1>13, <2>4 DEF Deliver, Lose
  <2>6. TypesButPane'
    <3>1. mounts' = mounts /\ edits' = edits /\ faults' \in 0..MaxFaults
      BY <1>1, <1>13, EditorBounds DEF Deliver, Lose, Fault, TypesButPane, counts
    <3>2. gap' \in BOOLEAN
      BY <1>13 DEF Deliver, Lose
    <3> QED BY <1>1, <2>3, <2>5, <3>1, <3>2 DEF TypesButPane
  <2> QED BY <1>1, <1>2, <2>1, <2>6
<1>14. ASSUME ServerRestart PROVE EditorTypeOK'
  <2>1. doc' \in Text
    BY <1>1, <1>14, EmptyText DEF ServerRestart
  <2>2. TypesButPane' /\ pane' = pane
    BY <1>1, <1>14, EditorBounds DEF ServerRestart, Fault, TypesButPane
  <2> QED BY <1>1, <1>2, <2>1, <2>2
<1>15. ASSUME UNCHANGED editorVars PROVE EditorTypeOK'
  BY <1>1, <1>2, <1>15 DEF editorVars, counts, TypesButPane
<1> QED BY <1>3, <1>4, <1>5, <1>6, <1>9, <1>10, <1>11, <1>12, <1>13, <1>14, <1>15 DEF EditorNext

\* What one editor alone shows.
LEMMA SoleChange ==
  ASSUME PanesTyped, NEW t \in Panes, IsOpen(t), NEW code \in Text, NEW more \in Seq(Delta),
         Shown(t) = {t}, pane' = Changed(Shown(t), code, more)
  PROVE  /\ \A u \in Panes \ {t} : pane'[u] = pane[u]
         /\ pane'[t] \in OpenPane /\ pane'[t].pc = pane[t].pc /\ pane'[t].text = code
         /\ pane'[t].buffer = pane[t].buffer \o more
<1>1. PICK S : S = {t}
  OBVIOUS
<1>2. \A u \in S : u \in Panes /\ IsOpen(u)
  BY <1>1
<1>3. /\ \A u \in Panes \ S : Changed(S, code, more)[u] = pane[u]
      /\ \A u \in S : LET x == Changed(S, code, more)[u] IN
           x \in OpenPane /\ x.pc = pane[u].pc /\ x.text = code /\ x.buffer = pane[u].buffer \o more
  BY <1>2, ChangedPanes
<1>4. pane' = Changed(S, code, more)
  BY <1>1
<1> QED BY <1>1, <1>3, <1>4, Zenon

\* A restored text is what its delta makes of an empty one.
LEMMA WholeText ==
  ASSUME NEW code \in Text
  PROVE  ApplyDelta(<<>>, Insertion(0, code)) = code
<1>1. Upto(<<>>, 0) = <<>> /\ From(<<>>, 0) = <<>>
  BY SubSeqEmpty DEF Upto, From
<1>2. Insertion(0, code).at = 0 /\ Insertion(0, code).len = 0 /\ Insertion(0, code).text = code
  BY DEF Insertion
<1>3. ApplyDelta(<<>>, Insertion(0, code)) = (<<>> \o code) \o <<>>
  <2>1. Insertion(0, code).at + Insertion(0, code).len = 0
    BY <1>2
  <2> QED BY <1>1, <1>2, <2>1, Zenon DEF ApplyDelta
<1>4. (<<>> \o code) \o <<>> = code
  BY ConcatEmptySeq DEF Text
<1> QED BY <1>3, <1>4

-----------------------------------------------------------------------------
(* The replay is exact *)

Yield == CodeAt(replay, posts)

\* Until a second editor is mounted one editor is open at most, an editor that has not
\* synced finds an empty document, and what the log and the posts under way yield is
\* what the editor shows but for its buffer.
Exact ==
  ~gap =>
    /\ mounts = 0 => doc = <<>> /\ posts = <<>> /\ replay = <<>> /\ \A t \in Panes : ~IsOpen(t)
    /\ \A t, u \in Panes : IsOpen(t) /\ IsOpen(u) => t = u
    /\ \A t \in Panes : pane[t].pc = "fresh" => doc = <<>>
    /\ \A t \in Panes : IsOpen(t) => Applied(Yield, pane[t].buffer) = pane[t].text

LEMMA SamePane ==
  ASSUME EditorTypeOK, Exact, ~gap, pane' = pane, mounts' = mounts,
         mounts = 0 => doc' = <<>> /\ posts' = <<>> /\ replay' = <<>>,
         doc = <<>> => doc' = <<>>,
         \A t \in Panes : IsOpen(t) => Applied(Yield', pane[t].buffer) = pane[t].text
  PROVE  Exact'
<1>1. \A t \in Panes : IsOpen(t)' <=> IsOpen(t)
  BY DEF IsOpen
<1> QED BY <1>1 DEF Exact

LEMMA SolePane ==
  ASSUME EditorTypeOK, Exact, ~gap, NEW t \in Panes, IsOpen(t), mounts' = mounts,
         pane'[t] \in OpenPane, \A u \in Panes \ {t} : pane'[u] = pane[u],
         pane'[t].pc = "fresh" => doc' = <<>>,
         Applied(Yield', pane'[t].buffer) = pane'[t].text
  PROVE  Exact'
<1>1. \A u \in Panes \ {t} : ~IsOpen(u) /\ ~IsOpen(u)' /\ pane'[u].pc # "fresh"
  BY DEF Exact, IsOpen
<1>2. mounts' # 0
  BY DEF Exact
<1>3. \A u, v \in Panes : IsOpen(u)' /\ IsOpen(v)' => u = t /\ v = t
  BY <1>1
<1>4. \A u \in Panes : pane'[u].pc = "fresh" => u = t
  BY <1>1
<1> QED BY <1>1, <1>2, <1>3, <1>4 DEF Exact

\* With one editor open, what it shows is shown nowhere else.
LEMMA Alone ==
  ASSUME EditorTypeOK, Exact, ~gap, NEW t \in Panes, IsOpen(t)
  PROVE  /\ Shown(t) = {t} /\ (t \notin Synced => Synced = {})
         /\ \A u \in Panes : IsOpen(u) => u = t
<1>1. \A u \in Panes : IsOpen(u) => u = t
  BY DEF Exact
<1>2. \A u \in Synced : u = t
  BY <1>1 DEF Synced, IsOpen
<1> QED BY <1>1, <1>2 DEF Shown

LEMMA NothingApplied == \A code : Applied(code, <<>>) = code
<1> TAKE code
<1>1. <<>> \in Seq({1}) /\ 1 \in {1}
  OBVIOUS
<1> QED BY <1>1, OneDelta

LEMMA InitExact == EditorInit => Exact
<1> SUFFICES ASSUME EditorInit PROVE Exact
  OBVIOUS
<1>1. \A t \in Panes : pane[t] = Closed
  BY DEF EditorInit
<1>2. \A t \in Panes : ~IsOpen(t) /\ pane[t].pc # "fresh"
  BY <1>1 DEF IsOpen, Closed
<1>3. doc = <<>> /\ posts = <<>> /\ replay = <<>>
  BY DEF EditorInit
<1> QED BY <1>2, <1>3 DEF Exact

LEMMA StepExact == EditorTypeOK /\ Exact /\ [EditorNext]_editorVars => Exact'
<1> SUFFICES ASSUME EditorTypeOK, Exact, [EditorNext]_editorVars, ~gap' PROVE Exact'
  BY DEF Exact
<1>1. /\ doc \in Text /\ pane \in [Panes -> {Closed} \cup OpenPane] /\ PanesTyped
      /\ replay \in Text /\ posts \in Seq(Event) /\ gap \in BOOLEAN /\ mounts \in Nat
  BY DEF EditorTypeOK, PanesTyped
<1>2. \A t \in Panes : IsOpen(t) => pane[t] \in OpenPane
  BY <1>1, OpenIsOpen
<1>3. ASSUME NEW t \in Panes, Mount(t) PROVE Exact'
  <2>1. mounts = 0 /\ ~gap /\ mounts' = mounts + 1
    <3>1. gap' = (gap \/ mounts > 0) /\ mounts' = mounts + 1
      BY <1>3 DEF Mount
    <3>2. ~gap /\ ~(mounts > 0)
      BY <3>1, Zenon
    <3>3. mounts = 0
      BY <1>1, <3>2
    <3> QED BY <3>1, <3>2, <3>3
  <2>2. doc = <<>> /\ posts = <<>> /\ replay = <<>> /\ \A u \in Panes : ~IsOpen(u)
    BY <2>1 DEF Exact
  <2>3. /\ pane'[t] = Fresh /\ \A u \in Panes \ {t} : pane'[u] = pane[u]
        /\ doc' = <<>> /\ posts' = <<>> /\ replay' = <<>>
    BY <1>1, <1>3, <2>2 DEF Mount
  <2>4. \A u \in Panes : IsOpen(u)' => u = t
    BY <2>2, <2>3 DEF IsOpen
  <2>5. Fresh.text = <<>> /\ Fresh.buffer = <<>>
    BY DEF Fresh
  <2>6. Yield' = <<>>
    BY <2>3, NoEvents DEF Yield
  <2>7. Applied(Yield', pane'[t].buffer) = pane'[t].text
    BY <2>3, <2>5, <2>6, NothingApplied
  <2>8. mounts' # 0
    BY <2>1
  <2> QED BY <2>3, <2>4, <2>7, <2>8 DEF Exact
<1>4. ASSUME NEW t \in Panes, Unmount(t) PROVE Exact'
  <2>1. ~gap /\ IsOpen(t) /\ mounts' = mounts
    BY <1>1, <1>4 DEF Unmount, counts
  <2>2. /\ pane'[t] = Closed /\ \A u \in Panes \ {t} : pane'[u] = pane[u]
    BY <1>1, <1>4 DEF Unmount
  <2>3. \A u \in Panes : ~IsOpen(u)' /\ pane'[u].pc # "fresh"
    BY <2>1, <2>2, Alone DEF IsOpen, Closed
  <2>4. mounts' # 0
    BY <2>1 DEF Exact
  <2> QED BY <2>3, <2>4 DEF Exact
<1>5. ASSUME NEW t \in Panes, Edit(t) PROVE Exact'
  <2>1. ~gap /\ IsOpen(t) /\ mounts' = mounts /\ pane[t] \in OpenPane /\ Yield' = Yield
    BY <1>2, <1>5 DEF Edit, Yield
  <2>2. PICK cd \in TwoChanges(pane[t].text) :
          LET code == Edited(pane[t].text, cd[1], cd[2])
              more == Recorded(cd[1], cd[2])
          IN  /\ code \in Text /\ more \in Seq(Delta)
              /\ pane' = Changed(Shown(t), code, more)
              /\ doc' = IF t \in Synced THEN code ELSE doc
              /\ \A base, deltas : deltas \in Seq(Delta) /\ Applied(base, deltas) = pane[t].text
                   => Applied(base, deltas \o more) = code
    BY <1>5, EditTypes
  <2> DEFINE code == Edited(pane[t].text, cd[1], cd[2])
             more == Recorded(cd[1], cd[2])
  <2>3. code \in Text /\ more \in Seq(Delta) /\ pane' = Changed(Shown(t), code, more)
        /\ doc' = IF t \in Synced THEN code ELSE doc
    BY <2>2
  <2>4. \A base, deltas : deltas \in Seq(Delta) /\ Applied(base, deltas) = pane[t].text
                   => Applied(base, deltas \o more) = code
    BY <2>2
  <2> HIDE DEF code, more
  <2>5. Shown(t) = {t}
    BY <2>1, Alone
  <2>6. /\ \A u \in Panes \ {t} : pane'[u] = pane[u]
        /\ pane'[t] \in OpenPane /\ pane'[t].pc = pane[t].pc /\ pane'[t].text = code
        /\ pane'[t].buffer = pane[t].buffer \o more
    BY <1>1, <2>1, <2>3, <2>5, SoleChange
  <2>7. Applied(Yield, pane[t].buffer) = pane[t].text /\ (pane[t].pc = "fresh" => doc = <<>>)
    BY <2>1 DEF Exact
  <2>8. Applied(Yield, pane[t].buffer \o more) = code
    BY <2>1, <2>4, <2>7, PaneFields
  <2>9. pane'[t].pc = "fresh" => doc' = <<>>
    BY <2>3, <2>6, <2>7 DEF Synced
  <2>10. Applied(Yield', pane'[t].buffer) = pane'[t].text
    BY <2>1, <2>6, <2>8
  <2> QED BY <2>1, <2>6, <2>9, <2>10, SolePane
<1>6. ASSUME NEW t \in Panes, Sync(t) PROVE Exact'
  <2>1. ~gap /\ pane[t].pc = "fresh" /\ mounts' = mounts /\ Yield' = Yield
    BY <1>6 DEF Sync, Yield, counts
  <2>2. IsOpen(t) /\ pane[t] \in OpenPane
    BY <1>1, <1>2, <2>1, OpenIsOpen
  <2>3. doc = <<>> /\ Applied(Yield, pane[t].buffer) = pane[t].text
    BY <2>1, <2>2 DEF Exact
  <2>4. Synced = {}
    BY <2>1, <2>2, Alone DEF Synced
  <2>5. PICK code \in Text, here \in Seq(Delta), there \in Seq(Delta), s \in OpenPane :
          /\ doc' = code
          /\ pane' = [Changed(Synced, code, here) EXCEPT ![t] = s]
          /\ s.pc = "synced" /\ s.text = code /\ s.buffer = pane[t].buffer \o there
          /\ doc = <<>> => code = pane[t].text /\ there = <<>>
    BY <1>6, SyncTypes
  <2>6. Changed(Synced, code, here) = pane
    BY <1>1, <2>4 DEF Changed
  <2>7. /\ pane'[t] = s /\ \A u \in Panes \ {t} : pane'[u] = pane[u]
    BY <1>1, <2>5, <2>6
  <2>8. s.buffer = pane[t].buffer /\ s.text = pane[t].text
    <3>1. pane[t].buffer \in Seq(Delta)
      BY <2>2, PaneFields
    <3>2. pane[t].buffer \o <<>> = pane[t].buffer
      BY <3>1, ConcatEmptySeq
    <3> QED BY <2>3, <2>5, <3>2
  <2>9. Applied(Yield', pane'[t].buffer) = pane'[t].text /\ pane'[t] \in OpenPane
        /\ pane'[t].pc # "fresh"
    BY <2>1, <2>3, <2>5, <2>7, <2>8
  <2> QED BY <2>1, <2>2, <2>7, <2>9, SolePane
<1>7. ASSUME NEW t \in Panes, Timer(t) \/ Reconnect(t) \/ Fetch(t) \/ FetchFails(t)
      PROVE  Exact'
  <2>1. ~gap /\ mounts' = mounts /\ Yield' = Yield /\ doc' = doc /\ IsOpen(t)
    BY <1>1, <1>7, OpenIsOpen DEF Timer, Reconnect, Fetch, FetchFails, counts, Yield
  <2>2. PICK s \in OpenPane :
           /\ pane' = [pane EXCEPT ![t] = s]
           /\ s.pc = pane[t].pc /\ s.text = pane[t].text /\ s.buffer = pane[t].buffer
    BY <1>7, <2>1, AsksOne
  <2>3. pane'[t] = s /\ \A u \in Panes \ {t} : pane'[u] = pane[u]
    BY <1>1, <2>2
  <2>4. Applied(Yield, pane[t].buffer) = pane[t].text /\ (pane[t].pc = "fresh" => doc = <<>>)
    BY <2>1 DEF Exact
  <2> QED BY <2>1, <2>2, <2>3, <2>4, SolePane
<1>8. ASSUME NEW t \in Panes, Restore(t) PROVE Exact'
  <2>1. ~gap /\ mounts' = mounts /\ Yield' = Yield /\ IsOpen(t) /\ pane[t] \in OpenPane
    BY <1>2, <1>8 DEF Restore, counts, Yield
  <2>2. Applied(Yield, pane[t].buffer) = pane[t].text /\ (pane[t].pc = "fresh" => doc = <<>>)
    BY <2>1 DEF Exact
  <2>3. Shown(t) = {t}
    BY <2>1, Alone
  <2>4. /\ pane'[t] \in OpenPane /\ pane'[t].pc = pane[t].pc
        /\ \/ /\ \A u \in Panes \ {t} : pane'[u] = pane[u]
              /\ doc' = doc /\ pane'[t].text = pane[t].text /\ pane'[t].buffer = pane[t].buffer
           \/ /\ pane[t].text = <<>> /\ pane[t].answer \in Text /\ pane'[t].text = pane[t].answer
              /\ pane'[t].buffer = pane[t].buffer \o <<Insertion(0, pane[t].answer)>>
              /\ \A u \in Panes \ {t} : pane'[u] = pane[u]
              /\ doc' = IF t \in Synced THEN pane[t].answer ELSE doc
    BY <1>8, <2>3, RestoreTypes
  <2>5. CASE /\ \A u \in Panes \ {t} : pane'[u] = pane[u]
             /\ doc' = doc /\ pane'[t].text = pane[t].text /\ pane'[t].buffer = pane[t].buffer
    BY <2>1, <2>2, <2>4, <2>5, SolePane
  <2>6. CASE /\ pane[t].text = <<>> /\ pane[t].answer \in Text /\ pane'[t].text = pane[t].answer
             /\ pane'[t].buffer = pane[t].buffer \o <<Insertion(0, pane[t].answer)>>
             /\ \A u \in Panes \ {t} : pane'[u] = pane[u]
             /\ doc' = IF t \in Synced THEN pane[t].answer ELSE doc
    <3> DEFINE code == pane[t].answer
               d == Insertion(0, code)
    <3>1. code \in Text /\ d \in Delta /\ pane[t].buffer \in Seq(Delta)
      BY <2>1, <2>6, PaneFields DEF Insertion, Delta
    <3> HIDE DEF d
    <3>2. Applied(Yield, Append(pane[t].buffer, d)) = ApplyDelta(<<>>, d)
      BY <2>2, <2>6, <3>1, OneDelta
    <3>3. pane'[t].buffer = Append(pane[t].buffer, d)
      BY <2>6, <3>1, AppendIsConcat DEF d
    <3>4. ApplyDelta(<<>>, d) = code
      BY <3>1, WholeText DEF d
    <3>5. pane'[t].pc = "fresh" => doc' = <<>>
      BY <2>2, <2>4, <2>6 DEF Synced
    <3> QED BY <2>1, <2>4, <2>6, <3>2, <3>3, <3>4, <3>5, SolePane
  <2> QED BY <2>4, <2>5, <2>6
<1>9. ASSUME NEW t \in Panes, Flush(t) PROVE Exact'
  <2>1. /\ ~gap /\ mounts' = mounts /\ IsOpen(t) /\ pane[t] \in OpenPane
        /\ doc' = doc /\ replay' = replay
    BY <1>2, <1>9 DEF Flush, counts
  <2>2. Applied(Yield, pane[t].buffer) = pane[t].text /\ (pane[t].pc = "fresh" => doc = <<>>)
    BY <2>1 DEF Exact
  <2> DEFINE batch == [type |-> "batch", deltas |-> pane[t].buffer]
             s == [pane[t] EXCEPT !.buffer = <<>>]
  <2>3. batch \in Event /\ posts' = Append(posts, batch)
    BY <1>9, Flushed
  <2>4. batch.type = "batch" /\ batch.deltas = pane[t].buffer
    OBVIOUS
  <2>5. s \in OpenPane /\ s.pc = pane[t].pc /\ s.text = pane[t].text /\ s.buffer = <<>>
    BY <2>1, PaneFlushed
  <2>6. pane' = [pane EXCEPT ![t] = s]
    BY <1>9 DEF Flush
  <2> HIDE DEF batch, s
  <2>7. CodeAt(replay, Append(posts, batch)) = Applied(Yield, pane[t].buffer)
    BY <1>1, <2>3, <2>4, OneEvent DEF Yield
  <2>8. Yield' = pane[t].text
    BY <2>1, <2>2, <2>3, <2>7 DEF Yield
  <2>9. pane'[t] = s /\ \A u \in Panes \ {t} : pane'[u] = pane[u]
    BY <1>1, <2>6
  <2>10. Applied(Yield', pane'[t].buffer) = pane'[t].text
    BY <2>5, <2>8, <2>9, NothingApplied
  <2> QED BY <2>1, <2>2, <2>5, <2>9, <2>10, SolePane
<1>10. ASSUME NEW t \in Panes, Snapshot(t) PROVE Exact'
  <2>1. ~gap /\ pane[t].buffer = <<>> /\ mounts' = mounts /\ IsOpen(t) /\ doc' = doc
        /\ replay' = replay /\ pane' = pane /\ pane[t] \in OpenPane
    BY <1>1, <1>2, <1>10 DEF Snapshot, counts
  <2> DEFINE event == [type |-> "snapshot", code |-> pane[t].text]
  <2>2. event \in Event /\ posts' = Append(posts, event)
    BY <1>10, Snapped
  <2>3. event.type = "snapshot" /\ event.code = pane[t].text
    OBVIOUS
  <2> HIDE DEF event
  <2>4. CodeAt(replay, Append(posts, event)) = pane[t].text
    BY <1>1, <2>2, <2>3, OneEvent
  <2>5. Yield' = pane[t].text
    BY <2>1, <2>2, <2>4 DEF Yield
  <2>6. pane[t].pc = "fresh" => doc = <<>>
    BY <2>1 DEF Exact
  <2>7. Applied(Yield', pane'[t].buffer) = pane'[t].text
    BY <2>1, <2>5, NothingApplied
  <2> QED BY <2>1, <2>6, <2>7, SolePane
<1>11. ASSUME NEW i \in DOMAIN posts, Deliver(i) PROVE Exact'
  <2>1. i = 1 /\ ~gap /\ mounts' = mounts /\ doc' = doc /\ pane' = pane
    BY <1>1, <1>11 DEF Deliver, counts
  <2> DEFINE rest == RemoveAt(posts, 1)
  <2>2. posts[1] \in Event /\ posts # <<>>
    BY <1>1, <2>1
  <2>3. rest \in Seq(Event) /\ posts = <<posts[1]>> \o rest
    BY <1>1, <2>1, Removed
  <2>4. posts' = rest /\ replay' = CodeAt(replay, <<posts[1]>>)
    BY <1>11, <2>1 DEF Deliver
  <2> HIDE DEF rest
  <2>5. CodeAt(CodeAt(replay, <<posts[1]>>), rest) = CodeAt(replay, <<posts[1]>> \o rest)
    BY <2>2, <2>3, FirstEvent
  <2>6. Yield' = Yield
    BY <2>3, <2>4, <2>5, Zenon DEF Yield
  <2>7. mounts # 0 /\ \A t \in Panes : IsOpen(t) => Applied(Yield, pane[t].buffer) = pane[t].text
    BY <2>1, <2>2 DEF Exact
  <2> QED BY <2>1, <2>6, <2>7, SamePane
<1>12. ASSUME NEW i \in DOMAIN posts, Lose(i) PROVE Exact'
  BY <1>12 DEF Lose
<1>13. ASSUME ServerRestart PROVE Exact'
  <2>1. ~gap /\ mounts' = mounts /\ pane' = pane /\ posts' = posts /\ replay' = replay
        /\ (doc = <<>> => doc' = <<>>) /\ Yield' = Yield
    BY <1>13 DEF ServerRestart, Yield
  <2>2. /\ mounts = 0 => doc' = <<>> /\ posts' = <<>> /\ replay' = <<>>
        /\ \A t \in Panes : IsOpen(t) => Applied(Yield', pane[t].buffer) = pane[t].text
    BY <2>1 DEF Exact
  <2> QED BY <2>1, <2>2, SamePane
<1>14. ASSUME UNCHANGED editorVars PROVE Exact'
  <2>1. ~gap /\ mounts' = mounts /\ pane' = pane /\ posts' = posts /\ replay' = replay
        /\ doc' = doc /\ Yield' = Yield
    BY <1>14 DEF editorVars, counts, Yield
  <2>2. /\ mounts = 0 => doc' = <<>> /\ posts' = <<>> /\ replay' = <<>>
        /\ \A t \in Panes : IsOpen(t) => Applied(Yield', pane[t].buffer) = pane[t].text
    BY <2>1 DEF Exact
  <2> QED BY <2>1, <2>2, SamePane
<1> QED BY <1>3, <1>4, <1>5, <1>6, <1>7, <1>8, <1>9, <1>10, <1>11, <1>12, <1>13, <1>14
        DEF EditorNext

\* With what is under way and what is buffered, the log yields the text.
LEMMA ExactYields == EditorTypeOK /\ Exact => ExactInOneSitting
<1> SUFFICES ASSUME EditorTypeOK, Exact, ~gap, NEW t \in Panes, IsOpen(t)
             PROVE  CodeAt(replay, Append(posts, [type |-> "batch", deltas |-> pane[t].buffer]))
                      = pane[t].text
  BY DEF ExactInOneSitting
<1> DEFINE batch == [type |-> "batch", deltas |-> pane[t].buffer]
<1>1. posts \in Seq(Event) /\ pane[t] \in OpenPane
  BY OpenIsOpen DEF EditorTypeOK, PanesTyped
<1>2. batch \in Event /\ batch.type = "batch" /\ batch.deltas = pane[t].buffer
  BY <1>1, PaneFields DEF Event
<1>3. Applied(Yield, pane[t].buffer) = pane[t].text
  BY DEF Exact
<1> HIDE DEF batch
<1>4. CodeAt(replay, Append(posts, batch)) = Applied(Yield, pane[t].buffer)
  BY <1>1, <1>2, OneEvent DEF Yield
<1> QED BY <1>3, <1>4 DEF batch

\* The states of the editors, the document, the posts and the log stay well-formed.
THEOREM EditorTypeCorrect == EditorSpec => []EditorTypeOK
<1>1. EditorInit => EditorTypeOK
  BY EditorInitType
<1>2. EditorTypeOK /\ [EditorNext]_editorVars => EditorTypeOK'
  BY EditorStepType
<1> QED BY <1>1, <1>2, PTL DEF EditorSpec

\* In one sitting of one tab code_at() loses nothing: the log, with what is under way
\* and what is buffered, yields the text on the screen (replay.py:25-60).
THEOREM ReplayIsExact == EditorSpec => []ExactInOneSitting
<1>1. EditorInit => EditorTypeOK /\ Exact
  BY EditorInitType, InitExact
<1>2. EditorTypeOK /\ Exact /\ [EditorNext]_editorVars => EditorTypeOK' /\ Exact'
  BY EditorStepType, StepExact
<1>3. EditorTypeOK /\ Exact => ExactInOneSitting
  BY ExactYields
<1> QED BY <1>1, <1>2, <1>3, PTL DEF EditorSpec

-----------------------------------------------------------------------------
(***************************************************************************)
(* Dispatch.  The inductive invariant of TwoVoicesNeedAHole says what the  *)
(* Redis lock guarantees as long as nobody has got round it: a job past    *)
(* SET NX holds the lock, there is at most one such job, its key is there, *)
(* and no job stands between the two calls of a theft.                     *)
(***************************************************************************)

Exclusive ==
  ~hole => /\ \A j \in Jobs : job[j].pc # "set"
           /\ \A j \in Jobs : job[j].pc \in Booted => job[j].held
           /\ \A i, j \in Jobs : job[i].pc \in Booted /\ job[j].pc \in Booted => i = j
           /\ \A j \in Jobs : job[j].pc \in Booted => lock > 0

IInv == TypeOK /\ Exclusive

USE DispatchAssumption DEF DispatchAssumption

-----------------------------------------------------------------------------
(* Types *)

LEMMA JobStates ==
  /\ \A pc \in {"none", "nx", "look", "delete", "set"} : [pc |-> pc] \in JobState
  /\ \A pc \in Booted, held \in BOOLEAN : [pc |-> pc, held |-> held] \in JobState
BY DEF JobState, NoJob, Booted

\* A job past SET NX that moves on within its run keeps its shape.
LEMMA Moves ==
  ASSUME NEW s \in JobState, s.pc \in Booted, NEW pc \in Booted
  PROVE  [s EXCEPT !.pc = pc] \in JobState
BY DEF JobState, NoJob, Booted

LEMMA Ageing ==
  /\ Unset \in Ages /\ 0 \in Ages
  /\ \A age \in Ages : Older(age) \in Ages
BY DEF Ages, Unset, Old, Older

LEMMA TabStates ==
  /\ Away \in TabState /\ [pc |-> "inside"] \in TabState
  /\ \A row \in Row, pc \in {"loaded", "deciding"} : [pc |-> pc, row |-> row] \in TabState
  /\ \A d \in BOOLEAN : [pc |-> "token", dispatch |-> d] \in TabState
BY DEF TabState

\* A request under way knows a row, and stays a request when the row ages or is greeted.
LEMMA Rows ==
  ASSUME NEW s \in TabState, s.pc \in {"loaded", "deciding"}
  PROVE  /\ s.row \in Row
         /\ s = [pc |-> s.pc, row |-> s.row]
BY DEF TabState, Away

LEMMA RowChanges ==
  ASSUME NEW row \in Row
  PROVE  /\ [row EXCEPT !.stamp = Older(@)] \in Row
         /\ \A g \in BOOLEAN : [row EXCEPT !.greeted = g] \in Row
BY Ageing DEF Row

LEMMA Keys == LockTTL \in 0..LockTTL
OBVIOUS

LEMMA Troubles ==
  ASSUME trouble \in 0..MaxTrouble, Trouble
  PROVE  trouble' \in 0..MaxTrouble
BY DEF Trouble

LEMMA InitType == Init => TypeOK
<1> SUFFICES ASSUME Init PROVE TypeOK
  OBVIOUS
<1>1. status \in Statuses /\ stamp \in Ages /\ lock \in 0..LockTTL /\ trouble \in 0..MaxTrouble
  BY Ageing DEF Init, Statuses
<1>2. tab \in [Tabs -> TabState] /\ job \in [Jobs -> JobState]
  BY TabStates, JobStates DEF Init, NoJob
<1> QED BY <1>1, <1>2 DEF Init, TypeOK

LEMMA StepType == TypeOK /\ [Next]_vars => TypeOK'
<1> SUFFICES ASSUME TypeOK, [Next]_vars PROVE TypeOK'
  OBVIOUS
<1> USE DEF TypeOK, sessionVars
<1>1. CASE Tick
  <2>1. stamp' \in Ages /\ lock' \in 0..LockTTL /\ hole' \in BOOLEAN
    BY <1>1, Ageing DEF Tick
  <2>2. tab' \in [Tabs -> TabState]
    <3>1. ASSUME NEW t \in Tabs, tab[t].pc \in {"loaded", "deciding"}
          PROVE  [tab[t] EXCEPT !.row.stamp = Older(@)] \in TabState
      <4>1. /\ tab[t].row \in Row
            /\ tab[t] = [pc |-> tab[t].pc, row |-> tab[t].row]
        BY <3>1, Rows
      <4>2. [tab[t].row EXCEPT !.stamp = Older(@)] \in Row
        BY <4>1, RowChanges
      <4>3. [tab[t] EXCEPT !.row.stamp = Older(@)]
              = [pc |-> tab[t].pc, row |-> [tab[t].row EXCEPT !.stamp = Older(@)]]
        BY <4>1
      <4>4. [pc |-> tab[t].pc, row |-> [tab[t].row EXCEPT !.stamp = Older(@)]] \in TabState
        BY <3>1, <4>2, TabStates, Zenon
      <4> QED BY <4>3, <4>4, Zenon
    <3> QED BY <1>1, <3>1 DEF Tick
  <2> QED BY <1>1, <2>1, <2>2 DEF Tick
<1>2. ASSUME NEW t \in Tabs, Candidate(t) PROVE TypeOK'
  <2>1. CASE Load(t)
    <3>1. ReadRow \in Row
      BY DEF ReadRow, Row
    <3>2. tab' \in [Tabs -> TabState]
      BY <2>1, <3>1, TabStates DEF Load
    <3> QED BY <2>1, <3>2 DEF Load
  <2>2. CASE Lock(t)
    <3>1. [tab[t] EXCEPT !.pc = "deciding"] \in TabState
      BY <2>2, Rows, TabStates DEF Lock
    <3>2. tab' \in [Tabs -> TabState]
      BY <2>2, <3>1 DEF Lock
    <3> QED BY <2>2, <3>2 DEF Lock
  <2>3. CASE Issue(t)
    <3>1. ShouldDispatch(tab[t].row) \in BOOLEAN
      BY DEF ShouldDispatch, NeverArrived
    <3>2. tab' \in [Tabs -> TabState]
      BY <2>3, <3>1, TabStates DEF Issue
    <3>3. stamp' \in Ages /\ greeted' \in BOOLEAN /\ mutex' \in Tabs \cup {Nobody}
      BY <2>3, Ageing DEF Issue
    <3> QED BY <2>3, <3>2, <3>3 DEF Issue
  <2>4. CASE Join(t)
    <3>1. tab' \in [Tabs -> TabState]
      BY <2>4, TabStates DEF Join
    <3>2. job' \in [Jobs -> JobState] /\ trouble' \in 0..MaxTrouble
      BY <2>4, JobStates DEF Join, Trouble
    <3> QED BY <2>4, <3>1, <3>2 DEF Join
  <2>5. CASE Leave(t)
    BY <2>5, TabStates DEF Leave
  <2> QED BY <1>2, <2>1, <2>2, <2>3, <2>4, <2>5 DEF Candidate
<1>3. ASSUME NEW j \in Jobs, Agent(j) PROVE TypeOK'
  <2>0. /\ \A pc \in {"none", "nx", "look", "delete", "set"} : Goto(j, pc) \in [Jobs -> JobState]
        /\ \A held \in BOOLEAN : Boots(j, held) \in [Jobs -> JobState]
        /\ \A pc \in Booted : job[j].pc \in Booted
              => [job EXCEPT ![j].pc = pc] \in [Jobs -> JobState]
    <3>1. "boot" \in Booted
      BY DEF Booted
    <3>2. ASSUME NEW pc \in Booted, job[j].pc \in Booted
          PROVE  [job[j] EXCEPT !.pc = pc] \in JobState
      BY <3>2, Moves
    <3> QED BY <3>1, <3>2, JobStates DEF Goto, Boots
  <2>1. CASE Acquire(j)
    <3>1. job' \in [Jobs -> JobState]
      BY <2>1, <2>0 DEF Acquire
    <3>2. lock' \in 0..LockTTL
      BY <2>1, Keys DEF Acquire
    <3>4. hole' \in BOOLEAN
      BY <2>1 DEF Acquire
    <3>5. trouble' \in 0..MaxTrouble
      BY <2>1, Troubles DEF Acquire
    <3>3. UNCHANGED <<sessionVars, mutex, tab>>
      BY <2>1 DEF Acquire
    <3> QED BY <3>1, <3>2, <3>3, <3>4, <3>5
  <2>2. CASE Look(j)
    <3>1. job' \in [Jobs -> JobState]
      BY <2>2, <2>0 DEF Look
    <3> QED BY <2>2, <3>1 DEF Look
  <2>3. CASE Delete(j)
    BY <2>3, <2>0 DEF Delete
  <2>4. CASE Set(j)
    <3>1. job' \in [Jobs -> JobState]
      BY <2>4, <2>0 DEF Set
    <3>4. lock' \in 0..LockTTL
      BY <2>4, Keys DEF Set
    <3>2. UNCHANGED <<sessionVars, mutex, tab, hole, trouble>>
      BY <2>4 DEF Set
    <3> QED BY <3>1, <3>2, <3>4
  <2>5. CASE Boot(j)
    <3>1. job' \in [Jobs -> JobState]
      BY <2>5, <2>0 DEF Boot, Booted
    <3> QED BY <2>5, <3>1 DEF Boot, Trouble
  <2>6. CASE Open(j)
    <3>1. job' \in [Jobs -> JobState]
      BY <2>6, <2>0 DEF Open, Booted
    <3>2. opened' \in BOOLEAN /\ status' \in Statuses
      BY <2>6 DEF Open, Statuses
    <3>4. trouble' \in 0..MaxTrouble
      BY <2>6, Troubles DEF Open
    <3>3. UNCHANGED <<room, stamp, greeted, over, mutex, tab, lock, hole>>
      BY <2>6 DEF Open
    <3> QED BY <3>1, <3>2, <3>3, <3>4
  <2>7. CASE Start(j)
    BY <2>7, <2>0 DEF Start, Booted
  <2>8. CASE Register(j)
    BY <2>8, <2>0 DEF Register, Booted
  <2>9. CASE Turn(j)
    <3>1. ASSUME NEW t \in Tabs, tab[t].pc \in {"loaded", "deciding"}
          PROVE  [tab[t] EXCEPT !.row.greeted = (@ \/ tab[t].row.stamp # Unset)] \in TabState
      <4>1. /\ tab[t].row \in Row
            /\ tab[t] = [pc |-> tab[t].pc, row |-> tab[t].row]
        BY <3>1, Rows
      <4>2. (tab[t].row.greeted \/ tab[t].row.stamp # Unset) \in BOOLEAN
        BY <4>1
      <4>3. [tab[t].row EXCEPT !.greeted = (@ \/ tab[t].row.stamp # Unset)] \in Row
        BY <4>1, <4>2, RowChanges
      <4>4. [tab[t] EXCEPT !.row.greeted = (@ \/ tab[t].row.stamp # Unset)]
              = [pc |-> tab[t].pc,
                 row |-> [tab[t].row EXCEPT !.greeted = (@ \/ tab[t].row.stamp # Unset)]]
        BY <4>1
      <4>5. [pc |-> tab[t].pc,
             row |-> [tab[t].row EXCEPT !.greeted = (@ \/ tab[t].row.stamp # Unset)]]
              \in TabState
        BY <3>1, <4>3, TabStates, Zenon
      <4> QED BY <4>4, <4>5, Zenon
    <3>2. tab' \in [Tabs -> TabState]
      BY <2>9, <3>1 DEF Turn
    <3> QED BY <2>9, <3>2 DEF Turn
  <2>10. CASE Finish(j)
    <3>1. job' \in [Jobs -> JobState]
      BY <2>10, <2>0 DEF Finish, Booted
    <3> QED BY <2>10, <3>1 DEF Finish, Trouble, Statuses
  <2>11. CASE Shutdown(j)
    BY <2>11, <2>0 DEF Shutdown
  <2>12. CASE Abandon(j)
    <3>1. job' \in [Jobs -> JobState]
      BY <2>12, <2>0 DEF Abandon
    <3> QED BY <2>12, <3>1 DEF Abandon, Trouble
  <2> QED BY <1>3, <2>1, <2>2, <2>3, <2>4, <2>5, <2>6, <2>7, <2>8, <2>9, <2>10, <2>11, <2>12
          DEF Agent
<1>4. CASE UNCHANGED vars
  BY <1>4 DEF vars
<1> QED BY <1>1, <1>2, <1>3, <1>4 DEF Next

\* Every value Dispatch's variables take has its type.
THEOREM TypeCorrect == Spec => []TypeOK
<1> QED BY InitType, StepType, PTL DEF Spec

-----------------------------------------------------------------------------
(* The agent lock *)

LEMMA InitExclusive == Init => Exclusive
BY DEF Init, Exclusive, NoJob, Booted

\* A step that adds no job past SET NX and lets nobody into a theft, while the key
\* stays, keeps the lock exclusive.
LEMMA Frame ==
  ASSUME Exclusive, hole' = hole, lock' = lock,
         \A i \in Jobs : job'[i].pc # "set",
         \A i \in Jobs : job'[i].pc \in Booted
            => job[i].pc \in Booted /\ job'[i].held = job[i].held
  PROVE  Exclusive'
BY DEF Exclusive

LEMMA StepExclusive == IInv /\ [Next]_vars => Exclusive'
<1> SUFFICES ASSUME TypeOK, Exclusive, [Next]_vars PROVE Exclusive'
  BY DEF IInv
<1>1. CASE Tick
  <2> SUFFICES ASSUME ~hole' PROVE Exclusive'
    BY DEF Exclusive
  <2>1. ~hole /\ ~(lock = 1 /\ Holders # {}) /\ job' = job
    BY <1>1 DEF Tick, TypeOK
  <2>2. ASSUME NEW j \in Jobs, job[j].pc \in Booted PROVE lock' > 0
    BY <1>1, <2>1, <2>2 DEF Tick, TypeOK, Exclusive, Holders
  <2> QED BY <2>1, <2>2 DEF Exclusive
<1>2. ASSUME NEW t \in Tabs, Candidate(t) PROVE Exclusive'
  <2>1. hole' = hole /\ lock' = lock
    BY <1>2 DEF Candidate, Load, Lock, Issue, Join, Leave, sessionVars
  <2>2. \/ job' = job
        \/ \E j \in Jobs : job' = [job EXCEPT ![j] = [pc |-> "nx"]]
    BY <1>2 DEF Candidate, Load, Lock, Issue, Join, Leave, sessionVars
  <2>3. "nx" \notin Booted
    BY DEF Booted
  <2> QED BY <2>1, <2>2, <2>3 DEF Exclusive, TypeOK
<1>3. ASSUME NEW j \in Jobs, Agent(j) PROVE Exclusive'
  <2> SUFFICES ASSUME ~hole' PROVE Exclusive'
    BY DEF Exclusive
  <2> USE DEF TypeOK
  <2>1. CASE Acquire(j)
    <3>1. CASE lock = 0 /\ lock' = LockTTL /\ job' = Boots(j, TRUE) /\ UNCHANGED hole
      <4>1. \A i \in Jobs : job[i].pc \notin Booted
        BY <3>1 DEF Exclusive
      <4> QED BY <3>1, <4>1 DEF Exclusive, Boots, Booted
    <3>2. CASE job' = Goto(j, "look") /\ UNCHANGED <<lock, hole>>
      BY <3>2 DEF Exclusive, Goto, Booted
    <3> QED BY <2>1, <3>1, <3>2 DEF Acquire
  <2>2. CASE Look(j)
    BY <2>2 DEF Look, Exclusive, Goto, Booted
  <2>3. CASE Delete(j)
    BY <2>3 DEF Delete
  <2>4. CASE Set(j)
    BY <2>4 DEF Set, Exclusive
  <2>5. CASE Boot(j)
    <3>1. /\ hole' = hole /\ lock' = lock /\ job[j].pc \in Booted
          /\ \/ job' = Goto(j, "none")
             \/ \E pc \in Booted : job' = [job EXCEPT ![j].pc = pc]
      BY <2>5 DEF Boot, Booted, sessionVars
    <3>2. "set" \notin Booted /\ "none" \notin Booted
      BY DEF Booted
    <3>3. \A i \in Jobs : /\ job'[i].pc # "set"
                          /\ job'[i].pc \in Booted
                                => job[i].pc \in Booted /\ job'[i].held = job[i].held
      <4>1. CASE job' = Goto(j, "none")
        BY <3>1, <3>2, <4>1 DEF Exclusive, Goto
      <4>2. CASE \E pc \in Booted : job' = [job EXCEPT ![j].pc = pc]
        BY <3>1, <3>2, <4>2 DEF Exclusive, JobState, NoJob
      <4> QED BY <3>1, <4>1, <4>2
    <3> QED BY <3>1, <3>3, Frame
  <2>6. CASE Open(j) \/ Start(j) \/ Register(j) \/ Finish(j)
    <3>1. /\ hole' = hole /\ lock' = lock /\ job[j].pc \in Booted
          /\ \E pc \in Booted : job' = [job EXCEPT ![j].pc = pc]
      BY <2>6 DEF Open, Start, Register, Finish, Booted, sessionVars
    <3>2. "set" \notin Booted
      BY DEF Booted
    <3>3. \A i \in Jobs : /\ job'[i].pc # "set"
                          /\ job'[i].pc \in Booted
                                => job[i].pc \in Booted /\ job'[i].held = job[i].held
      BY <3>1, <3>2 DEF Exclusive, JobState, NoJob
    <3> QED BY <3>1, <3>3, Frame
  <2>7. CASE Turn(j)
    BY <2>7 DEF Turn, Exclusive
  <2>8. CASE Shutdown(j)
    <3>1. job[j].pc \in Booted /\ job' = Goto(j, "none") /\ hole' = hole
      BY <2>8 DEF Shutdown, Booted
    <3>2. \A i \in Jobs : job'[i].pc \notin Booted /\ job'[i].pc # "set"
      BY <3>1 DEF Exclusive, Goto, Booted
    <3> QED BY <3>2 DEF Exclusive
  <2>9. CASE Abandon(j)
    BY <2>9 DEF Abandon, Exclusive, Goto, Booted
  <2> QED BY <1>3, <2>1, <2>2, <2>3, <2>4, <2>5, <2>6, <2>7, <2>8, <2>9 DEF Agent
<1>4. CASE UNCHANGED vars
  BY <1>4 DEF vars, Exclusive
<1> QED BY <1>1, <1>2, <1>3, <1>4 DEF Next

LEMMA Invariant == Spec => []IInv
<1>1. Init => IInv
  BY InitType, InitExclusive DEF IInv
<1>2. IInv /\ [Next]_vars => IInv'
  BY StepType, StepExclusive DEF IInv
<1> QED BY <1>1, <1>2, PTL DEF Spec

\* Two voices in the room mean that somebody got round the agent lock: it was stolen,
\* it expired under its holder, or Redis could not give it.
THEOREM VoicesExclusive == Spec => []TwoVoicesNeedAHole
<1>1. IInv => TwoVoicesNeedAHole
  BY DEF IInv, Exclusive, TwoVoicesNeedAHole, Voices, Booted
<1> QED BY <1>1, Invariant, PTL

\* An interview that is over, with no job past its bootstrap, is never taken up again.
THEOREM NeverResurrects == Spec => FinishedNeverResurrects
<1>1. TypeOK /\ [Next]_vars => (Quiet => Quiet')
  <2> SUFFICES ASSUME TypeOK, [Next]_vars, Quiet PROVE Quiet'
    OBVIOUS
  <2> USE DEF TypeOK, Quiet
  <2>1. CASE Tick
    BY <2>1 DEF Tick
  <2>2. ASSUME NEW t \in Tabs, Candidate(t) PROVE Quiet'
    <3>1. over' = over
      BY <2>2 DEF Candidate, Load, Lock, Issue, Join, Leave, sessionVars
    <3>2. \/ job' = job
          \/ \E j \in Jobs : job' = [job EXCEPT ![j] = [pc |-> "nx"]]
      BY <2>2 DEF Candidate, Load, Lock, Issue, Join, Leave, sessionVars
    <3> QED BY <3>1, <3>2 DEF Booted
  <2>3. ASSUME NEW j \in Jobs, Agent(j) PROVE Quiet'
    <3>1. over' /\ \E s \in JobState : /\ s.pc \notin Booted \ {"boot"}
                                       /\ job' = job \/ job' = [job EXCEPT ![j] = s]
      <4>1. /\ over'
            /\ \/ job' = job
               \/ \E pc \in {"none", "nx", "look", "delete", "set"} : job' = Goto(j, pc)
               \/ \E held \in BOOLEAN : job' = Boots(j, held)
        BY <2>3 DEF Agent, Acquire, Look, Delete, Set, Boot, Open, Start, Register, Turn,
                    Finish, Shutdown, Abandon, sessionVars, Booted
      <4> QED BY <4>1, JobStates DEF Goto, Boots, Booted
    <3> QED BY <3>1
  <2>4. CASE UNCHANGED vars
    BY <2>4 DEF vars
  <2> QED BY <2>1, <2>2, <2>3, <2>4 DEF Next
<1> QED BY <1>1, TypeCorrect, PTL DEF Spec, FinishedNeverResurrects
=============================================================================
