--------------------------- MODULE Interview_proofs ---------------------------
(***************************************************************************)
(* For any plan, any limits and any number of crashes and failures: as     *)
(* long as one GET /replay returns the whole log, the state of a running   *)
(* job is the fold of the session's log, and the log tells of one walk     *)
(* through the plan in which no round is cut short and every twist, nudge  *)
(* and hint keeps its limit.                                               *)
(*                                                                         *)
(* The argument: an event is "allowed" in a state when the rules of        *)
(* InterviewStateMachine let it happen there, and a log is "lawful" when   *)
(* each of its events is allowed in the fold of those before it.  A lawful *)
(* log stays lawful when a crash cuts off its end, when a run of the       *)
(* candidate lands in its middle, and when the job, whose state is that    *)
(* fold, adds an allowed event (FoldInv).  What the log tells of the       *)
(* interview is then read off the events one by one.                       *)
(***************************************************************************)
EXTENDS Interview, WellFoundedInduction, NaturalsInduction, TLAPS

-----------------------------------------------------------------------------
(* What the engine's rules let an event do *)

\* A move is to the first round, or from a round whose budget is spent to the next.
MoveAllowed(st, e) ==
  \/ st.round = NoRound /\ e.round = Plan[1].id
  \/ /\ st.round \in Ids /\ e.round = NextRound(st.round)
     /\ e.ts - st.entered >= Plan[RoundOf(st.round)].minutes

\* A twist is new and early in its round.
TwistAllowed(st, e) ==
  /\ st.round \in Ids /\ e.round = st.round /\ st.round \notin st.twists
  /\ 10 * (e.ts - st.entered) <= 6 * Plan[RoundOf(st.round)].minutes

\* A hint of level n at t goes further than those of the round before it.
Rises(st, n, t) ==
  \A i \in DOMAIN st.hints : st.hints[i].round = st.round =>
    st.hints[i].level < n /\ t - st.hints[i].ts >= HintGap

Allowed(st, e) ==
  /\ e.type = "state_transition" => MoveAllowed(st, e)
  /\ e.type = "twist_injected" => TwistAllowed(st, e)
  /\ e.type = "nudge_turn" => st.round # NoRound /\ st.nudges[st.round] < MaxNudges
  /\ e.type = "hint_issued" =>
       st.round # NoRound /\ e.round = st.round /\ Rises(st, e.level, e.ts)

\* Every event of a list is allowed in the state it finds.
Lawful(st, h) == \A k \in 1..Len(h) : Allowed(States(st, h)[k - 1], h[k])

\* How far along the route a place is.
Rank(r) == IF r = NoRound THEN 0 ELSE IF r = Ended THEN Len(Plan) + 1 ELSE RoundOf(r)

\* A state that lawful events lead to: nudges within their limit, the hints of
\* a round ever further, and nothing yet of the rounds to come.
HintsRise(st) ==
  \A i, j \in DOMAIN st.hints : i < j /\ st.hints[i].round = st.hints[j].round =>
    st.hints[i].level < st.hints[j].level /\ st.hints[j].ts - st.hints[i].ts >= HintGap
Blank(st, r) == st.nudges[r] = 0 /\ \A i \in DOMAIN st.hints : st.hints[i].round # r
StateOK(st) ==
  /\ st \in EngineState
  /\ \A r \in Places : st.nudges[r] <= MaxNudges
  /\ HintsRise(st)
  /\ \A r \in Places : Rank(r) > Rank(st.round) => Blank(st, r)

\* One GET /replay returns the whole log.
Replayable == Len(log) <= ReplayLimit

\* The running job's state is the fold of its history, in which every event was
\* allowed; a nudge mark and a hint on offer will still be allowed when the
\* reply that carries them arrives, whatever round that is in.
FoldInv ==
  /\ Lawful(NoState, History)
  /\ job # "live" => pending = <<>>
  /\ job = "down" => turn = 0 /\ ~mark
  /\ Live => /\ es = Rebuild(History) /\ es.round # NoRound
             /\ mark => es.nudges[es.round] < MaxNudges
             /\ turn > 1 => Rises(es, turn - 1, now)

IInv == TypeOK /\ FoldInv

-----------------------------------------------------------------------------
(* Induction on numbers *)

Below == {p \in Nat \X Nat : p[1] < p[2]}

LEMMA BelowWellFounded == IsWellFoundedOn(Below, Nat)
BY NatLessThanWellFounded, Zenon DEF OpToRel, Below

\* Every set of natural numbers has a least element.
LEMMA LeastNat ==
  ASSUME NEW T, T \subseteq Nat, T # {}
  PROVE  \E x \in T : \A y \in T : x <= y
<1>1. \E x \in T : \A y \in T : ~ (<<y, x>> \in Below)
  BY BelowWellFounded, WFMin
<1>2. PICK x \in T : \A y \in T : ~ (<<y, x>> \in Below)
  BY <1>1
<1>3. \A a, b \in Nat : a < b => <<a, b>> \in Below
  BY DEF Below
<1>4. \A y \in T : ~(y < x)
  BY <1>2, <1>3
<1> QED BY <1>4

\* Induction on a set that contains 0 and with each number the next one.
LEMMA Climb ==
  ASSUME NEW n \in Nat, NEW G, 0 \in G, \A k \in 0..(n - 1) : k \in G => k + 1 \in G
  PROVE  \A k \in 0..n : k \in G
<1>1. SUFFICES ASSUME NEW b \in 0..n, b \notin G PROVE FALSE
  OBVIOUS
<1> DEFINE T == {k \in 0..n : k \notin G}
<1>2. T \subseteq Nat /\ T # {}
  BY <1>1
<1>3. PICK x \in T : \A y \in T : x <= y
  BY <1>2, LeastNat
<1>4. x # 0 /\ x \in 1..n
  BY <1>3
<1>5. x - 1 \in 0..(n - 1) /\ x - 1 \notin T
  BY <1>3, <1>4
<1>6. x - 1 \in G
  BY <1>5
<1>7. x - 1 + 1 \in G
  BY <1>5, <1>6
<1> QED BY <1>3, <1>4, <1>7

-----------------------------------------------------------------------------
(* The fold of a list of events *)

\* The states up to the m-th event.
Approx(g, st, h, m) ==
  g = [k \in 0..m |-> IF k = 0 THEN st ELSE ApplyEvent(g[k - 1], h[k])]

LEMMA ApproxNext ==
  ASSUME NEW st, NEW h, NEW m \in Nat, NEW g, Approx(g, st, h, m)
  PROVE  \E g2 : Approx(g2, st, h, m + 1)
<1> DEFINE g2 == [k \in 0..(m + 1) |-> IF k = 0 THEN st ELSE ApplyEvent(g[k - 1], h[k])]
<1>1. \A k \in 0..m : g2[k] = g[k]
  BY DEF Approx
<1>2. \A k \in 0..(m + 1) : k # 0 => k - 1 \in 0..m
  OBVIOUS
<1>3. \A k \in 0..(m + 1) : k # 0 => g2[k - 1] = g[k - 1]
  BY <1>1, <1>2
<1>4. g2 = [k \in 0..(m + 1) |-> IF k = 0 THEN st ELSE ApplyEvent(g2[k - 1], h[k])]
  BY <1>3
<1> QED BY <1>4 DEF Approx

LEMMA StatesExist ==
  ASSUME NEW st, NEW h, NEW n \in Nat
  PROVE  \E g : Approx(g, st, h, n)
<1> DEFINE G == {m \in Nat : \E g : Approx(g, st, h, m)}
<1>1. 0 \in G
  <2> DEFINE g == [k \in 0..0 |-> st]
  <2>1. g = [k \in 0..0 |-> IF k = 0 THEN st ELSE ApplyEvent(g[k - 1], h[k])]
    OBVIOUS
  <2> QED BY <2>1 DEF Approx
<1>2. \A m \in 0..(n - 1) : m \in G => m + 1 \in G
  BY ApproxNext
<1> HIDE DEF G
<1>3. \A m \in 0..n : m \in G
  BY <1>1, <1>2, Climb
<1> QED BY <1>3 DEF G

\* The states are those of the recursion that defines them.
LEMMA StatesDef ==
  ASSUME NEW st, NEW S, NEW h \in Seq(S)
  PROVE  /\ States(st, h)[0] = st
         /\ \A k \in 1..Len(h) : States(st, h)[k] = ApplyEvent(States(st, h)[k - 1], h[k])
<1>1. Len(h) \in Nat
  OBVIOUS
<1>2. PICK g : Approx(g, st, h, Len(h))
  BY <1>1, StatesExist
<1>3. States(st, h) = [k \in 0..Len(h) |->
                         IF k = 0 THEN st ELSE ApplyEvent(States(st, h)[k - 1], h[k])]
  BY <1>2 DEF Approx, States
<1>4. 0 \in 0..Len(h) /\ \A k \in 1..Len(h) : k \in 0..Len(h) /\ k # 0
  BY <1>1
<1>5. \A k \in 0..Len(h) : States(st, h)[k] =
                         IF k = 0 THEN st ELSE ApplyEvent(States(st, h)[k - 1], h[k])
  BY <1>3
<1> QED BY <1>4, <1>5

\* Two lists with the same first n events.
SameStart(h1, h2, n) ==
  n \in Nat /\ n <= Len(h1) /\ n <= Len(h2) /\ \A k \in 1..n : h1[k] = h2[k]

\* What comes after a prefix does not change its states.
LEMMA StatesOfPrefix ==
  ASSUME NEW S, NEW st, NEW h1 \in Seq(S), NEW h2 \in Seq(S), NEW n, SameStart(h1, h2, n)
  PROVE  \A k \in 0..n : States(st, h1)[k] = States(st, h2)[k]
<1>0. n \in Nat /\ n <= Len(h1) /\ n <= Len(h2) /\ \A k \in 1..n : h1[k] = h2[k]
  BY DEF SameStart
<1> DEFINE G == {k \in 0..n : States(st, h1)[k] = States(st, h2)[k]}
<1>1. 0 \in G
  BY <1>0, StatesDef
<1>2. ASSUME NEW k \in 0..(n - 1), k \in G PROVE k + 1 \in G
  <2>1. k + 1 \in 1..n /\ k + 1 \in 1..Len(h1) /\ k + 1 \in 1..Len(h2) /\ (k + 1) - 1 = k
    BY <1>0
  <2>2. States(st, h1)[k + 1] = ApplyEvent(States(st, h1)[k], h1[k + 1])
    BY <2>1, StatesDef
  <2>3. States(st, h2)[k + 1] = ApplyEvent(States(st, h2)[k], h2[k + 1])
    BY <2>1, StatesDef
  <2>4. h1[k + 1] = h2[k + 1] /\ States(st, h1)[k] = States(st, h2)[k]
    BY <1>0, <1>2, <2>1
  <2> QED BY <2>1, <2>2, <2>3, <2>4
<1> HIDE DEF G
<1>3. \A k \in 0..n : k \in G
  BY <1>0, <1>1, <1>2, Climb
<1> QED BY <1>3 DEF G

\* A list after another goes on from the state that the first one leads to.
Continues(st, h1, h2) ==
  \A k \in 0..Len(h2) : States(st, h1 \o h2)[Len(h1) + k] = States(After(st, h1), h2)[k]

LEMMA StatesConcat ==
  ASSUME NEW S, NEW st, NEW h1 \in Seq(S), NEW h2 \in Seq(S)
  PROVE  /\ \A k \in 0..Len(h1) : States(st, h1 \o h2)[k] = States(st, h1)[k]
         /\ Continues(st, h1, h2)
<1> DEFINE h == h1 \o h2
<1>1. /\ h \in Seq(S) /\ Len(h) = Len(h1) + Len(h2)
      /\ Len(h1) \in Nat /\ Len(h2) \in Nat /\ Len(h1) <= Len(h) /\ Len(h1) <= Len(h1)
  OBVIOUS
<1>2. /\ \A k \in 1..Len(h1) : h[k] = h1[k]
      /\ \A k \in 1..Len(h2) : h[Len(h1) + k] = h2[k]
  OBVIOUS
<1> HIDE DEF h
<1>3. \A k \in 0..Len(h1) : States(st, h)[k] = States(st, h1)[k]
  <2>1. SameStart(h, h1, Len(h1))
    BY <1>1, <1>2 DEF SameStart
  <2>2. h \in Seq(S)
    BY <1>1
  <2> QED BY <2>1, <2>2, StatesOfPrefix
<1>9. \A k \in 1..Len(h) : States(st, h)[k] = ApplyEvent(States(st, h)[k - 1], h[k])
  BY <1>1, StatesDef
<1> DEFINE a == Len(h1)
           mid == After(st, h1)
<1>4. States(st, h)[a] = States(mid, h2)[0]
  BY <1>1, <1>3, StatesDef DEF After
<1>5. ASSUME NEW k \in 0..(Len(h2) - 1), States(st, h)[a + k] = States(mid, h2)[k]
      PROVE  States(st, h)[a + (k + 1)] = States(mid, h2)[k + 1]
  <2>1. k + 1 \in 1..Len(h2) /\ a + (k + 1) \in 1..Len(h)
    BY <1>1
  <2>2. a + (k + 1) - 1 = a + k /\ (k + 1) - 1 = k
    BY <1>1
  <2>3. States(st, h)[a + (k + 1)] = ApplyEvent(States(st, h)[a + k], h[a + (k + 1)])
    BY <1>9, <2>1, <2>2
  <2>4. States(mid, h2)[k + 1] = ApplyEvent(States(mid, h2)[k], h2[k + 1])
    BY <2>1, <2>2, StatesDef
  <2>5. h[a + (k + 1)] = h2[k + 1]
    BY <1>2, <2>1
  <2> QED BY <1>5, <2>3, <2>4, <2>5
<1> DEFINE G == {k \in 0..Len(h2) : States(st, h)[a + k] = States(mid, h2)[k]}
<1>6. 0 \in G
  BY <1>1, <1>4
<1>7. \A k \in 0..(Len(h2) - 1) : k \in G => k + 1 \in G
  BY <1>1, <1>5
<1> HIDE DEF G
<1>8. \A k \in 0..Len(h2) : k \in G
  BY <1>1, <1>6, <1>7, Climb
<1>10. Continues(st, h1, h2)
  BY <1>8 DEF G, h, Continues
<1> QED BY <1>3, <1>10 DEF h

\* A fold in two parts.
LEMMA AfterConcat ==
  ASSUME NEW S, NEW st, NEW h1 \in Seq(S), NEW h2 \in Seq(S)
  PROVE  After(st, h1 \o h2) = After(After(st, h1), h2)
<1>1. Len(h1 \o h2) = Len(h1) + Len(h2) /\ Len(h2) \in 0..Len(h2)
  OBVIOUS
<1>2. Continues(st, h1, h2)
  BY StatesConcat
<1>3. States(st, h1 \o h2)[Len(h1) + Len(h2)] = States(After(st, h1), h2)[Len(h2)]
  BY <1>1, <1>2 DEF Continues
<1> QED BY <1>1, <1>3 DEF After

LEMMA AfterShort ==
  ASSUME NEW st
  PROVE  /\ After(st, <<>>) = st
         /\ \A e : After(st, <<e>>) = ApplyEvent(st, e)
<1>1. After(st, <<>>) = st
  BY StatesDef, <<>> \in Seq({}), Len(<<>>) = 0 DEF After
<1>2. ASSUME NEW e PROVE After(st, <<e>>) = ApplyEvent(st, e)
  <2>1. PICK h : h = <<e>>
    OBVIOUS
  <2>2. h \in Seq({e}) /\ Len(h) = 1 /\ h[1] = e
    BY <2>1
  <2>3. States(st, h)[0] = st /\ States(st, h)[1] = ApplyEvent(States(st, h)[1 - 1], h[1])
    BY <2>2, StatesDef
  <2> QED BY <2>1, <2>2, <2>3 DEF After
<1> QED BY <1>1, <1>2

-----------------------------------------------------------------------------
(* The route *)

LEMMA PlanFacts ==
  /\ Len(Plan) \in Nat \ {0}
  /\ \A r \in Ids : RoundOf(r) \in 1..Len(Plan) /\ Plan[RoundOf(r)].id = r
  /\ \A i \in 1..Len(Plan) : Plan[i].id \in Ids /\ RoundOf(Plan[i].id) = i
  /\ \A r \in Ids : r # NoRound /\ r # Ended /\ Plan[RoundOf(r)].minutes \in Nat
  /\ NoRound # Ended
<1>1. Len(Plan) \in Nat \ {0} /\ DOMAIN Plan = 1..Len(Plan)
  BY PlanAssumption
<1>2. ASSUME NEW r \in Ids
      PROVE  /\ RoundOf(r) \in 1..Len(Plan) /\ Plan[RoundOf(r)].id = r
             /\ r # NoRound /\ r # Ended /\ Plan[RoundOf(r)].minutes \in Nat
  <2>1. PICK i \in DOMAIN Plan : Plan[i].id = r
    BY DEF Ids
  <2>2. RoundOf(r) \in DOMAIN Plan /\ Plan[RoundOf(r)].id = r
    BY <2>1 DEF RoundOf
  <2>3. Plan[RoundOf(r)].minutes \in Nat
    BY <2>2, PlanAssumption
  <2> QED BY <1>1, <2>2, <2>3, PlanAssumption
<1>3. ASSUME NEW i \in 1..Len(Plan) PROVE Plan[i].id \in Ids /\ RoundOf(Plan[i].id) = i
  <2>1. Plan[i].id \in Ids
    BY <1>1 DEF Ids
  <2>2. Plan[RoundOf(Plan[i].id)].id = Plan[i].id /\ RoundOf(Plan[i].id) \in DOMAIN Plan
    BY <1>1, <1>2, <2>1
  <2> QED BY <1>1, <2>1, <2>2, PlanAssumption
<1> QED BY <1>1, <1>2, <1>3, PlanAssumption

LEMMA RankFacts ==
  /\ \A r \in Places : Rank(r) \in 0..(Len(Plan) + 1)
  /\ \A r \in Ids : Rank(r) = RoundOf(r)
  /\ Rank(NoRound) = 0 /\ Rank(Ended) = Len(Plan) + 1
<1>1. \A r \in Ids : Rank(r) = RoundOf(r) /\ RoundOf(r) \in 1..Len(Plan)
  BY PlanFacts DEF Rank
<1>2. Rank(NoRound) = 0 /\ Rank(Ended) = Len(Plan) + 1
  BY PlanFacts DEF Rank
<1>3. 0 \in 0..(Len(Plan) + 1) /\ Len(Plan) + 1 \in 0..(Len(Plan) + 1)
      /\ \A i \in 1..Len(Plan) : i \in 0..(Len(Plan) + 1)
  BY PlanFacts
<1> QED BY <1>1, <1>2, <1>3 DEF Places

\* A move goes one stop further.
LEMMA NextRoundFacts ==
  ASSUME NEW r \in Ids
  PROVE  /\ NextRound(r) \in Places /\ NextRound(r) # NoRound
         /\ Rank(NextRound(r)) = Rank(r) + 1
<1>1. RoundOf(r) \in 1..Len(Plan) /\ Len(Plan) \in Nat /\ Rank(r) = RoundOf(r)
  BY PlanFacts, RankFacts
<1>2. CASE RoundOf(r) + 1 \in 1..Len(Plan)
  <2>1. NextRound(r) = Plan[RoundOf(r) + 1].id
    BY <1>2, PlanAssumption DEF NextRound
  <2>2. NextRound(r) \in Ids /\ RoundOf(NextRound(r)) = RoundOf(r) + 1
    BY <1>2, <2>1, PlanFacts
  <2> QED BY <1>1, <2>2, PlanFacts, RankFacts DEF Places
<1>3. CASE RoundOf(r) + 1 \notin 1..Len(Plan)
  <2>1. NextRound(r) = Ended
    BY <1>3, PlanAssumption DEF NextRound
  <2>2. RoundOf(r) = Len(Plan)
    BY <1>1, <1>3
  <2> QED BY <1>1, <2>1, <2>2, PlanFacts, RankFacts DEF Places
<1> QED BY <1>2, <1>3

-----------------------------------------------------------------------------
(* Types *)

LEMMA Constants ==
  /\ HintGap \in Nat /\ NudgeSilence \in Nat /\ MaxNudges \in Nat
  /\ {ReplayLimit, MaxNow, Slack, MaxInputs, MaxFail, MaxCrash} \subseteq Nat
BY EngineAssumption, InterviewAssumption

LEMMA NoStateOK == StateOK(NoState)
<1>1. NoState \in EngineState
  BY DEF NoState, EngineState, Places
<1>2. \A r \in Places : NoState.nudges[r] = 0
  BY DEF NoState
<1>3. NoState.hints = <<>> /\ DOMAIN NoState.hints = {}
  BY DEF NoState
<1> QED BY <1>1, <1>2, <1>3, Constants DEF StateOK, HintsRise, Blank

LEMMA EventOfType ==
  ASSUME NEW type \in {"state_transition", "stt_final", "nudge_turn", "hint_issued",
                       "twist_injected", "execution_result"},
         NEW r \in Places, NEW level \in Nat, NEW ts \in Nat
  PROVE  /\ EventOf(type, r, level, ts) \in Event
         /\ EventOf(type, r, level, ts).type = type
         /\ EventOf(type, r, level, ts).round = r
         /\ EventOf(type, r, level, ts).level = level
         /\ EventOf(type, r, level, ts).ts = ts
BY DEF EventOf, Event

LEMMA ApplyType ==
  ASSUME NEW st \in EngineState, NEW e \in Event
  PROVE  ApplyEvent(st, e) \in EngineState
<1>1. st.round \in Places /\ e.round \in Places /\ e.ts \in Nat /\ e.level \in Nat
  BY DEF EngineState, Event
<1>2. CASE e.type = "state_transition"
  BY <1>1, <1>2 DEF ApplyEvent, EngineState
<1>3. CASE e.type = "stt_final"
  BY <1>1, <1>3 DEF ApplyEvent, EngineState
<1>4. CASE e.type = "nudge_turn"
  <2>1. st.nudges[st.round] + 1 \in Nat
    BY <1>1 DEF EngineState
  <2> QED BY <1>1, <1>4, <2>1 DEF ApplyEvent, EngineState
<1>5. CASE e.type = "hint_issued"
  <2>1. [round |-> e.round, level |-> e.level, ts |-> e.ts]
          \in [round : Places, level : Nat, ts : Nat]
    BY <1>1
  <2>2. Append(st.hints, [round |-> e.round, level |-> e.level, ts |-> e.ts])
          \in Seq([round : Places, level : Nat, ts : Nat])
    BY <2>1 DEF EngineState
  <2> QED BY <1>5, <2>2 DEF ApplyEvent, EngineState
<1>6. CASE e.type = "twist_injected"
  BY <1>1, <1>6 DEF ApplyEvent, EngineState
<1>7. CASE e.type = "execution_result"
  BY <1>7 DEF ApplyEvent
<1> QED BY <1>2, <1>3, <1>4, <1>5, <1>6, <1>7 DEF Event

\* What one event does to the state.
LEMMA ApplyEffect ==
  ASSUME NEW st \in EngineState, NEW e \in Event
  PROVE  LET st2 == ApplyEvent(st, e) IN
         /\ e.type = "state_transition" =>
              st2.round = e.round /\ st2.entered = e.ts
         /\ e.type # "state_transition" => st2.round = st.round /\ st2.entered = st.entered
         /\ e.type # "nudge_turn" => st2.nudges = st.nudges
         /\ e.type = "nudge_turn" =>
              st2.nudges = [st.nudges EXCEPT ![st.round] = st.nudges[st.round] + 1]
         /\ e.type # "hint_issued" => st2.hints = st.hints
         /\ e.type = "hint_issued" =>
              st2.hints = Append(st.hints, [round |-> e.round, level |-> e.level, ts |-> e.ts])
         /\ e.type # "twist_injected" => st2.twists = st.twists
         /\ e.type = "twist_injected" => st2.twists = st.twists \cup {e.round}
         /\ e.type = "execution_result" => st2 = st
BY DEF ApplyEvent, EngineState, Event

\* A typed list leads through typed states.
LEMMA StatesTyped ==
  ASSUME NEW st \in EngineState, NEW h \in Seq(Event)
  PROVE  /\ \A k \in 0..Len(h) : States(st, h)[k] \in EngineState
         /\ After(st, h) \in EngineState
<1> DEFINE G == {k \in 0..Len(h) : States(st, h)[k] \in EngineState}
<1>1. 0 \in G /\ Len(h) \in Nat
  BY StatesDef
<1>2. ASSUME NEW k \in 0..(Len(h) - 1), k \in G PROVE k + 1 \in G
  <2>1. k + 1 \in 1..Len(h) /\ k + 1 \in 0..Len(h) /\ (k + 1) - 1 = k /\ h[k + 1] \in Event
    OBVIOUS
  <2>2. States(st, h)[k + 1] = ApplyEvent(States(st, h)[k], h[k + 1])
    BY <2>1, StatesDef
  <2> QED BY <1>2, <2>1, <2>2, ApplyType
<1> HIDE DEF G
<1>3. \A k \in 0..Len(h) : k \in G
  BY <1>1, <1>2, Climb
<1>4. Len(h) \in 0..Len(h)
  BY <1>1
<1> QED BY <1>3, <1>4 DEF G, After

-----------------------------------------------------------------------------
(* Lawful lists *)

LEMMA LawfulShort ==
  ASSUME NEW st
  PROVE  /\ Lawful(st, <<>>)
         /\ \A e : Allowed(st, e) => Lawful(st, <<e>>)
<1>1. Lawful(st, <<>>)
  BY DEF Lawful
<1>2. ASSUME NEW e, Allowed(st, e) PROVE Lawful(st, <<e>>)
  <2>1. PICK h : h = <<e>>
    OBVIOUS
  <2>2. h \in Seq({e}) /\ Len(h) = 1 /\ h[1] = e
    BY <2>1
  <2>3. States(st, h)[0] = st
    BY <2>2, StatesDef
  <2>4. \A k \in 1..Len(h) : k = 1 /\ k - 1 = 0
    BY <2>2
  <2>5. Lawful(st, h)
    BY <1>2, <2>2, <2>3, <2>4 DEF Lawful
  <2> QED BY <2>1, <2>5
<1> QED BY <1>1, <1>2

LEMMA LawfulConcat ==
  ASSUME NEW S, NEW st, NEW h1 \in Seq(S), NEW h2 \in Seq(S)
  PROVE  Lawful(st, h1 \o h2) <=> Lawful(st, h1) /\ Lawful(After(st, h1), h2)
<1> DEFINE h == h1 \o h2
           n1 == Len(h1)
           n2 == Len(h2)
           mid == After(st, h1)
<1>1. Len(h) = n1 + n2 /\ n1 \in Nat /\ n2 \in Nat
  OBVIOUS
<1>2. /\ \A k \in 1..n1 : h[k] = h1[k]
      /\ \A k \in 1..n2 : h[n1 + k] = h2[k]
  OBVIOUS
<1>3. /\ \A k \in 0..n1 : States(st, h)[k] = States(st, h1)[k]
      /\ \A k \in 0..n2 : States(st, h)[n1 + k] = States(mid, h2)[k]
  <2>1. \A k \in 0..n1 : States(st, h)[k] = States(st, h1)[k]
    BY StatesConcat
  <2>2. \A k \in 0..n2 : States(st, h)[n1 + k] = States(mid, h2)[k]
    <3>1. Continues(st, h1, h2)
      BY StatesConcat
    <3> QED BY <3>1 DEF Continues
  <2> QED BY <2>1, <2>2
<1> DEFINE A(k) == Allowed(States(st, h)[k - 1], h[k])
           B(k) == Allowed(States(st, h1)[k - 1], h1[k])
           C(k) == Allowed(States(mid, h2)[k - 1], h2[k])
<1> HIDE DEF h, n1, n2, mid
<1>4. \A k \in 1..n1 : A(k) <=> B(k)
  <2> SUFFICES ASSUME NEW k \in 1..n1 PROVE A(k) <=> B(k)
    OBVIOUS
  <2>1. k - 1 \in 0..n1
    BY <1>1
  <2> QED BY <1>2, <1>3, <2>1
<1>5. \A k \in 1..n2 : A(n1 + k) <=> C(k)
  <2> SUFFICES ASSUME NEW k \in 1..n2 PROVE A(n1 + k) <=> C(k)
    OBVIOUS
  <2> DEFINE m == n1 + k
  <2>1. k - 1 \in 0..n2 /\ m - 1 = n1 + (k - 1)
    BY <1>1
  <2>2. h[m] = h2[k]
    BY <1>2
  <2> HIDE DEF m
  <2>3. States(st, h)[m - 1] = States(mid, h2)[k - 1]
    BY <1>3, <2>1
  <2>4. A(m) <=> C(k)
    BY <2>2, <2>3
  <2> QED BY <2>4 DEF m
<1> HIDE DEF A, B, C
<1>6. (\A k \in 1..(n1 + n2) : A(k)) <=> (\A k \in 1..n1 : A(k)) /\ (\A k \in 1..n2 : A(n1 + k))
  <2>1. \A k \in 1..n1 : k \in 1..(n1 + n2)
    BY <1>1
  <2>2. \A k \in 1..n2 : n1 + k \in 1..(n1 + n2)
    BY <1>1
  <2>3. \A k \in 1..(n1 + n2) : k \in 1..n1 \/ (k - n1 \in 1..n2 /\ n1 + (k - n1) = k)
    BY <1>1
  <2> QED BY <2>1, <2>2, <2>3
<1>7. Lawful(st, h) <=> \A k \in 1..(n1 + n2) : A(k)
  BY <1>1 DEF Lawful, A
<1>8. Lawful(st, h1) <=> \A k \in 1..n1 : B(k)
  BY DEF Lawful, B, n1
<1>9. Lawful(mid, h2) <=> \A k \in 1..n2 : C(k)
  BY DEF Lawful, C, n2
<1>10. Lawful(st, h) <=> Lawful(st, h1) /\ Lawful(mid, h2)
  BY <1>4, <1>5, <1>6, <1>7, <1>8, <1>9
<1> QED BY <1>10 DEF h, mid

-----------------------------------------------------------------------------
(* What lawful events lead to *)

LEMMA ApplyOK ==
  ASSUME NEW st, StateOK(st), NEW e \in Event, Allowed(st, e)
  PROVE  StateOK(ApplyEvent(st, e))
<1> DEFINE st2 == ApplyEvent(st, e)
<1>1. st \in EngineState /\ st2 \in EngineState
  BY ApplyType DEF StateOK
<1>2. /\ st.round \in Places /\ st.nudges \in [Places -> Nat] /\ MaxNudges \in Nat
      /\ st.hints \in Seq([round : Places, level : Nat, ts : Nat])
      /\ st2.round \in Places
  BY <1>1, Constants DEF EngineState
<1>3. /\ \A r \in Places : st.nudges[r] <= MaxNudges
      /\ HintsRise(st)
      /\ \A r \in Places : Rank(r) > Rank(st.round) => Blank(st, r)
  BY DEF StateOK
<1>4. ASSUME e.type \notin {"state_transition", "nudge_turn", "hint_issued"}
      PROVE  StateOK(st2)
  <2>1. st2.round = st.round /\ st2.nudges = st.nudges /\ st2.hints = st.hints
    BY <1>1, <1>4, ApplyEffect
  <2> HIDE DEF st2
  <2> QED BY <1>1, <1>3, <2>1 DEF StateOK, HintsRise, Blank
<1>5. CASE e.type = "state_transition"
  <2>1. st2.round = e.round /\ st2.nudges = st.nudges /\ st2.hints = st.hints
    BY <1>1, <1>5, ApplyEffect
  <2>2. MoveAllowed(st, e)
    BY <1>5 DEF Allowed
  <2>3. Rank(st.round) <= Rank(e.round)
    <3>1. CASE st.round = NoRound
      BY <1>2, <2>1, <3>1, RankFacts, PlanFacts
    <3>2. CASE st.round \in Ids /\ e.round = NextRound(st.round)
      <4>1. Rank(e.round) = Rank(st.round) + 1 /\ Rank(st.round) \in 0..(Len(Plan) + 1)
        BY <1>2, <3>2, NextRoundFacts, RankFacts
      <4> QED BY <4>1, PlanFacts
    <3> QED BY <2>2, <3>1, <3>2 DEF MoveAllowed
  <2>4. \A r \in Places : Rank(r) > Rank(e.round) => Rank(r) > Rank(st.round)
    BY <1>2, <2>1, <2>3, RankFacts, PlanFacts
  <2> HIDE DEF st2
  <2>9. StateOK(st2)
    BY <1>1, <1>3, <2>1, <2>4 DEF StateOK, HintsRise, Blank
  <2> QED BY <2>9 DEF st2
<1>6. CASE e.type = "nudge_turn"
  <2>1. /\ st2.round = st.round /\ st2.hints = st.hints
        /\ st2.nudges = [st.nudges EXCEPT ![st.round] = st.nudges[st.round] + 1]
    BY <1>1, <1>6, ApplyEffect
  <2>2. st.nudges[st.round] < MaxNudges
    BY <1>6 DEF Allowed
  <2>3. \A r \in Places : r # st.round => st2.nudges[r] = st.nudges[r]
    BY <1>2, <2>1
  <2>4. st2.nudges[st.round] <= MaxNudges
    BY <1>2, <2>1, <2>2
  <2>5. \A r \in Places : st2.nudges[r] <= MaxNudges
    BY <1>3, <2>3, <2>4
  <2>6. \A r \in Places : Rank(r) > Rank(st.round) => r # st.round
    BY <1>2, RankFacts, PlanFacts
  <2> HIDE DEF st2
  <2>7. HintsRise(st2)
    BY <1>3, <2>1 DEF HintsRise
  <2>8. \A r \in Places : Rank(r) > Rank(st2.round) => Blank(st2, r)
    BY <1>3, <2>1, <2>3, <2>6 DEF Blank
  <2>9. StateOK(st2)
    BY <1>1, <2>5, <2>7, <2>8 DEF StateOK
  <2> QED BY <2>9 DEF st2
<1>7. CASE e.type = "hint_issued"
  <2> DEFINE new == [round |-> e.round, level |-> e.level, ts |-> e.ts]
             n == Len(st.hints)
  <2>1. st2.round = st.round /\ st2.nudges = st.nudges /\ st2.hints = Append(st.hints, new)
    BY <1>1, <1>7, ApplyEffect
  <2>2. e.round = st.round /\ Rises(st, e.level, e.ts)
    BY <1>7 DEF Allowed
  <2>3. new.round = st.round /\ new.level = e.level /\ new.ts = e.ts
        /\ new \in [round : Places, level : Nat, ts : Nat]
    BY <2>2 DEF Event
  <2> HIDE DEF new
  <2>4. /\ n \in Nat /\ DOMAIN st.hints = 1..n
        /\ DOMAIN st2.hints = 1..(n + 1)
        /\ \A i \in 1..n : st2.hints[i] = st.hints[i]
        /\ st2.hints[n + 1] = new
    BY <1>2, <2>1, <2>3
  <2> HIDE DEF st2, n
  <2>5. ASSUME NEW i \in 1..(n + 1), NEW j \in 1..(n + 1), i < j,
               st2.hints[i].round = st2.hints[j].round
        PROVE  /\ st2.hints[i].level < st2.hints[j].level
               /\ st2.hints[j].ts - st2.hints[i].ts >= HintGap
    <3>1. i \in 1..n /\ st2.hints[i] = st.hints[i]
      BY <2>4, <2>5
    <3>2. CASE j = n + 1
      BY <2>2, <2>3, <2>4, <2>5, <3>1, <3>2 DEF Rises
    <3>3. CASE j \in 1..n
      BY <1>3, <2>4, <2>5, <3>1, <3>3 DEF HintsRise
    <3> QED BY <2>4, <3>2, <3>3
  <2>6. HintsRise(st2)
    BY <2>4, <2>5 DEF HintsRise
  <2>7. ASSUME NEW r \in Places, Rank(r) > Rank(st2.round) PROVE Blank(st2, r)
    <3>1. r # st.round /\ Blank(st, r)
      BY <1>2, <1>3, <2>1, <2>7, RankFacts, PlanFacts
    <3>2. \A i \in 1..(n + 1) : i \in 1..n \/ i = n + 1
      BY <2>4
    <3>3. \A i \in 1..(n + 1) : st2.hints[i].round # r
      BY <2>3, <2>4, <3>1, <3>2 DEF Blank
    <3> QED BY <2>1, <2>4, <3>1, <3>3 DEF Blank
  <2>8. \A r \in Places : st2.nudges[r] <= MaxNudges
    BY <1>3, <2>1
  <2>9. StateOK(st2)
    BY <1>1, <2>6, <2>7, <2>8 DEF StateOK
  <2> QED BY <2>9 DEF st2
<1> QED BY <1>4, <1>5, <1>6, <1>7

LEMMA LawfulStates ==
  ASSUME NEW h \in Seq(Event), Lawful(NoState, h)
  PROVE  /\ \A k \in 0..Len(h) : StateOK(States(NoState, h)[k])
         /\ StateOK(Rebuild(h))
<1> DEFINE G == {k \in 0..Len(h) : StateOK(States(NoState, h)[k])}
<1>1. 0 \in G /\ Len(h) \in Nat
  BY StatesDef, NoStateOK
<1>2. ASSUME NEW k \in 0..(Len(h) - 1), k \in G PROVE k + 1 \in G
  <2>1. k + 1 \in 1..Len(h) /\ k + 1 \in 0..Len(h) /\ (k + 1) - 1 = k /\ h[k + 1] \in Event
    OBVIOUS
  <2>2. States(NoState, h)[k + 1] = ApplyEvent(States(NoState, h)[k], h[k + 1])
    BY <2>1, StatesDef
  <2>3. Allowed(States(NoState, h)[k], h[k + 1])
    BY <2>1 DEF Lawful
  <2> QED BY <1>2, <2>1, <2>2, <2>3, ApplyOK
<1> HIDE DEF G
<1>3. \A k \in 0..Len(h) : k \in G
  BY <1>1, <1>2, Climb
<1>4. Len(h) \in 0..Len(h)
  BY <1>1
<1> QED BY <1>3, <1>4 DEF G, After, Rebuild

\* Events that the log gains at its end.
LEMMA Grow ==
  ASSUME NEW h \in Seq(Event), Lawful(NoState, h),
         NEW events \in Seq(Event), Lawful(Rebuild(h), events)
  PROVE  /\ h \o events \in Seq(Event)
         /\ Lawful(NoState, h \o events)
         /\ Rebuild(h \o events) = After(Rebuild(h), events)
<1>1. h \o events \in Seq(Event)
  OBVIOUS
<1>2. Lawful(NoState, h \o events)
  BY LawfulConcat DEF Rebuild
<1>3. Rebuild(h \o events) = After(Rebuild(h), events)
  BY AfterConcat DEF Rebuild
<1> QED BY <1>1, <1>2, <1>3

\* A run that the log gains in its middle, and what a crash leaves of it.
LEMMA RunAnywhere ==
  ASSUME NEW h1 \in Seq(Event), NEW h2 \in Seq(Event), Lawful(NoState, h1 \o h2),
         NEW e \in Event, e.type = "execution_result"
  PROVE  /\ Lawful(NoState, Append(h1, e) \o h2)
         /\ Rebuild(Append(h1, e) \o h2) = Rebuild(h1 \o h2)
<1> DEFINE mid == After(NoState, h1)
<1>1. Lawful(NoState, h1) /\ Lawful(mid, h2)
  BY LawfulConcat
<1>2. mid \in EngineState
  BY StatesTyped, NoStateOK DEF StateOK
<1> HIDE DEF mid
<1>3. ApplyEvent(mid, e) = mid /\ Allowed(mid, e)
  BY <1>2, ApplyEffect DEF Allowed
<1>4. PICK x : x = <<e>>
  OBVIOUS
<1>5. After(mid, x) = mid /\ Lawful(mid, x) /\ x \in Seq(Event)
  <2>1. After(mid, <<e>>) = mid
    BY <1>3, AfterShort
  <2>2. Lawful(mid, <<e>>)
    BY <1>3, LawfulShort
  <2>3. <<e>> \in Seq(Event)
    OBVIOUS
  <2> QED BY <1>4, <2>1, <2>2, <2>3
<1> DEFINE h == h1 \o x
<1>6. h \in Seq(Event) /\ Append(h1, e) = h
  BY <1>4, <1>5
<1>7. After(NoState, h) = mid /\ Lawful(NoState, h)
  BY <1>1, <1>5, AfterConcat, LawfulConcat DEF mid
<1> HIDE DEF h
<1>8. Lawful(NoState, h \o h2)
  BY <1>1, <1>6, <1>7, LawfulConcat
<1>9. Rebuild(h \o h2) = After(mid, h2)
  BY <1>6, <1>7, AfterConcat DEF Rebuild
<1>10. Rebuild(h1 \o h2) = After(mid, h2)
  BY AfterConcat DEF Rebuild, mid
<1> QED BY <1>6, <1>8, <1>9, <1>10

LEMMA LawfulPrefix ==
  ASSUME NEW h1 \in Seq(Event), NEW h2 \in Seq(Event), Lawful(NoState, h1 \o h2)
  PROVE  Lawful(NoState, h1)
BY LawfulConcat

-----------------------------------------------------------------------------
(* The newest of some places in a list *)

LEMMA LatestFacts ==
  ASSUME NEW n \in Nat, NEW S, S \subseteq 1..n, S # {}
  PROVE  Latest(S) \in S /\ \A j \in S : j <= Latest(S)
<1> DEFINE T == {n - i : i \in S}
<1>1. T \subseteq Nat /\ T # {}
  <2>1. \A i \in S : n - i \in Nat
    OBVIOUS
  <2>2. PICK i \in S : TRUE
    OBVIOUS
  <2>3. n - i \in T
    BY <2>2
  <2> QED BY <2>1, <2>3
<1>2. PICK x \in T : \A y \in T : x <= y
  BY <1>1, LeastNat
<1>3. PICK m \in S : x = n - m
  BY <1>2
<1>4. \A j \in S : j <= m
  <2> SUFFICES ASSUME NEW j \in S PROVE j <= m
    OBVIOUS
  <2>1. n - m <= n - j
    BY <1>2, <1>3
  <2> QED BY <2>1
<1> QED BY <1>3, <1>4 DEF Latest

\* The hint that the rules authorize goes further than the round's others.
LEMMA HintRises ==
  ASSUME NEW st, StateOK(st), NEW t \in Nat, NEW failing
  PROVE  /\ AuthorizedHintLevel(st, t, failing) \in 0..3
         /\ AuthorizedHintLevel(st, t, failing) > 0
              => Rises(st, AuthorizedHintLevel(st, t, failing), t)
<1> DEFINE l == AuthorizedHintLevel(st, t, failing)
<1>1. st \in EngineState /\ HintsRise(st) /\ HintGap \in Nat
  BY Constants DEF StateOK
<1>2. st.hints \in Seq([round : Places, level : Nat, ts : Nat])
  BY <1>1 DEF EngineState
<1>3. ASSUME NEW i \in DOMAIN st.hints
      PROVE  st.hints[i].level \in Nat /\ st.hints[i].ts \in Nat
  <2> DEFINE Hint == [round : Places, level : Nat, ts : Nat]
  <2>1. st.hints \in Seq(Hint)
    BY <1>2
  <2>2. \A x \in Hint : x.level \in Nat /\ x.ts \in Nat
    OBVIOUS
  <2> HIDE DEF Hint
  <2>3. st.hints[i] \in Hint
    BY <2>1
  <2> QED BY <2>2, <2>3
<1>4. CASE Issued(st) = {}
  <2>1. l = 1
    BY <1>4 DEF AuthorizedHintLevel
  <2>2. \A i \in DOMAIN st.hints : st.hints[i].round # st.round
    BY <1>4 DEF Issued
  <2> QED BY <2>1, <2>2 DEF Rises
<1>5. CASE Issued(st) # {}
  <2> DEFINE last == Latest(Issued(st))
  <2>1. Issued(st) \subseteq 1..Len(st.hints) /\ Len(st.hints) \in Nat
    BY <1>2 DEF Issued
  <2>2. last \in Issued(st) /\ \A j \in Issued(st) : j <= last
    BY <1>5, <2>1, LatestFacts
  <2> HIDE DEF last
  <2>3. last \in DOMAIN st.hints /\ st.hints[last].round = st.round
    BY <2>2 DEF Issued
  <2>4. LastIssued(st) = st.hints[last]
    BY DEF LastIssued, last
  <2>5. CASE st.hints[last].level < 3 /\ failing /\ t - st.hints[last].ts >= HintGap
    <3>1. l = st.hints[last].level + 1
      BY <1>5, <2>4, <2>5 DEF AuthorizedHintLevel
    <3> HIDE DEF l
    <3>2. l \in 1..3
      <4>1. st.hints[last].level \in Nat /\ st.hints[last].level < 3
        BY <1>3, <2>3, <2>5
      <4> QED BY <3>1, <4>1
    <3>3. ASSUME NEW i \in DOMAIN st.hints, st.hints[i].round = st.round
          PROVE  st.hints[i].level < l /\ t - st.hints[i].ts >= HintGap
      <4>1. i \in Issued(st) /\ i <= last
        BY <2>2, <3>3 DEF Issued
      <4>2. CASE i = last
        BY <1>3, <2>3, <2>5, <3>1, <4>2
      <4>3. CASE i < last
        <5>1. /\ st.hints[i].level < st.hints[last].level
              /\ st.hints[last].ts - st.hints[i].ts >= HintGap
          BY <1>1, <2>3, <3>3, <4>3 DEF HintsRise
        <5>2. st.hints[i].level \in Nat /\ st.hints[i].ts \in Nat
              /\ st.hints[last].level \in Nat /\ st.hints[last].ts \in Nat
          BY <1>3, <2>3
        <5> QED BY <1>1, <2>5, <3>1, <5>1, <5>2
      <4> QED BY <1>2, <2>1, <2>2, <4>1, <4>2, <4>3
    <3>4. Rises(st, l, t)
      BY <3>3 DEF Rises
    <3> QED BY <3>2, <3>4 DEF l
  <2>6. CASE ~ (st.hints[last].level < 3 /\ failing /\ t - st.hints[last].ts >= HintGap)
    <3>1. l = 0
      BY <1>5, <2>4, <2>6 DEF AuthorizedHintLevel
    <3> QED BY <3>1
  <2> QED BY <2>5, <2>6
<1> QED BY <1>4, <1>5

-----------------------------------------------------------------------------
(* What the handlers fold *)

LEMMA Nows == TypeOK => now \in Nat /\ es \in EngineState /\ es.round \in Places
BY Constants, SMTT(30) DEF TypeOK, EngineState

\* The events of an assistant item are allowed.
LEMMA ItemLawful ==
  ASSUME TypeOK, es.round # NoRound, mark => es.nudges[es.round] < MaxNudges,
         NEW level \in 0..3, level > 0 => Rises(es, level, now)
  PROVE  /\ ItemEvents(level) \in Seq(Event)
         /\ Lawful(es, ItemEvents(level))
         /\ After(es, ItemEvents(level)).round = es.round
         /\ level = 0 => After(es, ItemEvents(level)).hints = es.hints
<1> DEFINE d == EventOf("nudge_turn", NoRound, 0, now)
           e == EventOf("hint_issued", es.round, level, now)
           A == IF mark THEN <<d>> ELSE <<>>
           B == IF level > 0 THEN <<e>> ELSE <<>>
           mid == After(es, A)
<1>1. now \in Nat /\ es \in EngineState /\ es.round \in Places /\ NoRound \in Places
  BY Nows DEF Places
<1>2. d \in Event /\ d.type = "nudge_turn"
  BY <1>1, EventOfType
<1>3. e \in Event /\ e.type = "hint_issued" /\ e.round = es.round /\ e.level = level /\ e.ts = now
  BY <1>1, EventOfType
<1> HIDE DEF d, e
<1>4. A \in Seq(Event) /\ B \in Seq(Event)
  BY <1>2, <1>3
<1>5. Lawful(es, A) /\ mid.round = es.round /\ mid.hints = es.hints
  <2>1. CASE mark
    <3>1. Allowed(es, d)
      BY <1>2, <2>1 DEF Allowed
    <3>2. Lawful(es, <<d>>)
      BY <3>1, LawfulShort
    <3>3. After(es, <<d>>) = ApplyEvent(es, d)
      BY AfterShort
    <3>4. ApplyEvent(es, d).round = es.round /\ ApplyEvent(es, d).hints = es.hints
      BY <1>1, <1>2, ApplyEffect
    <3>5. A = <<d>>
      BY <2>1
    <3> HIDE DEF A
    <3> QED BY <3>2, <3>3, <3>4, <3>5
  <2>2. CASE ~mark
    <3>1. A = <<>>
      BY <2>2
    <3> HIDE DEF A
    <3> QED BY <3>1, LawfulShort, AfterShort
  <2> QED BY <2>1, <2>2
<1> HIDE DEF A, mid
<1>6. /\ Lawful(mid, B) /\ After(mid, B).round = es.round
      /\ level = 0 => After(mid, B).hints = es.hints
  <2>1. CASE level > 0
    <3>1. Rises(mid, level, now)
      BY <1>5, <2>1 DEF Rises
    <3>2. Allowed(mid, e)
      BY <1>3, <1>5, <3>1 DEF Allowed
    <3>3. Lawful(mid, <<e>>)
      BY <3>2, LawfulShort
    <3>4. After(mid, <<e>>) = ApplyEvent(mid, e)
      BY AfterShort
    <3>5. mid \in EngineState
      BY <1>1, <1>4, StatesTyped DEF mid
    <3>6. ApplyEvent(mid, e).round = es.round
      BY <1>3, <1>5, <3>5, ApplyEffect
    <3>7. B = <<e>> /\ level # 0
      BY <2>1
    <3> HIDE DEF B
    <3> QED BY <3>3, <3>4, <3>6, <3>7
  <2>2. CASE ~(level > 0)
    <3>1. B = <<>>
      BY <2>2
    <3> HIDE DEF B
    <3> QED BY <1>5, <3>1, LawfulShort, AfterShort
  <2> QED BY <2>1, <2>2
<1> HIDE DEF B
<1>7. Lawful(es, A \o B)
  BY <1>4, <1>5, <1>6, LawfulConcat DEF mid
<1>8. After(es, A \o B) = After(mid, B)
  BY <1>4, AfterConcat DEF mid
<1>9. A \o B \in Seq(Event)
  BY <1>4
<1>10. ItemEvents(level) = A \o B
  BY DEF ItemEvents, A, B, d, e
<1> QED BY <1>6, <1>7, <1>8, <1>9, <1>10

\* What the job folds keeps it the fold of its history.
LEMMA FoldKeeps ==
  ASSUME TypeOK, FoldInv, Live, NEW events \in Seq(Event), Lawful(es, events),
         Fold(events), log' = log
  PROVE  /\ Lawful(NoState, History')
         /\ es' = Rebuild(History')
         /\ pending' \in Seq(Event) /\ es' \in EngineState
<1>1. log \in Seq(Event) /\ pending \in Seq(Event) /\ es \in EngineState
  BY DEF TypeOK
<1>2. History \in Seq(Event) /\ Lawful(NoState, History) /\ es = Rebuild(History)
  BY <1>1 DEF FoldInv, History
<1>3. es' = After(es, events) /\ pending' = pending \o events
  BY DEF Fold
<1>4. log \o (pending \o events) = (log \o pending) \o events
  BY <1>1
<1>5. History' = History \o events
  BY <1>3, <1>4 DEF History
<1>6. Lawful(NoState, History \o events) /\ Rebuild(History \o events) = After(es, events)
  BY <1>2, Grow
<1>7. pending' \in Seq(Event)
  BY <1>1, <1>3
<1>8. es' \in EngineState
  BY <1>1, <1>3, StatesTyped
<1> QED BY <1>3, <1>5, <1>6, <1>7, <1>8

\* ... when it folds a single event.
LEMMA FoldOne ==
  ASSUME TypeOK, FoldInv, Live, NEW e \in Event, Allowed(es, e), Fold(<<e>>), log' = log
  PROVE  /\ Lawful(NoState, History')
         /\ es' = Rebuild(History') /\ es' = ApplyEvent(es, e)
         /\ pending' \in Seq(Event) /\ es' \in EngineState
<1>1. PICK x : x = <<e>>
  OBVIOUS
<1>2. <<e>> \in Seq(Event)
  OBVIOUS
<1>3. Lawful(es, <<e>>)
  BY LawfulShort
<1>4. x \in Seq(Event) /\ Lawful(es, x) /\ Fold(x)
  BY <1>1, <1>2, <1>3
<1>5. /\ Lawful(NoState, History')
      /\ es' = Rebuild(History')
      /\ pending' \in Seq(Event) /\ es' \in EngineState
  BY <1>4, FoldKeeps
<1>6. es' = After(es, x)
  BY <1>4 DEF Fold
<1>7. After(es, <<e>>) = ApplyEvent(es, e)
  BY AfterShort
<1> QED BY <1>1, <1>5, <1>6, <1>7

-----------------------------------------------------------------------------
(* Type correctness *)

LEMMA InitOK == Init => IInv
<1> SUFFICES ASSUME Init PROVE IInv
  OBVIOUS
<1>1. NoState \in EngineState /\ <<>> \in Seq(Event)
  BY NoStateOK DEF StateOK
<1>2. TypeOK
  <2>1. 0 \in 0..MaxNow /\ 0 \in 0..MaxInputs /\ 0 \in 0..MaxFail /\ 0 \in 0..MaxCrash
    BY Constants
  <2>2. 0 \in 0..Len(<<>>) /\ 0 \in 0..4
    OBVIOUS
  <2> QED BY <1>1, <2>1, <2>2 DEF Init, TypeOK, Loops
<1>3. History = <<>>
  BY DEF Init, History
<1>4. FoldInv
  BY <1>3, LawfulShort DEF Init, FoldInv, Live
<1> QED BY <1>2, <1>4 DEF IInv

LEMMA TargetFacts ==
  ASSUME TypeOK
  PROVE  /\ Target \in Places
         /\ Target # NoRound /\ es.round # NoRound =>
              es.round \in Ids /\ Target = NextRound(es.round) /\ BudgetSpent(es, now)
<1>1. es.round \in Places /\ NoRound \in Places
  BY Nows DEF Places
<1>2. Plan[1].id \in Places
  BY PlanFacts DEF Places
<1>3. es.round \in Ids => NextRound(es.round) \in Places
  BY NextRoundFacts
<1> QED BY <1>1, <1>2, <1>3 DEF Target, ShouldTransition, Places

LEMMA BootType ==
  ASSUME TypeOK
  PROVE  /\ BootState \in EngineState
         /\ Replayable => BootState = Rebuild(log)
<1> DEFINE n == IF Len(log) < ReplayLimit THEN Len(log) ELSE ReplayLimit
           h == SubSeq(log, 1, n)
<1>1. log \in Seq(Event) /\ Len(log) \in Nat /\ ReplayLimit \in Nat
  BY Constants DEF TypeOK
<1>2. n \in 0..Len(log)
  BY <1>1
<1>3. h \in Seq(Event)
  <2>1. \A i \in 1..n : log[i] \in Event
    BY <1>1, <1>2
  <2> HIDE DEF n
  <2> QED BY <1>1, <1>2, <2>1
<1>4. BootState \in EngineState
  <2> HIDE DEF h
  <2>1. BootState = After(NoState, h)
    BY DEF BootState, Rebuild, h
  <2> QED BY <1>3, <2>1, NoStateOK, StatesTyped DEF StateOK
<1>5. ASSUME Replayable PROVE BootState = Rebuild(log)
  <2>1. n = Len(log)
    BY <1>1, <1>5 DEF Replayable
  <2>2. SubSeq(log, 1, Len(log)) = log
    BY <1>1
  <2> QED BY <2>1, <2>2 DEF BootState
<1> QED BY <1>4, <1>5

LEMMA FoldType ==
  ASSUME TypeOK, NEW events \in Seq(Event), Fold(events)
  PROVE  pending' \in Seq(Event) /\ es' \in EngineState
<1>1. pending \in Seq(Event) /\ es \in EngineState
  BY DEF TypeOK
<1> QED BY <1>1, StatesTyped DEF Fold

LEMMA OneType == ASSUME NEW e \in Event PROVE <<e>> \in Seq(Event)
OBVIOUS

LEMMA ItemType ==
  ASSUME TypeOK, NEW level \in 0..3
  PROVE  ItemEvents(level) \in Seq(Event)
<1>1. now \in Nat /\ es.round \in Places /\ NoRound \in Places /\ level \in Nat
  BY Nows DEF Places
<1> DEFINE A == IF mark THEN <<EventOf("nudge_turn", NoRound, 0, now)>> ELSE <<>>
           B == IF level > 0 THEN <<EventOf("hint_issued", es.round, level, now)>> ELSE <<>>
<1>2. A \in Seq(Event)
  BY <1>1, EventOfType, OneType
<1>3. B \in Seq(Event)
  BY <1>1, EventOfType, OneType
<1>4. ItemEvents(level) = A \o B
  BY DEF ItemEvents
<1> HIDE DEF A, B
<1> QED BY <1>2, <1>3, <1>4

LEMMA HintLevelType ==
  ASSUME NEW st \in EngineState, NEW t \in Nat, NEW failing
  PROVE  AuthorizedHintLevel(st, t, failing) \in 0..3
<1> DEFINE Hint == [round : Places, level : Nat, ts : Nat]
<1>1. st.hints \in Seq(Hint)
  BY DEF EngineState
<1>2. \A x \in Hint : x.level \in Nat
  OBVIOUS
<1> HIDE DEF Hint
<1>3. CASE Issued(st) = {}
  BY <1>3 DEF AuthorizedHintLevel
<1>4. CASE Issued(st) # {}
  <2>1. Issued(st) \subseteq 1..Len(st.hints) /\ Len(st.hints) \in Nat
    BY <1>1 DEF Issued
  <2>2. Latest(Issued(st)) \in 1..Len(st.hints)
    BY <1>4, <2>1, LatestFacts
  <2>3. LastIssued(st) \in Hint
    BY <1>1, <2>2 DEF LastIssued
  <2>4. LastIssued(st).level \in Nat
    BY <1>2, <2>3
  <2>5. LastIssued(st).level < 3 => LastIssued(st).level + 1 \in 0..3
    BY <2>4
  <2> QED BY <1>4, <2>5 DEF AuthorizedHintLevel
<1> QED BY <1>3, <1>4

LEMMA OfferedFacts ==
  ASSUME TypeOK
  PROVE  /\ HintOffered \in 0..3
         /\ StateOK(es) => (HintOffered > 0 => Rises(es, HintOffered, now))
<1>1. now \in Nat /\ es \in EngineState
  BY Nows
<1> DEFINE l == AuthorizedHintLevel(es, now, es.round \notin passed)
<1>2. l \in 0..3
  BY <1>1, HintLevelType
<1>3. StateOK(es) => (l > 0 => Rises(es, l, now))
  BY <1>1, HintRises
<1>4. HintOffered = l \/ HintOffered = 0
  BY DEF HintOffered
<1> HIDE DEF l
<1> QED BY <1>2, <1>3, <1>4

LEMMA CountsType ==
  ASSUME TypeOK
  PROVE  /\ Heard => inputs' \in 0..MaxInputs /\ fails' \in 0..MaxFail /\ crashes' \in 0..MaxCrash
         /\ Fails => inputs' \in 0..MaxInputs /\ fails' \in 0..MaxFail /\ crashes' \in 0..MaxCrash
<1>1. MaxInputs \in Nat /\ MaxFail \in Nat
  BY Constants
<1>2. inputs \in 0..MaxInputs /\ fails \in 0..MaxFail /\ crashes \in 0..MaxCrash
  BY DEF TypeOK
<1>3. CASE Heard
  <2>1. inputs + fails + crashes < MaxInputs
    BY <1>3 DEF Heard, Spare
  <2>2. inputs + 1 \in 0..MaxInputs
    BY <1>1, <1>2, <2>1
  <2> QED BY <1>2, <1>3, <2>2 DEF Heard
<1>4. CASE Fails
  <2>1. fails + 1 \in 0..MaxFail
    BY <1>1, <1>2, <1>4 DEF Fails
  <2> QED BY <1>2, <1>4, <2>1 DEF Fails
<1> QED BY <1>3, <1>4

LEMMA TypeStep == TypeOK /\ [Next]_vars => TypeOK'
<1> SUFFICES ASSUME TypeOK, [Next]_vars PROVE TypeOK'
  OBVIOUS
<1>1. /\ now \in Nat /\ es \in EngineState /\ es.round \in Places /\ NoRound \in Places
      /\ log \in Seq(Event) /\ pending \in Seq(Event) /\ Len(log) \in Nat
  BY Nows DEF TypeOK, Places
<1>2. CASE Start
  <2> DEFINE e == EventOf("state_transition", Plan[1].id, 0, now)
  <2>1. BootState \in EngineState
    BY BootType
  <2>2. e \in Event
    <3>1. 1 \in 1..Len(Plan) /\ 0 \in Nat
      BY PlanFacts
    <3>2. Plan[1].id \in Places
      BY <3>1, PlanFacts DEF Places
    <3> QED BY <1>1, <3>1, <3>2, EventOfType
  <2> HIDE DEF e
  <2>3. ApplyEvent(BootState, e) \in EngineState /\ <<e>> \in Seq(Event) /\ <<>> \in Seq(Event)
    BY <2>1, <2>2, ApplyType, OneType
  <2>4. pending' \in Seq(Event) /\ es' \in EngineState
    <3>1. CASE BootState.round = NoRound
      BY <1>2, <2>3, <3>1 DEF Start, e
    <3>2. CASE BootState.round # NoRound
      BY <1>2, <2>1, <2>3, <3>2 DEF Start
    <3> QED BY <3>1, <3>2
  <2>5. status' \in {"created", "in_progress", "completed"}
    BY <1>2 DEF Start, TypeOK
  <2>6. inputs' \in 0..MaxInputs /\ fails' \in 0..MaxFail /\ crashes' \in 0..MaxCrash
    BY <1>2, CountsType DEF Start, used, TypeOK
  <2> QED BY <1>2, <2>4, <2>5, <2>6 DEF Start, TypeOK, Loops
<1>3. CASE Refuse
  BY <1>3 DEF Refuse, TypeOK, used
<1>4. CASE Crash
  <2>1. NoState \in EngineState /\ <<>> \in Seq(Event)
    BY NoStateOK DEF StateOK
  <2>2. crashes + 1 \in 0..MaxCrash
    BY <1>4, Constants DEF Crash, TypeOK
  <2>3. 0 \in 0..Len(log)
    BY <1>1
  <2>4. es' \in EngineState /\ pending' \in Seq(Event) /\ log' \in Seq(Event)
    BY <1>1, <1>4, <2>1 DEF Crash
  <2>5. seen' \in 0..Len(log') /\ crashes' \in 0..MaxCrash
    BY <1>4, <2>2, <2>3 DEF Crash
  <2>6. mark' \in BOOLEAN
    BY <1>4, Zenon DEF Crash
  <2>8. passed' \subseteq Ids
    BY <1>4, Zenon DEF Crash
  <2>9. turn' \in 0..4 /\ loop' \in Loops /\ job' \in {"down", "live", "closed"}
    BY <1>4 DEF Crash, Loops
  <2>7. /\ now' \in 0..MaxNow /\ status' \in {"created", "in_progress", "completed"}
        /\ inputs' \in 0..MaxInputs /\ fails' \in 0..MaxFail
    BY <1>4 DEF Crash, TypeOK
  <2> QED BY <2>4, <2>5, <2>6, <2>7, <2>8, <2>9 DEF TypeOK
<1>5. CASE Flush
  <2>1. log' \in Seq(Event) /\ Len(log') = Len(log) + Len(pending) /\ Len(pending) \in Nat
    BY <1>1, <1>5 DEF Flush
  <2>2. seen' \in 0..Len(log')
    BY <1>1, <1>5, <2>1 DEF Flush, TypeOK
  <2> QED BY <1>5, <2>1, <2>2 DEF Flush, TypeOK, used
<1>6. CASE Speech
  <2> DEFINE e == EventOf("stt_final", NoRound, 0, now)
  <2>1. e \in Event
    BY <1>1, EventOfType
  <2>2. pending' \in Seq(Event) /\ es' \in EngineState
    BY <1>6, <2>1, OneType, FoldType DEF Speech
  <2>3. inputs' \in 0..MaxInputs /\ fails' \in 0..MaxFail /\ crashes' \in 0..MaxCrash
    BY <1>6, CountsType DEF Speech
  <2> QED BY <1>6, <2>2, <2>3 DEF Speech, TypeOK
<1>7. CASE UserTurn
  <2>1. HintOffered + 1 \in 0..4
    BY OfferedFacts
  <2>2. inputs' \in 0..MaxInputs /\ fails' \in 0..MaxFail /\ crashes' \in 0..MaxCrash
    BY <1>7, CountsType DEF UserTurn
  <2> QED BY <1>7, <2>1, <2>2 DEF UserTurn, TypeOK
<1>8. CASE Reply
  <2>1. PICK level \in {0, turn - 1} : Item(level)
    BY <1>8 DEF Reply
  <2>2. level \in 0..3
    BY <1>8, <2>1 DEF Reply, TypeOK
  <2>3. pending' \in Seq(Event) /\ es' \in EngineState /\ mark' \in BOOLEAN
    BY <2>1, <2>2, ItemType, FoldType DEF Item
  <2> QED BY <1>8, <2>3 DEF Reply, TypeOK, used
<1>9. CASE Run
  <2>1. Shown \in Places
    BY <1>9 DEF Run, CodeRound, Places
  <2>2. PICK ok \in BOOLEAN :
          log' = Append(log, [EventOf("execution_result", Shown, 0, now) EXCEPT !.ok = ok])
    BY <1>9 DEF Run
  <2> DEFINE e == [EventOf("execution_result", Shown, 0, now) EXCEPT !.ok = ok]
  <2>3. e \in Event
    BY <1>1, <2>1 DEF EventOf, Event
  <2> HIDE DEF e
  <2>4. log' \in Seq(Event) /\ Len(log') = Len(log) + 1
    BY <1>1, <2>2, <2>3 DEF e
  <2>5. seen' \in 0..Len(log')
    BY <1>1, <1>9, <2>4 DEF Run, TypeOK
  <2>6. inputs' \in 0..MaxInputs /\ fails' \in 0..MaxFail /\ crashes' \in 0..MaxCrash
    BY <1>9, CountsType DEF Run
  <2> QED BY <1>9, <2>4, <2>5, <2>6 DEF Run, TypeOK
<1>10. CASE Observe
  <2>1. es.round \in Ids
    BY <1>10 DEF Observe, CodeRound
  <2>2. passed' \subseteq Ids
    BY <1>10, <2>1 DEF Observe, TypeOK
  <2>3. seen' \in 0..Len(log)
    BY <1>1, <1>10 DEF Observe, Newest
  <2> QED BY <1>10, <2>2, <2>3 DEF Observe, TypeOK, used
<1>11. CASE Twist
  <2> DEFINE e == EventOf("twist_injected", es.round, 0, now)
  <2>1. e \in Event
    BY <1>1, EventOfType
  <2>2. pending' \in Seq(Event) /\ es' \in EngineState
    BY <1>11, <2>1, OneType, FoldType DEF Twist
  <2> QED BY <1>11, <2>2 DEF Twist, TypeOK, Loops, used
<1>12. CASE Nudge
  BY <1>12 DEF Nudge, TypeOK, Loops, used
<1>13. CASE Move
  <2> DEFINE e == EventOf("state_transition", Target, 0, now)
  <2>1. e \in Event
    BY <1>1, TargetFacts, EventOfType
  <2>2. pending' \in Seq(Event) /\ es' \in EngineState
    BY <1>13, <2>1, OneType, FoldType DEF Move
  <2> QED BY <1>13, <2>2 DEF Move, TypeOK, Loops, used
<1>14. CASE Spoken
  <2>1. pending' \in Seq(Event) /\ es' \in EngineState /\ mark' \in BOOLEAN
    BY <1>14, ItemType, FoldType, 0 \in 0..3 DEF Spoken, Item
  <2> QED BY <1>14, <2>1 DEF Spoken, TypeOK, Loops, used
<1>15. CASE ReplyFails
  <2>1. inputs' \in 0..MaxInputs /\ fails' \in 0..MaxFail /\ crashes' \in 0..MaxCrash
    BY <1>15, CountsType DEF ReplyFails
  <2> QED BY <1>15, <2>1 DEF ReplyFails, TypeOK, Loops
<1>16. CASE Finish
  <2>1. inputs' \in 0..MaxInputs /\ fails' \in 0..MaxFail /\ crashes' \in 0..MaxCrash
    BY <1>16, CountsType DEF Finish, used, TypeOK
  <2>2. status' \in {"created", "in_progress", "completed"} /\ log' \in {log, log \o pending}
    BY <1>16 DEF Finish, TypeOK
  <2>3. /\ log \o pending \in Seq(Event) /\ Len(log \o pending) = Len(log) + Len(pending)
        /\ Len(pending) \in Nat /\ <<>> \in Seq(Event)
    BY <1>1
  <2>4. log' \in Seq(Event) /\ Len(log') \in Nat /\ Len(log) <= Len(log')
    <3>1. CASE log' = log
      BY <1>1, <3>1
    <3>2. CASE log' = log \o pending
      BY <1>1, <2>3, <3>2
    <3> QED BY <2>2, <3>1, <3>2
  <2>5. seen' \in 0..Len(log')
    BY <1>1, <1>16, <2>4 DEF Finish, TypeOK
  <2> QED BY <1>16, <2>1, <2>2, <2>3, <2>4, <2>5 DEF Finish, TypeOK, Loops
<1>17. CASE Tick
  BY <1>17, Constants DEF Tick, TypeOK, used
<1>18. CASE UNCHANGED vars
  BY <1>18 DEF vars, used, TypeOK
<1> QED BY <1>2, <1>3, <1>4, <1>5, <1>6, <1>7, <1>8, <1>9, <1>10, <1>11, <1>12, <1>13,
           <1>14, <1>15, <1>16, <1>17, <1>18 DEF Next

\* Every step of the job, the candidate and the sink keeps the state well formed: in
\* particular the fold of agent/engine/state.py yields an EngineState for every log.
THEOREM TypeCorrect == Spec => []TypeOK
<1>1. Init => TypeOK
  BY InitOK DEF IInv
<1> QED BY <1>1, TypeStep, PTL DEF Spec

-----------------------------------------------------------------------------
(* The job is the fold of its history *)

LEMMA HistoryFacts ==
  ASSUME TypeOK, FoldInv
  PROVE  /\ History \in Seq(Event) /\ Lawful(NoState, History)
         /\ job # "live" => History = log
         /\ Lawful(NoState, log)
         /\ Live => StateOK(es)
<1>1. log \in Seq(Event) /\ pending \in Seq(Event) /\ History = log \o pending
  BY DEF TypeOK, History
<1>2. History \in Seq(Event)
  BY <1>1
<1>3. Lawful(NoState, History)
  BY DEF FoldInv
<1>4. job # "live" => History = log
  BY <1>1 DEF FoldInv
<1>5. Lawful(NoState, log)
  BY <1>1, <1>3, LawfulPrefix
<1>6. Live => StateOK(es)
  BY <1>2, <1>3, LawfulStates DEF FoldInv
<1> QED BY <1>2, <1>3, <1>4, <1>5, <1>6

\* Events that touch neither the round nor what is counted for it.
LEMMA FoldPlain ==
  ASSUME TypeOK, FoldInv, Live, NEW e \in Event, Allowed(es, e), Fold(<<e>>),
         e.type \in {"stt_final", "twist_injected"}, UNCHANGED <<log, now, job, turn, mark>>
  PROVE  FoldInv'
<1>1. /\ Lawful(NoState, History')
      /\ es' = Rebuild(History') /\ es' = ApplyEvent(es, e)
  BY FoldOne
<1>2. es \in EngineState
  BY Nows
<1>3. es'.round = es.round /\ es'.nudges = es.nudges /\ es'.hints = es.hints
  <2> DEFINE st2 == ApplyEvent(es, e)
  <2>1. st2.round = es.round /\ st2.nudges = es.nudges /\ st2.hints = es.hints
    BY <1>2, ApplyEffect
  <2> HIDE DEF st2
  <2> QED BY <1>1, <2>1 DEF st2
<1>4. /\ es.round # NoRound /\ job = "live"
      /\ mark => es.nudges[es.round] < MaxNudges
      /\ turn > 1 => Rises(es, turn - 1, now)
  BY DEF FoldInv, Live
<1>5. turn > 1 => Rises(es', turn - 1, now)
  BY <1>3, <1>4 DEF Rises
<1> QED BY <1>1, <1>3, <1>4, <1>5 DEF FoldInv, Live

\* Steps that leave the history and what is under way alone.
LEMMA FoldFrame ==
  ASSUME FoldInv, UNCHANGED <<log, pending, now, job, es, turn, mark>>
  PROVE  FoldInv'
BY DEF FoldInv, Live, History

LEMMA FoldStart ==
  ASSUME TypeOK, FoldInv, Replayable, Start
  PROVE  FoldInv'
<1>1. job = "down" /\ job' = "live" /\ turn' = turn /\ mark' = mark /\ log' = log /\ now' = now
  BY DEF Start
<1>2. turn = 0 /\ ~mark /\ pending = <<>>
  BY <1>1 DEF FoldInv
<1>3. log \in Seq(Event) /\ Lawful(NoState, log) /\ BootState = Rebuild(log)
  BY HistoryFacts, BootType DEF TypeOK
<1>4. CASE BootState.round = NoRound
  <2> DEFINE e == EventOf("state_transition", Plan[1].id, 0, now)
  <2>1. es' = ApplyEvent(BootState, e) /\ pending' = <<e>>
    BY <1>4 DEF Start
  <2>2. now \in Nat /\ 1 \in 1..Len(Plan) /\ 0 \in Nat
    BY Nows, PlanFacts
  <2>3. Plan[1].id \in Places /\ Plan[1].id # NoRound
    BY <2>2, PlanFacts DEF Places
  <2>4. e \in Event /\ e.type = "state_transition" /\ e.round = Plan[1].id
    BY <2>2, <2>3, EventOfType
  <2> HIDE DEF e
  <2>5. Allowed(BootState, e)
    BY <1>4, <2>4 DEF Allowed, MoveAllowed
  <2>6. <<e>> \in Seq(Event) /\ Lawful(BootState, <<e>>)
    BY <2>4, <2>5, OneType, LawfulShort
  <2>7. After(BootState, <<e>>) = es'
    BY <2>1, AfterShort
  <2>8. pending' \in Seq(Event) /\ Lawful(BootState, pending') /\ After(BootState, pending') = es'
    BY <2>1, <2>6, <2>7
  <2>9. Lawful(NoState, log \o pending') /\ Rebuild(log \o pending') = es'
    BY <1>3, <2>8, Grow
  <2>10. BootState \in EngineState
    BY BootType
  <2>11. es'.round # NoRound
    BY <2>1, <2>3, <2>4, <2>10, ApplyEffect
  <2>12. History' = log \o pending'
    BY <1>1 DEF History
  <2>13. ~(turn' > 1)
    BY <1>1, <1>2
  <2> QED BY <1>1, <1>2, <2>9, <2>11, <2>12, <2>13 DEF FoldInv, Live
<1>5. CASE BootState.round # NoRound
  <2>1. es' = BootState /\ pending' = <<>>
    BY <1>5 DEF Start
  <2>2. log \o <<>> = log
    BY <1>3
  <2>3. History' = log
    BY <1>1, <2>1, <2>2 DEF History
  <2>4. ~(turn' > 1)
    BY <1>1, <1>2
  <2> QED BY <1>1, <1>2, <1>3, <1>5, <2>1, <2>3, <2>4 DEF FoldInv, Live
<1> QED BY <1>4, <1>5

\* A move takes a mark and a hint on offer into a round that has had neither.
LEMMA FoldMove ==
  ASSUME TypeOK, FoldInv, Move
  PROVE  FoldInv'
<1> DEFINE e == EventOf("state_transition", Target, 0, now)
<1>1. Live /\ Target # NoRound /\ Fold(<<e>>) /\ UNCHANGED <<log, now, job, turn, mark>>
  BY DEF Move, Awake
<1>2. now \in Nat /\ es \in EngineState /\ StateOK(es) /\ es.round # NoRound /\ 0 \in Nat
  BY <1>1, Nows, HistoryFacts DEF FoldInv
<1>3. es.round \in Ids /\ Target \in Places /\ Target = NextRound(es.round) /\ BudgetSpent(es, now)
  BY <1>1, <1>2, TargetFacts
<1>4. e \in Event /\ e.type = "state_transition" /\ e.round = Target /\ e.ts = now
  BY <1>2, <1>3, EventOfType
<1> HIDE DEF e
<1>5. Allowed(es, e)
  BY <1>3, <1>4 DEF Allowed, MoveAllowed, BudgetSpent
<1>6. /\ Lawful(NoState, History')
      /\ es' = Rebuild(History') /\ es' = ApplyEvent(es, e)
  BY <1>1, <1>4, <1>5, FoldOne
<1>7. es'.round = Target /\ es'.nudges = es.nudges /\ es'.hints = es.hints
  <2> DEFINE st2 == ApplyEvent(es, e)
  <2>1. st2.round = Target /\ st2.nudges = es.nudges /\ st2.hints = es.hints
    BY <1>2, <1>4, ApplyEffect
  <2> HIDE DEF st2
  <2> QED BY <1>6, <2>1 DEF st2
<1>8. Blank(es, Target)
  <2>1. Rank(Target) = Rank(es.round) + 1 /\ Rank(es.round) \in 0..(Len(Plan) + 1)
    BY <1>3, NextRoundFacts, RankFacts DEF Places
  <2>2. Rank(Target) > Rank(es.round)
    BY <2>1, PlanFacts
  <2> QED BY <1>2, <1>3, <2>2 DEF StateOK
<1>9. mark => es'.nudges[es'.round] < MaxNudges
  <2>1. mark => es.nudges[es.round] < MaxNudges
    BY <1>1 DEF FoldInv
  <2>2. es.nudges[es.round] \in Nat /\ MaxNudges \in Nat
    BY <1>2, Constants, Nows DEF EngineState
  <2>3. es'.nudges[es'.round] = 0
    BY <1>7, <1>8 DEF Blank
  <2> QED BY <2>1, <2>2, <2>3
<1>10. Rises(es', turn - 1, now)
  BY <1>7, <1>8 DEF Rises, Blank
<1> QED BY <1>1, <1>3, <1>6, <1>7, <1>9, <1>10 DEF FoldInv, Live

\* A reply whose hint, if it bears one, is still allowed.
LEMMA FoldItem ==
  ASSUME TypeOK, FoldInv, Live, NEW level \in 0..3, level > 0 => Rises(es, level, now),
         Item(level), UNCHANGED <<log, now, job>>, turn' = 0 \/ (turn' = turn /\ level = 0)
  PROVE  FoldInv'
<1>1. es.round # NoRound /\ (mark => es.nudges[es.round] < MaxNudges)
  BY DEF FoldInv
<1>2. /\ ItemEvents(level) \in Seq(Event)
      /\ Lawful(es, ItemEvents(level))
      /\ After(es, ItemEvents(level)).round = es.round
      /\ level = 0 => After(es, ItemEvents(level)).hints = es.hints
  BY <1>1, ItemLawful
<1>3. Fold(ItemEvents(level)) /\ mark' = FALSE
  BY DEF Item
<1>4. Lawful(NoState, History') /\ es' = Rebuild(History')
  BY <1>2, <1>3, FoldKeeps
<1>5. es' = After(es, ItemEvents(level))
  BY <1>3 DEF Fold
<1>6. es'.round = es.round /\ (level = 0 => es'.hints = es.hints)
  BY <1>2, <1>5
<1>7. turn' > 1 => Rises(es', turn' - 1, now)
  <2>1. CASE turn' = 0
    BY <2>1
  <2>2. CASE turn' = turn /\ level = 0
    <3>1. turn > 1 => Rises(es, turn - 1, now)
      BY DEF FoldInv
    <3> QED BY <1>6, <2>2, <3>1 DEF Rises
  <2> QED BY <2>1, <2>2
<1> QED BY <1>1, <1>3, <1>4, <1>6, <1>7 DEF FoldInv, Live

LEMMA FoldStep ==
  ASSUME TypeOK, FoldInv, Replayable, [Next]_vars
  PROVE  FoldInv'
<1>1. /\ now \in Nat /\ es \in EngineState /\ es.round \in Places /\ NoRound \in Places
      /\ log \in Seq(Event) /\ pending \in Seq(Event)
  BY Nows DEF TypeOK, Places
<1>2. CASE Start
  BY <1>2, FoldStart
<1>3. CASE Refuse
  BY <1>3 DEF Refuse, FoldInv, Live, History
<1>4. CASE Crash
  <2>1. History' = log
    <3>1. log \o <<>> = log
      BY <1>1
    <3> QED BY <1>4, <3>1 DEF Crash, History
  <2>2. job' = "down" /\ turn' = 0 /\ ~mark' /\ pending' = <<>>
    BY <1>4 DEF Crash
  <2>3. Lawful(NoState, log)
    BY HistoryFacts
  <2> QED BY <2>1, <2>2, <2>3 DEF FoldInv, Live
<1>5. CASE Flush
  <2>1. (log \o pending) \o <<>> = log \o pending
    BY <1>1
  <2>2. History' = History /\ pending' = <<>>
    BY <1>5, <2>1 DEF Flush, History
  <2>3. UNCHANGED <<now, job, es, turn, mark>>
    BY <1>5 DEF Flush
  <2> QED BY <2>2, <2>3 DEF FoldInv, Live
<1>6. CASE Speech
  <2> DEFINE e == EventOf("stt_final", NoRound, 0, now)
  <2>1. e \in Event /\ e.type = "stt_final"
    BY <1>1, EventOfType
  <2>2. Live /\ Fold(<<e>>) /\ UNCHANGED <<log, now, job, turn, mark>>
    BY <1>6 DEF Speech
  <2> HIDE DEF e
  <2>3. Allowed(es, e)
    BY <2>1 DEF Allowed
  <2> QED BY <2>1, <2>2, <2>3, FoldPlain
<1>7. CASE UserTurn
  <2>1. /\ Live /\ turn' = HintOffered + 1
        /\ UNCHANGED <<log, pending, now, job, es, mark>>
    BY <1>7 DEF UserTurn
  <2>2. HintOffered \in 0..3 /\ (HintOffered > 0 => Rises(es, HintOffered, now))
    BY <2>1, OfferedFacts, HistoryFacts
  <2>3. turn' > 1 => turn' - 1 = HintOffered /\ HintOffered > 0
    BY <2>1, <2>2
  <2>4. turn' > 1 => Rises(es, turn' - 1, now)
    BY <2>2, <2>3
  <2>5. History' = History
    BY <2>1 DEF History
  <2> QED BY <2>1, <2>4, <2>5 DEF FoldInv, Live
<1>8. CASE Reply
  <2>1. Live /\ turn' = 0 /\ turn # 0 /\ UNCHANGED <<log, now, job>>
    BY <1>8 DEF Reply
  <2>2. PICK level \in {0, turn - 1} : Item(level)
    BY <1>8 DEF Reply
  <2>3. turn \in 1..4 /\ level \in 0..3
    BY <2>1, <2>2 DEF TypeOK
  <2>4. level > 0 => Rises(es, level, now)
    BY <2>1, <2>2, <2>3 DEF FoldInv
  <2> QED BY <2>1, <2>2, <2>3, <2>4, FoldItem
<1>9. CASE Run
  <2>1. Shown \in Places
    BY <1>9 DEF Run, CodeRound, Places
  <2>2. PICK ok \in BOOLEAN :
          log' = Append(log, [EventOf("execution_result", Shown, 0, now) EXCEPT !.ok = ok])
    BY <1>9 DEF Run
  <2> DEFINE e == [EventOf("execution_result", Shown, 0, now) EXCEPT !.ok = ok]
  <2>3. e \in Event /\ e.type = "execution_result"
    BY <1>1, <2>1 DEF EventOf, Event
  <2>4. log' = Append(log, e)
    BY <2>2
  <2> HIDE DEF e
  <2>5. UNCHANGED <<pending, now, job, es, turn, mark>>
    BY <1>9 DEF Run
  <2>6. Lawful(NoState, log \o pending)
    BY DEF FoldInv, History
  <2>7. /\ Lawful(NoState, Append(log, e) \o pending)
        /\ Rebuild(Append(log, e) \o pending) = Rebuild(log \o pending)
    BY <1>1, <2>3, <2>6, RunAnywhere
  <2>8. Lawful(NoState, History') /\ Rebuild(History') = Rebuild(History)
    BY <2>4, <2>5, <2>7 DEF History
  <2> QED BY <2>5, <2>8 DEF FoldInv, Live
<1>10. CASE Observe
  BY <1>10, FoldFrame DEF Observe
<1>11. CASE Twist
  <2> DEFINE r == es.round
             e == EventOf("twist_injected", r, 0, now)
  <2>r. r = es.round /\ r \in Places /\ now \in Nat /\ 0 \in Nat
    BY <1>1
  <2> HIDE DEF r
  <2>1. e \in Event /\ e.type = "twist_injected" /\ e.round = r /\ e.ts = now
    BY <2>r, EventOfType
  <2>2. Live /\ TwistDue /\ Fold(<<e>>) /\ UNCHANGED <<log, now, job, turn, mark>>
    BY <1>11, <2>r DEF Twist, Awake
  <2> HIDE DEF e
  <2>3. Allowed(es, e)
    BY <2>1, <2>2, <2>r DEF Allowed, TwistAllowed, TwistDue, ShouldFireTwist
  <2> QED BY <2>1, <2>2, <2>3, FoldPlain
<1>12. CASE Nudge
  <2>1. /\ Live /\ mark' = TRUE /\ es.nudges[es.round] < MaxNudges
        /\ UNCHANGED <<log, pending, now, job, es, turn>>
    BY <1>12 DEF Nudge, Awake, NudgeDue, ShouldNudge
  <2>2. History' = History
    BY <2>1 DEF History
  <2> QED BY <2>1, <2>2 DEF FoldInv, Live
<1>13. CASE Move
  BY <1>13, FoldMove
<1>14. CASE Spoken
  <2>1. Live /\ Item(0) /\ turn' = turn /\ UNCHANGED <<log, now, job>>
    BY <1>14 DEF Spoken
  <2>2. 0 \in 0..3 /\ ~(0 > 0)
    OBVIOUS
  <2> QED BY <2>1, <2>2, FoldItem
<1>15. CASE ReplyFails
  BY <1>15, FoldFrame DEF ReplyFails
<1>16. CASE Finish
  <2>1. log' \in {log, log \o pending} /\ pending' = <<>> /\ job' = "closed"
    BY <1>16 DEF Finish
  <2>2. log \o <<>> = log /\ (log \o pending) \o <<>> = log \o pending
    BY <1>1
  <2>3. History' \in {log, History}
    BY <2>1, <2>2 DEF History
  <2>4. Lawful(NoState, log) /\ Lawful(NoState, History)
    BY HistoryFacts
  <2>5. Lawful(NoState, History')
    BY <2>3, <2>4
  <2> QED BY <2>1, <2>5 DEF FoldInv, Live
<1>17. CASE Tick
  <2>1. now' = now + 1 /\ UNCHANGED <<log, pending, job, es, turn, mark>>
    BY <1>17 DEF Tick
  <2>2. Rises(es, turn - 1, now) => Rises(es, turn - 1, now')
    <3> SUFFICES ASSUME Rises(es, turn - 1, now), NEW i \in DOMAIN es.hints,
                        es.hints[i].round = es.round
                 PROVE  es.hints[i].level < turn - 1 /\ now' - es.hints[i].ts >= HintGap
      BY DEF Rises
    <3>1. es.hints[i].ts \in Nat
      <4> DEFINE Hint == [round : Places, level : Nat, ts : Nat]
      <4>1. es.hints \in Seq(Hint)
        BY <1>1 DEF EngineState
      <4>2. \A x \in Hint : x.ts \in Nat
        OBVIOUS
      <4> HIDE DEF Hint
      <4> QED BY <4>1, <4>2
    <3>2. es.hints[i].level < turn - 1 /\ now - es.hints[i].ts >= HintGap
      BY DEF Rises
    <3> QED BY <1>1, <2>1, <3>1, <3>2, Constants
  <2>3. History' = History
    BY <2>1 DEF History
  <2> QED BY <2>1, <2>2, <2>3 DEF FoldInv, Live
<1>18. CASE UNCHANGED vars
  BY <1>18, FoldFrame DEF vars
<1> QED BY <1>2, <1>3, <1>4, <1>5, <1>6, <1>7, <1>8, <1>9, <1>10, <1>11, <1>12, <1>13,
           <1>14, <1>15, <1>16, <1>17, <1>18 DEF Next

\* The invariant holds in every reachable state, crashes and resumptions of the agent job
\* (interview_agent.py, bootstrap) included.
THEOREM IInvCorrect == Spec /\ []Replayable => []IInv
<1>1. Init => IInv
  BY InitOK
<1>2. IInv /\ Replayable /\ [Next]_vars => IInv'
  BY TypeStep, FoldStep DEF IInv
<1> QED BY <1>1, <1>2, PTL DEF Spec

\* Crash recovery is exact (invariant #6 of engine/state.py): as long as one GET /replay
\* returns the whole log, the state of a running job is the fold of the events it and the
\* jobs before it logged, after any crashes, lost events and interleaved runs.
THEOREM ResumesExactly == Spec /\ []Replayable => []EngineIsFoldOfLog
<1>1. IInv => EngineIsFoldOfLog
  BY DEF IInv, FoldInv, EngineIsFoldOfLog
<1> QED BY <1>1, IInvCorrect, PTL

-----------------------------------------------------------------------------
(* What a lawful list tells *)

\* The moves among the first k events, and the state that they leave.
MovesTo(h, k) == {i \in MovesIn(h) : i <= k}
AtLastMove(h, k) ==
  LET st == States(NoState, h)[k] IN
  IF MovesTo(h, k) = {} THEN st.round = NoRound
  ELSE /\ st.round = h[Latest(MovesTo(h, k))].round
       /\ st.entered = h[Latest(MovesTo(h, k))].ts

\* One event more.
LEMMA StatesNext ==
  ASSUME NEW h \in Seq(Event), NEW k \in 0..(Len(h) - 1)
  PROVE  /\ k + 1 \in 1..Len(h) /\ k + 1 \in 0..Len(h) /\ k \in 0..Len(h)
         /\ h[k + 1] \in Event /\ States(NoState, h)[k] \in EngineState
         /\ States(NoState, h)[k + 1] = ApplyEvent(States(NoState, h)[k], h[k + 1])
<1>1. k + 1 \in 1..Len(h) /\ k + 1 \in 0..Len(h) /\ k \in 0..Len(h) /\ (k + 1) - 1 = k
  OBVIOUS
<1>2. h[k + 1] \in Event
  BY <1>1
<1>3. States(NoState, h)[k + 1] = ApplyEvent(States(NoState, h)[k], h[k + 1])
  BY <1>1, StatesDef
<1>4. States(NoState, h)[k] \in EngineState
  BY <1>1, StatesTyped, NoStateOK DEF StateOK
<1> QED BY <1>1, <1>2, <1>3, <1>4

LEMMA LastMove ==
  ASSUME NEW h \in Seq(Event)
  PROVE  \A k \in 0..Len(h) : AtLastMove(h, k)
<1> DEFINE G == {k \in 0..Len(h) : AtLastMove(h, k)}
<1>1. MovesIn(h) \subseteq 1..Len(h) /\ Len(h) \in Nat
  BY DEF MovesIn
<1>2. 0 \in G
  <2>1. MovesTo(h, 0) = {}
    BY <1>1 DEF MovesTo
  <2>2. States(NoState, h)[0].round = NoRound
    BY StatesDef DEF NoState
  <2> QED BY <1>1, <2>1, <2>2 DEF AtLastMove
<1>3. ASSUME NEW k \in 0..(Len(h) - 1), k \in G PROVE k + 1 \in G
  <2> DEFINE st == States(NoState, h)[k]
             st2 == States(NoState, h)[k + 1]
             e == h[k + 1]
  <2>1. /\ k + 1 \in 1..Len(h) /\ k + 1 \in 0..Len(h) /\ e \in Event
        /\ st \in EngineState /\ st2 = ApplyEvent(st, e)
    BY StatesNext
  <2>2. AtLastMove(h, k)
    BY <1>3
  <2>3. CASE e.type = "state_transition"
    <3>1. st2.round = e.round /\ st2.entered = e.ts
      <4> DEFINE nx == ApplyEvent(st, e)
      <4> HIDE DEF st, st2, e
      <4>1. nx.round = e.round /\ nx.entered = e.ts
        BY <2>1, <2>3, ApplyEffect
      <4> HIDE DEF nx
      <4> QED BY <2>1, <4>1 DEF nx
    <3>2. k + 1 \in MovesTo(h, k + 1)
      BY <2>1, <2>3 DEF MovesTo, MovesIn
    <3>3. MovesTo(h, k + 1) \subseteq 1..Len(h) /\ \A i \in MovesTo(h, k + 1) : i <= k + 1
      BY <1>1 DEF MovesTo
    <3>4. /\ Latest(MovesTo(h, k + 1)) \in MovesTo(h, k + 1)
          /\ k + 1 <= Latest(MovesTo(h, k + 1))
      BY <1>1, <3>2, <3>3, LatestFacts
    <3>5. Latest(MovesTo(h, k + 1)) = k + 1
      BY <1>1, <3>3, <3>4
    <3> QED BY <2>1, <3>1, <3>2, <3>5 DEF AtLastMove
  <2>4. CASE e.type # "state_transition"
    <3>1. st2.round = st.round /\ st2.entered = st.entered
      <4> DEFINE nx == ApplyEvent(st, e)
      <4> HIDE DEF st, st2, e
      <4>1. nx.round = st.round /\ nx.entered = st.entered
        BY <2>1, <2>4, ApplyEffect
      <4> HIDE DEF nx
      <4> QED BY <2>1, <4>1 DEF nx
    <3>2. k + 1 \notin MovesIn(h)
      BY <2>4 DEF MovesIn
    <3>3. \A i \in MovesIn(h) : i <= k + 1 <=> i <= k
      BY <1>1, <3>2
    <3>4. MovesTo(h, k + 1) = MovesTo(h, k)
      BY <3>3 DEF MovesTo
    <3> QED BY <2>1, <2>2, <3>1, <3>4 DEF AtLastMove
  <2> QED BY <2>3, <2>4
<1> HIDE DEF G
<1>4. \A k \in 0..Len(h) : k \in G
  BY <1>1, <1>2, <1>3, Climb
<1> QED BY <1>4 DEF G

\* The state remembers every twist ...
TwistsKept(h, k) == \A i \in 1..Len(h) : i <= k /\ h[i].type = "twist_injected" =>
                      h[i].round \in States(NoState, h)[k].twists

LEMMA TwistsRemembered ==
  ASSUME NEW h \in Seq(Event)
  PROVE  \A k \in 0..Len(h) : TwistsKept(h, k)
<1> DEFINE G == {k \in 0..Len(h) : TwistsKept(h, k)}
<1>1. 0 \in G /\ Len(h) \in Nat
  BY DEF TwistsKept
<1>2. ASSUME NEW k \in 0..(Len(h) - 1), k \in G PROVE k + 1 \in G
  <2> DEFINE st == States(NoState, h)[k]
             st2 == States(NoState, h)[k + 1]
             e == h[k + 1]
  <2>1. /\ k + 1 \in 1..Len(h) /\ k + 1 \in 0..Len(h) /\ e \in Event
        /\ st \in EngineState /\ st2 = ApplyEvent(st, e)
    BY StatesNext
  <2>2. /\ e.type = "twist_injected" => st2.twists = st.twists \cup {e.round}
        /\ e.type # "twist_injected" => st2.twists = st.twists
    <3> DEFINE nx == ApplyEvent(st, e)
    <3> HIDE DEF st, st2, e
    <3>1. /\ e.type = "twist_injected" => nx.twists = st.twists \cup {e.round}
          /\ e.type # "twist_injected" => nx.twists = st.twists
      BY <2>1, ApplyEffect
    <3> HIDE DEF nx
    <3> QED BY <2>1, <3>1 DEF nx
  <2>3. TwistsKept(h, k)
    BY <1>2
  <2>4. ASSUME NEW i \in 1..Len(h), i <= k + 1, h[i].type = "twist_injected"
        PROVE  h[i].round \in st2.twists
    <3>1. CASE i = k + 1
      BY <2>2, <2>4, <3>1
    <3>2. CASE i <= k
      <4>1. h[i].round \in st.twists
        BY <2>3, <2>4, <3>2 DEF TwistsKept
      <4> QED BY <2>2, <4>1
    <3> QED BY <2>4, <3>1, <3>2
  <2> QED BY <2>1, <2>4 DEF TwistsKept
<1> HIDE DEF G
<1>3. \A k \in 0..Len(h) : k \in G
  BY <1>1, <1>2, Climb
<1> QED BY <1>3 DEF G

\* ... and every hint.
HintsKept(h, k) ==
  \A i \in 1..Len(h) : i <= k /\ h[i].type = "hint_issued" =>
    \E m \in DOMAIN States(NoState, h)[k].hints :
      States(NoState, h)[k].hints[m] = [round |-> h[i].round, level |-> h[i].level,
                                        ts |-> h[i].ts]

LEMMA HintsRemembered ==
  ASSUME NEW h \in Seq(Event)
  PROVE  \A k \in 0..Len(h) : HintsKept(h, k)
<1> DEFINE G == {k \in 0..Len(h) : HintsKept(h, k)}
<1>1. 0 \in G /\ Len(h) \in Nat
  BY DEF HintsKept
<1>2. ASSUME NEW k \in 0..(Len(h) - 1), k \in G PROVE k + 1 \in G
  <2> DEFINE st == States(NoState, h)[k]
             st2 == States(NoState, h)[k + 1]
             e == h[k + 1]
             Hint == [round : Places, level : Nat, ts : Nat]
             Of(x) == [round |-> x.round, level |-> x.level, ts |-> x.ts]
  <2>1. /\ k + 1 \in 1..Len(h) /\ k + 1 \in 0..Len(h) /\ e \in Event
        /\ st \in EngineState /\ st2 = ApplyEvent(st, e)
    BY StatesNext
  <2>2. /\ e.type = "hint_issued" => st2.hints = Append(st.hints, Of(e))
        /\ e.type # "hint_issued" => st2.hints = st.hints
    <3> DEFINE nx == ApplyEvent(st, e)
    <3> HIDE DEF st, st2, e
    <3>1. /\ e.type = "hint_issued" => nx.hints = Append(st.hints, Of(e))
          /\ e.type # "hint_issued" => nx.hints = st.hints
      BY <2>1, ApplyEffect
    <3> HIDE DEF nx
    <3> QED BY <2>1, <3>1 DEF nx
  <2>3. HintsKept(h, k)
    BY <1>2
  <2>4. st.hints \in Seq(Hint) /\ Of(e) \in Hint
    BY <2>1 DEF EngineState, Event
  <2> HIDE DEF Hint
  <2>5. /\ \A m \in DOMAIN st.hints : m \in DOMAIN st2.hints /\ st2.hints[m] = st.hints[m]
        /\ e.type = "hint_issued" =>
             \E m \in DOMAIN st2.hints : st2.hints[m] = Of(e)
    <3> HIDE DEF st, st2, e, Of
    <3>1. CASE e.type = "hint_issued"
      <4>1. /\ Len(st.hints) \in Nat /\ DOMAIN st.hints = 1..Len(st.hints)
            /\ DOMAIN st2.hints = 1..(Len(st.hints) + 1)
            /\ st2.hints[Len(st.hints) + 1] = Of(e)
            /\ \A m \in 1..Len(st.hints) : st2.hints[m] = st.hints[m]
        BY <2>2, <2>4, <3>1
      <4>2. Len(st.hints) + 1 \in DOMAIN st2.hints
        BY <4>1
      <4>3. \A m \in 1..Len(st.hints) : m \in 1..(Len(st.hints) + 1)
        BY <4>1
      <4> QED BY <4>1, <4>2, <4>3
    <3>2. CASE e.type # "hint_issued"
      BY <2>2, <3>2
    <3> QED BY <3>1, <3>2
  <2>6. ASSUME NEW i \in 1..Len(h), i <= k + 1, h[i].type = "hint_issued"
        PROVE  \E m \in DOMAIN st2.hints : st2.hints[m] = Of(h[i])
    <3>1. CASE i = k + 1
      BY <2>5, <2>6, <3>1
    <3>2. CASE i <= k
      <4>1. PICK m \in DOMAIN st.hints : st.hints[m] = Of(h[i])
        BY <2>3, <2>6, <3>2 DEF HintsKept
      <4> QED BY <2>5, <4>1
    <3> QED BY <2>6, <3>1, <3>2
  <2> QED BY <2>1, <2>6 DEF HintsKept
<1> HIDE DEF G
<1>3. \A k \in 0..Len(h) : k \in G
  BY <1>1, <1>2, Climb
<1> QED BY <1>3 DEF G

\* What an event of a lawful list found, and the last move before it.
LEMMA FoundBy ==
  ASSUME NEW h \in Seq(Event), Lawful(NoState, h), NEW j \in 1..Len(h)
  PROVE  /\ j - 1 \in 0..Len(h)
         /\ Allowed(States(NoState, h)[j - 1], h[j])
         /\ States(NoState, h)[j - 1] \in EngineState
         /\ {i \in MovesIn(h) : i < j} = MovesTo(h, j - 1)
         /\ AtLastMove(h, j - 1)
         /\ MovesTo(h, j - 1) # {} => Latest(MovesTo(h, j - 1)) \in MovesIn(h)
<1>1. j - 1 \in 0..Len(h) /\ MovesIn(h) \subseteq 1..Len(h) /\ Len(h) \in Nat
  BY DEF MovesIn
<1>2. Allowed(States(NoState, h)[j - 1], h[j])
  BY DEF Lawful
<1>3. States(NoState, h)[j - 1] \in EngineState
  BY <1>1, StatesTyped, NoStateOK DEF StateOK
<1>4. \A i \in MovesIn(h) : i < j <=> i <= j - 1
  BY <1>1
<1>5. {i \in MovesIn(h) : i < j} = MovesTo(h, j - 1)
  BY <1>4 DEF MovesTo
<1>6. AtLastMove(h, j - 1)
  BY <1>1, LastMove
<1>7. MovesTo(h, j - 1) \subseteq 1..Len(h) /\ MovesTo(h, j - 1) \subseteq MovesIn(h)
  BY <1>1 DEF MovesTo
<1>8. MovesTo(h, j - 1) # {} => Latest(MovesTo(h, j - 1)) \in MovesIn(h)
  BY <1>1, <1>7, LatestFacts
<1> QED BY <1>1, <1>2, <1>3, <1>5, <1>6, <1>8

LEMMA MovesSomewhere ==
  ASSUME NEW h \in Seq(Event), Lawful(NoState, h), NEW j \in MovesIn(h)
  PROVE  /\ j \in 1..Len(h) /\ h[j].round # NoRound
         /\ MoveAllowed(States(NoState, h)[j - 1], h[j])
<1>1. j \in 1..Len(h) /\ h[j].type = "state_transition"
  BY DEF MovesIn
<1>2. MoveAllowed(States(NoState, h)[j - 1], h[j])
  BY <1>1, FoundBy DEF Allowed
<1>3. 1 \in 1..Len(Plan)
  BY PlanFacts
<1>4. Plan[1].id # NoRound
  BY <1>3, PlanFacts
<1> QED BY <1>1, <1>2, <1>4, NextRoundFacts DEF MoveAllowed

LEMMA RouteFacts ==
  /\ Route[1] = Plan[1].id
  /\ \A r \in Ids : RoundOf(r) \in 1..Len(Plan)
                    /\ Route[RoundOf(r)] = r /\ Route[RoundOf(r) + 1] = NextRound(r)
<1> DEFINE p == [i \in 1..Len(Plan) |-> Plan[i].id]
           q == <<Ended>>
<1>1. Len(Plan) \in Nat /\ 1 \in 1..Len(Plan)
  BY PlanFacts
<1>2. \A i \in 1..Len(Plan) : Plan[i].id \in Places
  BY PlanFacts DEF Places
<1>3. p \in Seq(Places) /\ Len(p) = Len(Plan)
  BY <1>1, <1>2
<1>4. q \in Seq(Places) /\ Len(q) = 1 /\ q[1] = Ended
  BY DEF Places
<1>5. \A i \in 1..Len(Plan) : p[i] = Plan[i].id
  OBVIOUS
<1> HIDE DEF p, q
<1>6. /\ \A i \in 1..Len(p) : (p \o q)[i] = p[i]
      /\ \A i \in 1..Len(q) : (p \o q)[Len(p) + i] = q[i]
  <2>1. p \in Seq(Places) /\ q \in Seq(Places)
    BY <1>3, <1>4
  <2>2. \A i \in 1..Len(p) : (p \o q)[i] = p[i]
    BY <2>1
  <2>3. \A i \in 1..Len(q) : (p \o q)[Len(p) + i] = q[i]
    BY <2>1
  <2> QED BY <2>2, <2>3
<1>7. Route = p \o q
  BY DEF Route, p, q
<1>8. \A i \in 1..Len(Plan) : Route[i] = Plan[i].id
  BY <1>3, <1>5, <1>6, <1>7
<1>9. Route[Len(Plan) + 1] = Ended
  <2>1. 1 \in 1..Len(q)
    BY <1>4
  <2> QED BY <1>3, <1>4, <1>6, <1>7, <2>1
<1>10. ASSUME NEW r \in Ids
       PROVE  RoundOf(r) \in 1..Len(Plan) /\ Route[RoundOf(r)] = r
              /\ Route[RoundOf(r) + 1] = NextRound(r)
  <2>1. RoundOf(r) \in 1..Len(Plan) /\ Plan[RoundOf(r)].id = r
    BY PlanFacts
  <2>2. CASE RoundOf(r) + 1 \in 1..Len(Plan)
    <3>1. NextRound(r) = Plan[RoundOf(r) + 1].id
      BY <2>2, PlanAssumption DEF NextRound
    <3> QED BY <1>8, <2>1, <2>2, <3>1
  <2>3. CASE RoundOf(r) + 1 \notin 1..Len(Plan)
    <3>1. NextRound(r) = Ended
      BY <2>3, PlanAssumption DEF NextRound
    <3>2. RoundOf(r) = Len(Plan)
      BY <1>1, <2>1, <2>3
    <3> QED BY <1>8, <1>9, <2>1, <3>1, <3>2
  <2> QED BY <2>2, <2>3
<1> QED BY <1>1, <1>8, <1>10

-----------------------------------------------------------------------------
(* What the log tells of the interview *)

\* The history of a session, and what precedes an event of it.
LEMMA HistoryLawful ==
  ASSUME IInv
  PROVE  /\ History \in Seq(Event) /\ Lawful(NoState, History)
         /\ \A j \in 1..Len(History) :
              LET st == States(NoState, History)[j - 1] IN
              /\ Allowed(st, History[j]) /\ st \in EngineState /\ j - 1 \in 0..Len(History)
              /\ Before(j) = {} => st.round = NoRound
              /\ Before(j) # {} => /\ Previous(j).round = st.round /\ st.round # NoRound
                                   /\ Previous(j).ts = st.entered
<1>1. History \in Seq(Event) /\ Lawful(NoState, History)
  BY HistoryFacts DEF IInv
<1>2. PICK h : h = History
  OBVIOUS
<1>3. h \in Seq(Event) /\ Lawful(NoState, h)
  BY <1>1, <1>2
<1>4. ASSUME NEW j \in 1..Len(h)
      PROVE  LET st == States(NoState, h)[j - 1] IN
             /\ Allowed(st, h[j]) /\ st \in EngineState /\ j - 1 \in 0..Len(h)
             /\ Before(j) = {} => st.round = NoRound
             /\ Before(j) # {} => /\ Previous(j).round = st.round /\ st.round # NoRound
                                  /\ Previous(j).ts = st.entered
  <2> DEFINE st == States(NoState, h)[j - 1]
             M == MovesTo(h, j - 1)
  <2>1. /\ j - 1 \in 0..Len(h) /\ Allowed(st, h[j]) /\ st \in EngineState
        /\ {i \in MovesIn(h) : i < j} = M /\ AtLastMove(h, j - 1)
        /\ M # {} => Latest(M) \in MovesIn(h)
    BY <1>3, FoundBy
  <2>2. Before(j) = M
    BY <1>2, <2>1 DEF Before
  <2>3. Previous(j) = h[Latest(M)]
    BY <1>2, <2>2 DEF Previous
  <2>4. /\ M = {} => st.round = NoRound
        /\ M # {} => st.round = h[Latest(M)].round /\ st.entered = h[Latest(M)].ts
    BY <2>1 DEF AtLastMove
  <2>5. M # {} => h[Latest(M)].round # NoRound
    BY <1>3, <2>1, MovesSomewhere
  <2> HIDE DEF st, M
  <2>6. /\ Allowed(st, h[j]) /\ st \in EngineState /\ j - 1 \in 0..Len(h)
        /\ Before(j) = {} => st.round = NoRound
        /\ Before(j) # {} => /\ Previous(j).round = st.round /\ st.round # NoRound
                             /\ Previous(j).ts = st.entered
    BY <2>1, <2>2, <2>3, <2>4, <2>5
  <2> QED BY <2>6 DEF st
<1> QED BY <1>1, <1>2, <1>4

LEMMA MovesKnown ==
  ASSUME IInv, NEW j \in MovesIn(History)
  PROVE  LET st == States(NoState, History)[j - 1] IN
         /\ j \in 1..Len(History) /\ MoveAllowed(st, History[j])
         /\ Before(j) = {} => st.round = NoRound
         /\ Before(j) # {} => /\ Previous(j).round = st.round /\ st.round # NoRound
                              /\ Previous(j).ts = st.entered
<1>1. History \in Seq(Event) /\ Lawful(NoState, History)
  BY HistoryFacts DEF IInv
<1>2. j \in 1..Len(History) /\ MoveAllowed(States(NoState, History)[j - 1], History[j])
  BY <1>1, MovesSomewhere
<1> QED BY <1>2, HistoryLawful

LEMMA OrderKept == IInv => RoundsInOrder
<1> SUFFICES ASSUME IInv, NEW j \in MovesIn(History)
             PROVE  IF Before(j) = {} THEN History[j].round = Route[1]
                    ELSE \E n \in 1..Len(Plan) : /\ Previous(j).round = Route[n]
                                                 /\ History[j].round = Route[n + 1]
  BY DEF RoundsInOrder
<1> DEFINE st == States(NoState, History)[j - 1]
<1>1. /\ MoveAllowed(st, History[j])
      /\ Before(j) = {} => st.round = NoRound
      /\ Before(j) # {} => Previous(j).round = st.round /\ st.round # NoRound
  BY MovesKnown
<1> HIDE DEF st
<1>2. NoRound \notin Ids
  BY PlanAssumption
<1>3. CASE Before(j) = {}
  BY <1>1, <1>2, <1>3, RouteFacts DEF MoveAllowed
<1>4. CASE Before(j) # {}
  <2>1. st.round \in Ids /\ History[j].round = NextRound(st.round) /\ Previous(j).round = st.round
    BY <1>1, <1>4 DEF MoveAllowed
  <2>2. RoundOf(st.round) \in 1..Len(Plan) /\ Route[RoundOf(st.round)] = st.round
        /\ Route[RoundOf(st.round) + 1] = NextRound(st.round)
    BY <2>1, RouteFacts
  <2> QED BY <1>4, <2>1, <2>2
<1> QED BY <1>3, <1>4

LEMMA BudgetKept == IInv => BudgetsRespected
<1> SUFFICES ASSUME IInv, NEW j \in MovesIn(History), Before(j) # {}, Previous(j).round \in Ids
             PROVE  History[j].ts - Previous(j).ts >= Plan[RoundOf(Previous(j).round)].minutes
  BY DEF BudgetsRespected
<1> DEFINE st == States(NoState, History)[j - 1]
<1>1. /\ MoveAllowed(st, History[j])
      /\ Previous(j).round = st.round /\ st.round # NoRound /\ Previous(j).ts = st.entered
  BY MovesKnown
<1> HIDE DEF st
<1> QED BY <1>1 DEF MoveAllowed

LEMMA TwistKept == IInv => TwistsOnceAndEarly
<1> SUFFICES ASSUME IInv PROVE TwistsOnceAndEarly
  OBVIOUS
<1>1. History \in Seq(Event) /\ DOMAIN History = 1..Len(History) /\ Len(History) \in Nat
  BY HistoryLawful
<1>2. \A k \in 0..Len(History) : TwistsKept(History, k)
  BY <1>1, TwistsRemembered
<1>3. ASSUME NEW j \in 1..Len(History), History[j].type = "twist_injected"
      PROVE  LET st == States(NoState, History)[j - 1] IN
             /\ TwistAllowed(st, History[j]) /\ j - 1 \in 0..Len(History)
             /\ Before(j) # {} /\ Previous(j).round = st.round /\ Previous(j).ts = st.entered
  <2> DEFINE st == States(NoState, History)[j - 1]
  <2>1. /\ Allowed(st, History[j]) /\ j - 1 \in 0..Len(History)
        /\ Before(j) = {} => st.round = NoRound
        /\ Before(j) # {} => Previous(j).round = st.round /\ Previous(j).ts = st.entered
    BY HistoryLawful
  <2> HIDE DEF st
  <2>2. TwistAllowed(st, History[j])
    BY <1>3, <2>1 DEF Allowed
  <2>3. st.round # NoRound
    BY <2>2, PlanAssumption DEF TwistAllowed
  <2>4. /\ TwistAllowed(st, History[j]) /\ j - 1 \in 0..Len(History)
        /\ Before(j) # {} /\ Previous(j).round = st.round /\ Previous(j).ts = st.entered
    BY <2>1, <2>2, <2>3
  <2> QED BY <2>4 DEF st
<1>4. ASSUME NEW i \in 1..Len(History), NEW j \in 1..Len(History), i < j,
             History[i].type = "twist_injected", History[j].type = "twist_injected"
      PROVE  History[i].round # History[j].round
  <2> DEFINE st == States(NoState, History)[j - 1]
  <2>1. TwistAllowed(st, History[j]) /\ j - 1 \in 0..Len(History)
    BY <1>3, <1>4
  <2>2. i <= j - 1
    BY <1>4
  <2>3. History[i].round \in st.twists
    BY <1>2, <1>4, <2>1, <2>2 DEF TwistsKept
  <2> HIDE DEF st
  <2> QED BY <2>1, <2>3 DEF TwistAllowed
<1>5. ASSUME NEW j \in 1..Len(History), History[j].type = "twist_injected"
      PROVE  /\ Before(j) # {} /\ Previous(j).round = History[j].round
             /\ 10 * (History[j].ts - Previous(j).ts)
                  <= 6 * Plan[RoundOf(History[j].round)].minutes
  <2> DEFINE st == States(NoState, History)[j - 1]
  <2>1. /\ TwistAllowed(st, History[j]) /\ Before(j) # {}
        /\ Previous(j).round = st.round /\ Previous(j).ts = st.entered
    BY <1>3, <1>5
  <2> HIDE DEF st
  <2> QED BY <2>1 DEF TwistAllowed
<1>6. ASSUME NEW i \in 1..Len(History), NEW j \in 1..Len(History),
             History[i].type = "twist_injected", History[j].type = "twist_injected",
             History[i].round = History[j].round
      PROVE  i = j
  <2>1. ~(i < j) /\ ~(j < i)
    BY <1>4, <1>6
  <2> QED BY <1>1, <2>1
<1> QED BY <1>1, <1>5, <1>6 DEF TwistsOnceAndEarly

LEMMA NudgeKept == IInv => NudgesBounded
<1> SUFFICES ASSUME IInv, NEW r \in Ids PROVE Rebuild(History).nudges[r] <= MaxNudges
  BY DEF NudgesBounded
<1>1. StateOK(Rebuild(History))
  BY HistoryLawful, LawfulStates
<1> QED BY <1>1 DEF StateOK, Places

LEMMA HintKept == IInv => HintsSpaced
<1> SUFFICES ASSUME IInv, NEW i \in DOMAIN History, NEW j \in DOMAIN History,
                    i < j, History[i].round = History[j].round,
                    History[i].type = "hint_issued", History[j].type = "hint_issued"
             PROVE  /\ History[j].level > History[i].level
                    /\ History[j].ts - History[i].ts >= HintGap
  BY DEF HintsSpaced
<1> DEFINE st == States(NoState, History)[j - 1]
<1>1. /\ History \in Seq(Event) /\ Len(History) \in Nat
      /\ i \in 1..Len(History) /\ j \in 1..Len(History)
  BY HistoryLawful
<1>2. j - 1 \in 0..Len(History) /\ Allowed(st, History[j])
  BY <1>1, HistoryLawful
<1>3. HintsKept(History, j - 1) /\ i <= j - 1
  BY <1>1, <1>2, HintsRemembered
<1>4. PICK m \in DOMAIN st.hints :
        st.hints[m] = [round |-> History[i].round, level |-> History[i].level,
                       ts |-> History[i].ts]
  BY <1>1, <1>3 DEF HintsKept
<1> HIDE DEF st
<1>5. History[j].round = st.round /\ Rises(st, History[j].level, History[j].ts)
  BY <1>2 DEF Allowed
<1>6. st.hints[m].level < History[j].level /\ History[j].ts - st.hints[m].ts >= HintGap
  BY <1>4, <1>5 DEF Rises
<1>7. History[i].level < History[j].level /\ History[j].ts - History[i].ts >= HintGap
  BY <1>4, <1>6
<1>8. History[i].level \in Nat /\ History[j].level \in Nat
  <2>1. History[i] \in Event /\ History[j] \in Event
    BY <1>1
  <2>2. \A x \in Event : x.level \in Nat
    BY DEF Event
  <2> QED BY <2>1, <2>2
<1> QED BY <1>7, <1>8

\* The log of a session tells of one walk through the plan, first round first, each move
\* one stop further (agent/engine/plan.py next_round), whatever is lost in crashes and
\* done again after them.
THEOREM OneWalk == Spec /\ []Replayable => []RoundsInOrder
BY IInvCorrect, OrderKept, PTL

\* No round is left before its minutes are over (should_transition), not even by a
\* resumption in the middle of it.
THEOREM NoRoundCutShort == Spec /\ []Replayable => []BudgetsRespected
BY IInvCorrect, BudgetKept, PTL

\* A round has one twist at most and early, a bounded number of nudges, and hints that
\* rise with the pause between them (the policies of InterviewStateMachine), whichever
\* reply carries a mark or a hint and whatever crashes come between; the model gives the
\* hint that it was offered, or none.
THEOREM LimitsHold == Spec /\ []Replayable => []LimitsKept
<1>1. IInv => LimitsKept
  BY TwistKept, NudgeKept, HintKept DEF LimitsKept
<1> QED BY <1>1, IInvCorrect, PTL
===============================================================================
