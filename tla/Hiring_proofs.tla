--------------------------- MODULE Hiring_proofs ---------------------------
(***************************************************************************)
(* What the way of a candidacy guarantees, for any number of requests at   *)
(* once, any pipelines and any bounds.  The argument is about the rounds:  *)
(* a session is only ever opened in front of a row of rounds that are      *)
(* completed and passed, so the last one alone can be live, and nothing    *)
(* that is done to a session later takes back that it passed.              *)
(***************************************************************************)
EXTENDS Hiring, FiniteSetTheorems, TLAPS

USE HiringAssumption DEF HiringAssumption

-----------------------------------------------------------------------------
(* The inductive invariant *)

RoundRequests == {r \in Requests : req[r].pc \in {"advancing", "enrolling", "launching"}}

\* A candidacy with a single plan never has a progress row, nor a request after one.
PlanHasNoRounds ==
  gates = <<>> => /\ prog = NoProgress
                  /\ RoundRequests = {}

\* Did the session pass the gate?
Passed(s, gate) ==
  /\ s.status = "completed"
  /\ gate = "auto" => s.score = "pass"
  /\ gate = "review" => \E k \in DOMAIN s.decisions : s.decisions[k] = "confirm"

\* Every round but the last has passed its gate.
PassedBehind == gates # <<>> => \A i \in 1..prog.round - 1 : Passed(sess[i], gates[i])

AtMostOneLive == \A s, t \in Live : s = t

Rounds == RoundOnce /\ PassedBehind /\ AtMostOneLive
IInv == TypeOK /\ PlanHasNoRounds /\ Rounds

-----------------------------------------------------------------------------
(* Lemmas about the rounds *)

\* In a pipeline the session of a round has the round's number.
LEMMA RoundIsSession ==
  ASSUME TypeOK, RoundOnce, gates # <<>>
  PROVE  /\ prog.round \in Nat
         /\ DOMAIN sess = 1..prog.round
         /\ prog.sessions = [i \in 1..prog.round |-> i]
         /\ prog.round > 0 => Last = sess[prog.round] /\ Last \in Session
<1>1. prog.round \in Nat
  BY DEF TypeOK, NoProgress
<1>2. DOMAIN sess = 1..prog.round /\ prog.sessions = [i \in 1..prog.round |-> i]
  BY DEF TypeOK, RoundOnce
<1>3. ASSUME prog.round > 0 PROVE Last = sess[prog.round] /\ Last \in Session
  <2>1. prog.round \in 1..prog.round
    BY <1>1, <1>3
  <2>2. Last = sess[prog.round]
    BY <1>2, <2>1, Zenon DEF Last
  <2> QED BY <1>2, <2>1, <2>2 DEF TypeOK
<1> QED BY <1>1, <1>2, <1>3

\* What the model checker sees of the rounds follows.
LEMMA RoundsSeen ==
  ASSUME TypeOK, PlanHasNoRounds, Rounds
  PROVE  GatesHeld /\ OneLiveSession
<1>1. GatesHeld
  <2> SUFFICES ASSUME NEW i \in 1..prog.round - 1
               PROVE  Passed(sess[prog.sessions[i]], gates[i])
    BY Zenon DEF GatesHeld, Passed
  <2>1. CASE gates = <<>>
    BY <2>1 DEF PlanHasNoRounds, NoProgress
  <2>2. CASE gates # <<>>
    <3>1. prog.round \in Nat /\ prog.sessions[i] = i
      BY <2>2, RoundIsSession DEF Rounds
    <3> QED BY <2>2, <3>1 DEF Rounds, PassedBehind
  <2> QED BY <2>1, <2>2
<1>2. OneLiveSession
  <2>1. CASE Live = {}
    BY <2>1, FS_EmptySet DEF OneLiveSession
  <2>2. CASE Live # {}
    <3>1. PICK s \in Live : Live = {s}
      BY <2>2 DEF Rounds, AtMostOneLive
    <3>2. Cardinality({s}) = 1
      BY FS_Singleton
    <3> QED BY <3>1, <3>2 DEF OneLiveSession
  <2> QED BY <2>1, <2>2
<1> QED BY <1>1, <1>2

\* A round that lets the pipeline go on has passed its gate.
LEMMA LetsOn ==
  ASSUME TypeOK, RoundOnce, gates # <<>>, prog.round > 0, Open, ~Fails, ~Waits
  PROVE  Passed(sess[prog.round], gates[prog.round])
<1> DEFINE s == sess[prog.round]
<1>1. Last = s /\ s \in Session
  BY RoundIsSession
<1>2. s.status = "completed"
  BY <1>1 DEF Open
<1>3. gates[prog.round] = "auto" => s.score = "pass"
  BY <1>1 DEF Open, Fails, GateNow, Session
<1>4. ASSUME gates[prog.round] = "review"
      PROVE  \E k \in DOMAIN s.decisions : s.decisions[k] = "confirm"
  <2>1. s.decisions # <<>> /\ s.decisions \in Seq({"confirm", "override"})
    BY <1>1, <1>4 DEF Waits, GateNow, Session
  <2>2. s.decisions[Len(s.decisions)] # "override"
    BY <1>1, <1>4, <2>1 DEF Fails, GateNow, LatestDecision
  <2>3. Len(s.decisions) \in DOMAIN s.decisions
    BY <2>1
  <2> QED BY <2>1, <2>2, <2>3
<1> QED BY <1>2, <1>3, <1>4 DEF Passed

\* The list of sessions with a new one.
LEMMA OneMore ==
  ASSUME NEW S, NEW q \in Seq(S), NEW x \in S
  PROVE  /\ Append(q, x) \in Seq(S)
         /\ Len(Append(q, x)) = Len(q) + 1 /\ Len(q) \in Nat
         /\ DOMAIN Append(q, x) = 1..(Len(q) + 1) /\ DOMAIN q = 1..Len(q)
         /\ \A i \in DOMAIN q : Append(q, x)[i] = q[i]
         /\ Append(q, x)[Len(q) + 1] = x
<1>1. Append(q, x) \in Seq(S)
  OBVIOUS
<1>2. /\ Len(Append(q, x)) = Len(q) + 1 /\ Len(q) \in Nat
      /\ DOMAIN Append(q, x) = 1..(Len(q) + 1) /\ DOMAIN q = 1..Len(q)
  OBVIOUS
<1>3. \A i \in DOMAIN q : Append(q, x)[i] = q[i]
  OBVIOUS
<1>4. Append(q, x)[Len(q) + 1] = x
  OBVIOUS
<1> QED BY <1>1, <1>2, <1>3, <1>4

LEMMA NewIsSession == NewSession \in Session
BY DEF NewSession, Session

-----------------------------------------------------------------------------
(* The rounds, step by step *)

\* Where neither the sessions nor the round change, nothing changes for the rounds.
LEMMA RoundsKept ==
  ASSUME Rounds, UNCHANGED <<gates, sess>>,
         prog'.round = prog.round, prog'.sessions = prog.sessions
  PROVE  Rounds'
<1>1. Live' = Live
  BY DEF Live
<1>2. RoundOnce' /\ PassedBehind' /\ AtMostOneLive'
  BY <1>1 DEF Rounds, RoundOnce, PassedBehind, AtMostOneLive
<1> QED BY <1>2 DEF Rounds

\* A session that goes on keeps what made it pass, and none comes to life.
Grows(s, x) ==
  /\ sess[s].status = "completed" => x.status = "completed"
  /\ sess[s].score = "pass" => x.score = "pass"
  /\ \A k \in DOMAIN sess[s].decisions :
        k \in DOMAIN x.decisions /\ x.decisions[k] = sess[s].decisions[k]
  /\ x.status \in {"created", "in_progress"} => s \in Live

LEMMA RoundsGrow ==
  ASSUME TypeOK, Rounds, UNCHANGED <<gates, prog>>,
         NEW s \in DOMAIN sess, NEW x \in Session, Grows(s, x), sess' = [sess EXCEPT ![s] = x]
  PROVE  Rounds' /\ sess' \in Seq(Session) /\ DOMAIN sess' = DOMAIN sess
<1>1. sess' \in Seq(Session) /\ Len(sess') = Len(sess) /\ DOMAIN sess' = DOMAIN sess
  BY DEF TypeOK
<1>2. \A i \in DOMAIN sess : sess'[i] = IF i = s THEN x ELSE sess[i]
  OBVIOUS
<1>3. Live' \subseteq Live
  BY <1>1, <1>2 DEF Live, Grows
<1>4. RoundOnce'
  BY <1>1 DEF Rounds, RoundOnce
<1>5. ASSUME gates # <<>>, NEW i \in 1..prog.round - 1
      PROVE  Passed(sess'[i], gates[i])
  <2>1. i \in DOMAIN sess /\ Passed(sess[i], gates[i])
    BY <1>5, RoundIsSession DEF Rounds, PassedBehind
  <2>2. CASE i # s
    BY <1>2, <2>1, <2>2
  <2>3. CASE i = s
    <3>1. sess'[i] = x
      BY <1>2, <2>1, <2>3
    <3> QED BY <2>1, <2>3, <3>1, Zenon DEF Passed, Grows
  <2> QED BY <2>2, <2>3
<1>6. PassedBehind'
  BY <1>5 DEF PassedBehind
<1>7. AtMostOneLive'
  BY <1>3 DEF Rounds, AtMostOneLive
<1> QED BY <1>1, <1>4, <1>6, <1>7 DEF Rounds

\* The next round is opened behind a row of rounds that have passed.
LEMMA RoundsOpened ==
  ASSUME TypeOK, Rounds, gates # <<>>, NextRound, UNCHANGED gates
  PROVE  /\ Rounds' /\ sess' \in Seq(Session)
         /\ prog' \in [round : Nat, sessions : Seq(DOMAIN sess'), gate : Gate]
<1> DEFINE n == prog.round
<1>1. /\ n \in Nat /\ DOMAIN sess = 1..n /\ Len(sess) = n
      /\ prog.sessions = [i \in 1..n |-> i]
      /\ sess \in Seq(Session)
  BY RoundIsSession DEF Rounds, RoundOnce, TypeOK
<1>2. /\ sess' = Append(sess, NewSession)
      /\ prog'.round = n + 1 /\ prog'.gate = "advancing"
      /\ prog'.sessions = Append(prog.sessions, n + 1)
      /\ prog' = [round |-> n + 1, gate |-> "advancing", sessions |-> prog'.sessions]
  BY <1>1 DEF NextRound
<1>3. /\ sess' \in Seq(Session) /\ Len(sess') = n + 1 /\ DOMAIN sess' = 1..(n + 1)
      /\ \A i \in 1..n : sess'[i] = sess[i]
      /\ sess'[n + 1] = NewSession
  BY <1>1, <1>2, OneMore, NewIsSession
<1>4. prog'.sessions = [i \in 1..(n + 1) |-> i]
  <2>1. [i \in 1..n |-> i] \in Seq(Nat) /\ Len([i \in 1..n |-> i]) = n
    BY <1>1
  <2>2. /\ Append([i \in 1..n |-> i], n + 1) \in Seq(Nat)
        /\ DOMAIN Append([i \in 1..n |-> i], n + 1) = 1..(n + 1)
        /\ \A j \in 1..n : Append([i \in 1..n |-> i], n + 1)[j] = [i \in 1..n |-> i][j]
        /\ Append([i \in 1..n |-> i], n + 1)[n + 1] = n + 1
    <3> HIDE DEF n
    <3> DEFINE q == [i \in 1..n |-> i]
    <3>1. q \in Seq(Nat) /\ Len(q) = n /\ n + 1 \in Nat
      BY <1>1, <2>1
    <3> HIDE DEF q
    <3>2. /\ Append(q, n + 1) \in Seq(Nat)
          /\ DOMAIN Append(q, n + 1) = 1..(n + 1) /\ DOMAIN q = 1..n
          /\ \A j \in DOMAIN q : Append(q, n + 1)[j] = q[j]
          /\ Append(q, n + 1)[n + 1] = n + 1
      BY <3>1, OneMore
    <3> QED BY <3>2 DEF q
  <2>3. \A j \in 1..(n + 1) : Append([i \in 1..n |-> i], n + 1)[j] = j
    BY <1>1, <2>2
  <2> QED BY <1>1, <1>2, <2>2, <2>3
<1>5. prog'.sessions \in Seq(DOMAIN sess')
  BY <1>1, <1>3, <1>4
<1>6. \A i \in 1..n : Passed(sess[i], gates[i])
  <2>1. n > 0 => Passed(sess[n], gates[n])
    BY LetsOn DEF NextRound, CanAdvance, Rounds
  <2>2. \A i \in 1..n - 1 : Passed(sess[i], gates[i])
    BY DEF Rounds, PassedBehind
  <2> QED BY <1>1, <2>1, <2>2
<1>7. PassedBehind'
  BY <1>1, <1>2, <1>3, <1>6 DEF PassedBehind
<1>8. Live' \subseteq {n + 1}
  BY <1>1, <1>3, <1>6 DEF Live, Passed
<1>9. AtMostOneLive'
  BY <1>8 DEF AtMostOneLive
<1>10. RoundOnce'
  BY <1>2, <1>3, <1>4 DEF RoundOnce
<1>11. /\ n + 1 \in Nat /\ "advancing" \in Gate
       /\ prog'.sessions \in Seq(DOMAIN sess')
  BY <1>1, <1>5 DEF Gate
<1>12. prog' \in [round : Nat, sessions : Seq(DOMAIN sess'), gate : Gate]
  <2> DEFINE m == n + 1
          q == prog'.sessions
          T == Seq(DOMAIN sess')
  <2>1. /\ m \in Nat /\ q \in T
        /\ prog' = [round |-> m, gate |-> "advancing", sessions |-> q]
    BY <1>2, <1>11
  <2> HIDE DEF m, q, T
  <2>2. prog' \in [round : Nat, sessions : T, gate : Gate]
    BY <1>11, <2>1
  <2> QED BY <2>2 DEF T
<1> QED BY <1>3, <1>7, <1>9, <1>10, <1>12, Zenon DEF Rounds

-----------------------------------------------------------------------------
(* The requests, step by step *)

ReqTyped == req \in [Requests -> {Idle} \cup Handling]

LEMMA RequestTyped ==
  ASSUME ReqTyped, NEW r \in Requests
  PROVE  /\ req[r].pc \in Reading => req[r] \in [pc : Reading, loaded : Statuses]
         /\ req[r].pc = "closing" => req[r] \in [pc : {"closing"}, loaded : Statuses, session : Nat]
<1>1. Idle.pc = "idle"
  BY DEF Idle
<1>2. "idle" \notin Reading /\ "closing" \notin Reading
  BY DEF Reading
<1>3. req[r] = Idle \/ req[r] \in Handling
  BY DEF ReqTyped
<1>4. CASE req[r] = Idle
  BY <1>1, <1>2, <1>4
<1>5. CASE req[r] \in [pc : Reading, loaded : Statuses]
  BY <1>2, <1>5
<1>6. CASE req[r] \in [pc : {"closing"}, loaded : Statuses, session : Nat]
  BY <1>2, <1>6
<1> QED BY <1>3, <1>4, <1>5, <1>6 DEF Handling

\* A request that has been answered.
LEMMA DoneStep ==
  ASSUME ReqTyped, NEW r \in Requests, Done(r)
  PROVE  ReqTyped' /\ RoundRequests' \subseteq RoundRequests
<1>1. Idle.pc = "idle"
  BY DEF Idle
<1>2. ReqTyped'
  BY DEF Done, ReqTyped
<1>3. \A q \in Requests : req'[q] = IF q = r THEN Idle ELSE req[q]
  BY DEF Done, ReqTyped
<1> QED BY <1>1, <1>2, <1>3 DEF RoundRequests

\* A request that has read the candidacy.
LEMMA LoadStep ==
  ASSUME ReqTyped, cand \in Statuses, NEW r \in Requests, NEW pc \in Reading, Loads(r, pc)
  PROVE  /\ ReqTyped'
         /\ pc \notin {"advancing", "enrolling", "launching"} => RoundRequests' \subseteq RoundRequests
<1> DEFINE x == [pc |-> pc, loaded |-> cand]
<1>1. x \in Handling /\ x.pc = pc
  BY DEF Handling
<1>2. req' = [req EXCEPT ![r] = x]
  BY DEF Loads
<1> HIDE DEF x
<1>3. ReqTyped' /\ \A q \in Requests : req'[q] = IF q = r THEN x ELSE req[q]
  BY <1>1, <1>2 DEF ReqTyped
<1> QED BY <1>1, <1>3 DEF RoundRequests

\* A request that goes on with the row it has read.
LEMMA GoStep ==
  ASSUME ReqTyped, NEW r \in Requests, NEW pc \in Reading, req[r].pc \in Reading, Goes(r, pc)
  PROVE  /\ ReqTyped'
         /\ pc \notin {"advancing", "enrolling", "launching"} => RoundRequests' \subseteq RoundRequests
<1>1. req[r] \in [pc : Reading, loaded : Statuses]
  BY RequestTyped
<1> DEFINE x == [req[r] EXCEPT !.pc = pc]
<1>2. x \in [pc : Reading, loaded : Statuses] /\ x.pc = pc
  BY <1>1
<1>3. req' = [req EXCEPT ![r] = x]
  BY DEF Goes
<1> HIDE DEF x
<1>4. x \in Handling
  BY <1>2 DEF Handling
<1>5. ReqTyped' /\ \A q \in Requests : req'[q] = IF q = r THEN x ELSE req[q]
  BY <1>3, <1>4 DEF ReqTyped
<1> QED BY <1>2, <1>5 DEF RoundRequests

\* The column is written with a status.
LEMMA WriteStep ==
  ASSUME cand \in Statuses, NEW loaded, NEW status \in Statuses, Write(loaded, status)
  PROVE  cand' \in Statuses
BY DEF Write

ProgTyped == prog \in {NoProgress} \cup [round : Nat, sessions : Seq(DOMAIN sess), gate : Gate]

\* The progress row after a call of _advance that opens no round.
LEMMA StopStep ==
  ASSUME TypeOK, NEW loaded, Stops(loaded)
  PROVE  /\ cand' \in Statuses
         /\ sess' = sess
         /\ prog'.round = prog.round /\ prog'.sessions = prog.sessions
         /\ ProgTyped'
         /\ prog = NoProgress => prog' = NoProgress
<1>1. \A status \in {"reviewed", "completed"} : Write(loaded, status) => cand' \in Statuses
  BY WriteStep DEF TypeOK, Statuses
<1>2. ASSUME CanAdvance, NEW g \in Gate, prog' = [prog EXCEPT !.gate = g], sess' = sess
      PROVE  /\ prog'.round = prog.round /\ prog'.sessions = prog.sessions
             /\ ProgTyped' /\ prog # NoProgress
  <2> DEFINE T == Seq(DOMAIN sess)
  <2>1. prog \in [round : Nat, sessions : T, gate : Gate] /\ prog # NoProgress
    BY <1>2 DEF TypeOK, CanAdvance
  <2> HIDE DEF T
  <2>2. /\ prog' \in [round : Nat, sessions : T, gate : Gate]
        /\ prog'.round = prog.round /\ prog'.sessions = prog.sessions
    BY <1>2, <2>1
  <2> QED BY <1>2, <2>1, <2>2 DEF T, ProgTyped
<1>3. {"ended", "awaiting_review", "completed"} \subseteq Gate
  BY DEF Gate
<1>4. CASE GateEnds(loaded)
  BY <1>1, <1>2, <1>3, <1>4 DEF GateEnds
<1>5. CASE GateWaits
  BY <1>2, <1>3, <1>5 DEF GateWaits, TypeOK
<1>6. CASE PipelineEnds(loaded)
  BY <1>1, <1>2, <1>3, <1>6 DEF PipelineEnds
<1>7. CASE ~CanAdvance /\ UNCHANGED <<cand, sess, prog>>
  BY <1>7 DEF TypeOK, ProgTyped
<1> QED BY <1>4, <1>5, <1>6, <1>7 DEF Stops

-----------------------------------------------------------------------------
(* The invariant is inductive *)

\* What a step leaves of the invariant to show when it takes no session further.
LEMMA Kept ==
  ASSUME IInv, UNCHANGED <<gates, sess>>,
         prog'.round = prog.round, prog'.sessions = prog.sessions, ProgTyped',
         gates # <<>> \/ prog' = prog, ReqTyped',
         gates # <<>> \/ RoundRequests' \subseteq RoundRequests,
         cand' \in Statuses, moves' \in NoSlot..MaxReschedules, consent' \in BOOLEAN,
         starting' \in Requests \cup {"nobody"}, edits' \in 0..MaxEdits
  PROVE  IInv'
<1>1. Rounds'
  BY RoundsKept DEF IInv
<1>2. PlanHasNoRounds'
  BY Zenon DEF IInv, PlanHasNoRounds
<1>3. gates' \in Pipelines /\ sess' \in Seq(Session)
  BY DEF IInv, TypeOK
<1>4. TypeOK'
  BY <1>3, Zenon DEF TypeOK, ProgTyped, ReqTyped
<1> QED BY <1>1, <1>2, <1>4 DEF IInv

\* The same for a step that takes one session further.
LEMMA Grown ==
  ASSUME IInv, UNCHANGED <<gates, prog, moves, consent, starting>>,
         NEW s \in DOMAIN sess, NEW x \in Session, Grows(s, x), sess' = [sess EXCEPT ![s] = x],
         ReqTyped', RoundRequests' \subseteq RoundRequests,
         cand' \in Statuses, edits' \in 0..MaxEdits
  PROVE  IInv'
<1>1. Rounds' /\ sess' \in Seq(Session) /\ DOMAIN sess' = DOMAIN sess
  BY RoundsGrow DEF IInv
<1>2. PlanHasNoRounds'
  BY Zenon DEF IInv, PlanHasNoRounds
<1>3. ProgTyped'
  BY <1>1 DEF IInv, TypeOK, ProgTyped
<1>4. /\ gates' \in Pipelines /\ moves' \in NoSlot..MaxReschedules
      /\ consent' \in BOOLEAN /\ starting' \in Requests \cup {"nobody"}
  BY DEF IInv, TypeOK
<1>5. TypeOK'
  BY <1>1, <1>3, <1>4, Zenon DEF TypeOK, ProgTyped, ReqTyped
<1> QED BY <1>1, <1>2, <1>5 DEF IInv

\* The same for a step that opens the next round.
LEMMA Opened ==
  ASSUME IInv, gates # <<>>, NextRound, UNCHANGED <<gates, moves, consent>>,
         ReqTyped', starting' \in Requests \cup {"nobody"}, edits' \in 0..MaxEdits
  PROVE  IInv'
<1>1. /\ Rounds' /\ sess' \in Seq(Session)
      /\ ProgTyped'
  BY RoundsOpened DEF IInv, ProgTyped
<1>2. PlanHasNoRounds'
  BY Zenon DEF PlanHasNoRounds
<1>3. /\ gates' \in Pipelines /\ moves' \in NoSlot..MaxReschedules
      /\ consent' \in BOOLEAN /\ cand' \in Statuses
  BY DEF IInv, TypeOK, NextRound
<1>4. TypeOK'
  BY <1>1, <1>3, Zenon DEF TypeOK, ProgTyped, ReqTyped
<1> QED BY <1>1, <1>2, <1>4 DEF IInv

LEMMA InvInit == Init => IInv
<1> SUFFICES ASSUME Init PROVE IInv
  OBVIOUS
<1>1. Idle.pc = "idle" /\ NoProgress.round = 0 /\ NoProgress.sessions = <<>>
  BY DEF Idle, NoProgress
<1>2. TypeOK
  <2>1. sess \in Seq(Session) /\ prog = NoProgress
    BY DEF Init
  <2>2. moves \in NoSlot..MaxReschedules /\ edits \in 0..MaxEdits /\ cand \in Statuses
    BY DEF Init, NoSlot, Statuses
  <2>3. req \in [Requests -> {Idle} \cup Handling] /\ consent \in BOOLEAN
    BY Zenon DEF Init
  <2>4. gates \in Pipelines /\ starting \in Requests \cup {"nobody"}
    BY DEF Init
  <2> QED BY <2>1, <2>2, <2>3, <2>4, Zenon DEF TypeOK
<1>3. PlanHasNoRounds
  BY <1>1 DEF Init, PlanHasNoRounds, RoundRequests
<1>4. Rounds
  BY <1>1 DEF Init, Rounds, RoundOnce, PassedBehind, AtMostOneLive, Live
<1> QED BY <1>2, <1>3, <1>4 DEF IInv

\* The parts of the type invariant, by name.
LEMMA Typed ==
  ASSUME IInv
  PROVE  /\ ProgTyped /\ ReqTyped
         /\ cand \in Statuses /\ moves \in NoSlot..MaxReschedules /\ consent \in BOOLEAN
         /\ starting \in Requests \cup {"nobody"} /\ edits \in 0..MaxEdits
         /\ sess \in Seq(Session)
BY DEF IInv, TypeOK, ProgTyped, ReqTyped

LEMMA EditStep == ASSUME IInv, Edit PROVE edits' \in 0..MaxEdits
BY DEF Edit, IInv, TypeOK

\* A request in a round of interviews is one of a pipeline.
LEMMA RoundsArePipelines ==
  ASSUME IInv, NEW r \in Requests, req[r].pc \in {"advancing", "enrolling", "launching"}
  PROVE  gates # <<>>
BY DEF IInv, PlanHasNoRounds, RoundRequests

\* A call of _advance, with the request it belongs to.
LEMMA AdvanceStep ==
  ASSUME IInv, NEW loaded, NextRound \/ Stops(loaded), UNCHANGED <<gates, moves, consent, edits>>,
         starting' \in Requests \cup {"nobody"}, ReqTyped',
         gates # <<>> \/ RoundRequests' \subseteq RoundRequests
  PROVE  IInv'
<1> USE Typed
<1>1. CASE NextRound
  <2>1. gates # <<>>
    BY <1>1 DEF NextRound, CanAdvance, IInv, PlanHasNoRounds
  <2> QED BY <1>1, <2>1, Opened
<1>2. CASE Stops(loaded)
  <2>1. /\ cand' \in Statuses /\ sess' = sess
        /\ prog'.round = prog.round /\ prog'.sessions = prog.sessions
        /\ ProgTyped' /\ (prog = NoProgress => prog' = NoProgress)
    BY <1>2, StopStep DEF IInv
  <2>2. gates # <<>> \/ prog' = prog
    BY <2>1 DEF IInv, PlanHasNoRounds
  <2> QED BY <2>1, <2>2, Kept
<1> QED BY <1>1, <1>2

\* The row is new: a candidacy enters its pipeline.
LEMMA EnterStep ==
  ASSUME IInv, prog = NoProgress, prog' = Started, UNCHANGED sess
  PROVE  prog'.round = prog.round /\ prog'.sessions = prog.sessions /\ ProgTyped'
<1>1. /\ Started.round = NoProgress.round /\ Started.sessions = NoProgress.sessions
  BY DEF Started, NoProgress
<1>2. Started \in [round : Nat, sessions : Seq(DOMAIN sess), gate : Gate]
  BY DEF Started, Gate
<1> QED BY <1>1, <1>2 DEF ProgTyped

\* A plan's session is opened when no other is live.
LEMMA StartPlanStep ==
  ASSUME IInv, NEW r \in Requests, StartPlan(r) PROVE IInv'
<1> USE Typed
<1>1. ReqTyped' /\ RoundRequests' \subseteq RoundRequests
  BY DoneStep DEF StartPlan
<1>2. gates = <<>> /\ prog = NoProgress /\ UNCHANGED <<gates, prog>>
  BY DEF StartPlan, IInv, PlanHasNoRounds
<1>3. /\ sess' \in Seq(Session) /\ DOMAIN sess' = 1..(Len(sess) + 1) /\ DOMAIN sess = 1..Len(sess)
      /\ Len(sess) \in Nat
      /\ \A i \in DOMAIN sess : sess'[i] = sess[i]
  BY OneMore, NewIsSession DEF StartPlan
<1>4. Live' \subseteq {Len(sess) + 1}
  <2> SUFFICES ASSUME NEW i \in DOMAIN sess', i # Len(sess) + 1,
                      sess'[i].status \in {"created", "in_progress"}
               PROVE  FALSE
    BY DEF Live
  <2>1. i \in DOMAIN sess
    BY <1>3
  <2> QED BY <1>3, <2>1 DEF Live, StartPlan
<1>5. Rounds'
  BY <1>2, <1>4 DEF Rounds, RoundOnce, PassedBehind, AtMostOneLive
<1>6. cand' \in Statuses
  BY WriteStep DEF StartPlan, Statuses
<1>7. PlanHasNoRounds' /\ ProgTyped'
  BY <1>1, <1>2 DEF IInv, PlanHasNoRounds, ProgTyped
<1>8. gates' \in Pipelines
  BY <1>2 DEF IInv, TypeOK
<1>9. TypeOK'
  BY <1>1, <1>3, <1>6, <1>7, <1>8, Zenon DEF TypeOK, ProgTyped, ReqTyped, StartPlan
<1> QED BY <1>5, <1>7, <1>9 DEF IInv

\* Requests that open a session or a pipeline.
LEMMA StartStep ==
  ASSUME IInv, NEW r \in Requests,
         StartRead(r) \/ Rejoin(r) \/ StartPipeline(r) \/ StartAdvance(r) \/ StartMark(r)
         \/ EnrolRead(r) \/ Enrol(r) \/ Launch(r)
  PROVE  IInv'
<1> USE Typed
<1>0. {"starting", "advancing", "marking", "enrolling", "launching"} \subseteq Reading
  BY DEF Reading
<1>1. CASE StartRead(r)
  <2>1. ReqTyped' /\ RoundRequests' \subseteq RoundRequests
    BY <1>0, <1>1, LoadStep DEF StartRead
  <2> QED BY <1>1, <2>1, Kept DEF StartRead, ProgTyped
<1>2. CASE Rejoin(r)
  <2>1. ReqTyped' /\ RoundRequests' \subseteq RoundRequests
    BY <1>2, DoneStep DEF Rejoin
  <2> QED BY <1>2, <2>1, Kept DEF Rejoin, ProgTyped
<1>3. CASE StartPipeline(r)
  <2>1. ReqTyped' /\ gates # <<>>
    BY <1>0, <1>3, GoStep DEF StartPipeline
  <2>2. prog'.round = prog.round /\ prog'.sessions = prog.sessions /\ ProgTyped'
    BY <1>3, EnterStep DEF StartPipeline, ProgTyped
  <2>3. starting' \in Requests \cup {"nobody"}
    BY <1>3 DEF StartPipeline
  <2> QED BY <1>3, <2>1, <2>2, <2>3, Kept DEF StartPipeline
<1>4. CASE StartAdvance(r)
  <2>1. ReqTyped'
    BY <1>0, <1>4, GoStep, DoneStep DEF StartAdvance
  <2>2. gates # <<>>
    BY <1>4, RoundsArePipelines DEF StartAdvance
  <2>3. starting' \in Requests \cup {"nobody"}
    BY <1>4 DEF StartAdvance
  <2> QED BY <1>4, <2>1, <2>2, <2>3, AdvanceStep DEF StartAdvance
<1>5. CASE StartMark(r)
  <2>1. ReqTyped' /\ RoundRequests' \subseteq RoundRequests
    BY <1>5, DoneStep DEF StartMark
  <2>2. cand' \in Statuses
    BY <1>5, WriteStep DEF StartMark, Statuses
  <2> QED BY <1>5, <2>1, <2>2, Kept DEF StartMark, ProgTyped
<1>6. CASE EnrolRead(r)
  <2>1. ReqTyped' /\ gates # <<>>
    BY <1>0, <1>6, LoadStep DEF EnrolRead
  <2> QED BY <1>6, <2>1, Kept DEF EnrolRead, ProgTyped
<1>7. CASE Enrol(r)
  <2>1. ReqTyped'
    BY <1>0, <1>7, GoStep, DoneStep DEF Enrol
  <2>2. gates # <<>>
    BY <1>7, RoundsArePipelines DEF Enrol
  <2>3. prog'.round = prog.round /\ prog'.sessions = prog.sessions /\ ProgTyped'
    BY <1>7, EnterStep DEF Enrol, ProgTyped
  <2> QED BY <1>7, <2>1, <2>2, <2>3, Kept DEF Enrol
<1>8. CASE Launch(r)
  <2>1. ReqTyped' /\ gates # <<>>
    BY <1>8, DoneStep, RoundsArePipelines DEF Launch
  <2> QED BY <1>8, <2>1, AdvanceStep DEF Launch
<1> QED BY <1>1, <1>2, <1>3, <1>4, <1>5, <1>6, <1>7, <1>8

\* The other requests of the portal.
LEMMA PortalStep ==
  ASSUME IInv, NEW r \in Requests,
         ScheduleRead(r, "scheduling") \/ ScheduleRead(r, "rescheduling") \/ Schedule(r)
         \/ DeclineRead(r) \/ Decline(r)
  PROVE  IInv'
<1> USE Typed
<1>1. ASSUME NEW pc \in {"scheduling", "rescheduling", "declining"},
             Loads(r, pc), Edit, UNCHANGED <<gates, cand, moves, consent, sess, prog, starting>>
      PROVE  IInv'
  <2>1. ReqTyped' /\ RoundRequests' \subseteq RoundRequests
    BY <1>1, LoadStep DEF Reading
  <2> QED BY <1>1, <2>1, EditStep, Kept DEF ProgTyped
<1>2. CASE Schedule(r)
  <2>1. ReqTyped' /\ RoundRequests' \subseteq RoundRequests
    BY <1>2, DoneStep DEF Schedule
  <2>2. cand' \in Statuses
    BY <1>2, WriteStep DEF Schedule, Statuses
  <2>3. moves' \in NoSlot..MaxReschedules
    BY <1>2 DEF Schedule, NoSlot
  <2> QED BY <1>2, <2>1, <2>2, <2>3, Kept DEF Schedule, ProgTyped
<1>3. CASE Decline(r)
  <2>1. ReqTyped' /\ RoundRequests' \subseteq RoundRequests
    BY <1>3, DoneStep DEF Decline
  <2>2. cand' \in Statuses
    BY <1>3, WriteStep DEF Decline, Statuses
  <2> QED BY <1>3, <2>1, <2>2, Kept DEF Decline, ProgTyped
<1> QED BY <1>1, <1>2, <1>3 DEF ScheduleRead, DeclineRead

\* The agent's closing of a session.
LEMMA CloseStep ==
  ASSUME IInv, NEW r \in Requests, Close(r) \/ \E s \in DOMAIN sess : CloseRead(r, s)
  PROVE  IInv'
<1> USE Typed
<1>1. ASSUME NEW s \in DOMAIN sess, CloseRead(r, s) PROVE IInv'
  <2> DEFINE x == [pc |-> "closing", loaded |-> cand, session |-> s]
  <2>1. s \in Nat
    OBVIOUS
  <2>2. x \in Handling /\ x.pc = "closing"
    BY <2>1 DEF Handling
  <2>3. req' = [req EXCEPT ![r] = x]
    BY <1>1 DEF CloseRead
  <2> HIDE DEF x
  <2>4. ReqTyped' /\ \A q \in Requests : req'[q] = IF q = r THEN x ELSE req[q]
    BY <2>2, <2>3 DEF ReqTyped
  <2>5. RoundRequests' \subseteq RoundRequests
    BY <2>2, <2>4 DEF RoundRequests
  <2> QED BY <1>1, <2>4, <2>5, Kept DEF CloseRead, ProgTyped
<1>2. CASE Close(r)
  <2>1. ReqTyped' /\ RoundRequests' \subseteq RoundRequests
    BY <1>2, DoneStep DEF Close
  <2>2. cand' \in Statuses
    BY <1>2, WriteStep DEF Close, Statuses
  <2> DEFINE s == req[r].session
             x == [sess[s] EXCEPT !.status = "completed"]
  <2>3. sess' = [sess EXCEPT ![s] = x] /\ UNCHANGED <<gates, prog, moves, consent, starting, edits>>
    BY <1>2 DEF Close
  <2>4. CASE s \in DOMAIN sess
    <3>1. sess[s] \in Session
      BY <2>4
    <3>2. x \in Session /\ Grows(s, x)
      BY <3>1 DEF Session, Grows
    <3> HIDE DEF s, x
    <3> QED BY <2>1, <2>2, <2>3, <2>4, <3>2, Grown
  <2>5. CASE s \notin DOMAIN sess
    <3>1. sess' = sess
      BY <2>3, <2>5
    <3> QED BY <2>1, <2>2, <2>3, <3>1, Kept DEF ProgTyped
  <2> QED BY <2>4, <2>5
<1> QED BY <1>1, <1>2

\* What happens to a session otherwise.
LEMMA SessionStep ==
  ASSUME IInv, NEW s \in DOMAIN sess, Conduct(s) \/ Abort(s) \/ Evaluate(s) \/ Decide(s)
  PROVE  IInv'
<1> USE Typed
<1>1. sess[s] \in Session
  OBVIOUS
<1>2. ASSUME NEW x \in Session, Grows(s, x), sess' = [sess EXCEPT ![s] = x],
             UNCHANGED <<gates, cand, moves, consent, prog, starting, req>>,
             edits' \in 0..MaxEdits
      PROVE  IInv'
  <2>1. ReqTyped' /\ RoundRequests' \subseteq RoundRequests
    BY <1>2 DEF ReqTyped, RoundRequests
  <2> QED BY <1>2, <2>1, Grown
<1>3. CASE Conduct(s)
  <2> DEFINE x == [sess[s] EXCEPT !.conducted = TRUE,
                                  !.status = IF consent THEN "in_progress" ELSE @]
  <2>1. sess' = [sess EXCEPT ![s] = x]
    BY <1>3 DEF Conduct
  <2>2. x \in Session /\ Grows(s, x)
    BY <1>1, <1>3 DEF Session, Grows, Conduct, Live
  <2> HIDE DEF x
  <2> QED BY <1>2, <1>3, <2>1, <2>2 DEF Conduct
<1>4. CASE Abort(s)
  <2> DEFINE x == [sess[s] EXCEPT !.status = "aborted"]
  <2>1. sess' = [sess EXCEPT ![s] = x] /\ edits' \in 0..MaxEdits
    BY <1>4, EditStep DEF Abort
  <2>2. x \in Session /\ Grows(s, x)
    BY <1>1, <1>4 DEF Session, Grows, Abort, Live
  <2> HIDE DEF x
  <2> QED BY <1>2, <1>4, <2>1, <2>2 DEF Abort
<1>5. CASE Evaluate(s)
  <2>1. PICK score \in {"pass", "fail"} : sess' = [sess EXCEPT ![s].score = score]
    BY <1>5 DEF Evaluate
  <2> DEFINE x == [sess[s] EXCEPT !.score = score]
  <2>2. sess' = [sess EXCEPT ![s] = x]
    BY <2>1
  <2>3. x \in Session /\ Grows(s, x)
    BY <1>1, <1>5 DEF Session, Grows, Evaluate, Live
  <2> HIDE DEF x
  <2> QED BY <1>2, <1>5, <2>2, <2>3 DEF Evaluate
<1>6. CASE Decide(s)
  <2>1. PICK d \in {"confirm", "override"} :
               sess' = [sess EXCEPT ![s].decisions = Append(@, d)]
    BY <1>6 DEF Decide
  <2> DEFINE ds == Append(sess[s].decisions, d)
             x == [sess[s] EXCEPT !.decisions = ds]
  <2>2. sess' = [sess EXCEPT ![s] = x]
    BY <2>1
  <2>3. sess[s].decisions \in Seq({"confirm", "override"})
    BY <1>1 DEF Session
  <2>4. /\ ds \in Seq({"confirm", "override"})
        /\ \A k \in DOMAIN sess[s].decisions : k \in DOMAIN ds /\ ds[k] = sess[s].decisions[k]
    <3>1. DOMAIN sess[s].decisions \subseteq DOMAIN ds
      BY <2>3
    <3> QED BY <2>3, <3>1, OneMore
  <2> HIDE DEF ds
  <2>5. x \in Session /\ Grows(s, x)
    BY <1>1, <2>4 DEF Session, Grows, Live
  <2> HIDE DEF x
  <2> QED BY <1>2, <1>6, <2>2, <2>5 DEF Decide
<1> QED BY <1>3, <1>4, <1>5, <1>6

\* Every step keeps the invariant.
LEMMA InvStep == IInv /\ [Next]_vars => IInv'
<1> SUFFICES ASSUME IInv, [Next]_vars PROVE IInv'
  OBVIOUS
<1> USE Typed
<1>1. ASSUME NEW r \in Requests, Request(r) PROVE IInv'
  BY <1>1, StartPlanStep, StartStep, PortalStep, CloseStep DEF Request
<1>2. CASE AdvanceNow
  <2>1. ReqTyped' /\ RoundRequests' \subseteq RoundRequests
    BY <1>2 DEF AdvanceNow, ReqTyped, RoundRequests
  <2> QED BY <1>2, <2>1, AdvanceStep DEF AdvanceNow
<1>3. CASE RecordConsent
  <2>1. ReqTyped' /\ RoundRequests' \subseteq RoundRequests /\ consent' \in BOOLEAN
    BY <1>3 DEF RecordConsent, ReqTyped, RoundRequests
  <2> QED BY <1>3, <2>1, EditStep, Kept DEF RecordConsent, ProgTyped
<1>4. CASE Erase
  <2>1. ReqTyped' /\ RoundRequests' \subseteq RoundRequests /\ cand' \in Statuses
    BY <1>4 DEF Erase, ReqTyped, RoundRequests, Statuses
  <2> QED BY <1>4, <2>1, EditStep, Kept DEF Erase, ProgTyped
<1>5. CASE UNCHANGED vars
  <2>1. ReqTyped' /\ RoundRequests' \subseteq RoundRequests
    BY <1>5 DEF vars, ReqTyped, RoundRequests
  <2> QED BY <1>5, <2>1, Kept DEF vars, ProgTyped
<1> QED BY <1>1, <1>2, <1>3, <1>4, <1>5, SessionStep DEF Next

LEMMA InvHolds == Spec => []IInv
BY InvInit, InvStep, PTL DEF Spec

-----------------------------------------------------------------------------
(* The theorems *)

\* Every column, lock and request keeps its type: the reschedule count its limit, the
\* sessions a pipeline names are sessions there are.
THEOREM TypeCorrect == Spec => []TypeOK
<1>1. IInv => TypeOK
  BY DEF IInv
<1> QED BY InvHolds, <1>1, PTL

\* Each round of a pipeline has exactly one session, whoever clicks, reloads or retries.
THEOREM OneSessionPerRound == Spec => []RoundOnce
<1>1. IInv => RoundOnce
  BY DEF IInv, Rounds
<1> QED BY InvHolds, <1>1, PTL

\* A candidate is never in two interviews at once, in a plan or in a pipeline.
THEOREM NeverTwoInterviews == Spec => []OneLiveSession
<1>1. IInv => OneLiveSession
  BY RoundsSeen DEF IInv
<1> QED BY InvHolds, <1>1, PTL

\* Every round that was opened stands behind completed ones that passed their gates.
THEOREM GatesNeverSkipped == Spec => []GatesHeld
<1>1. IInv => GatesHeld
  BY RoundsSeen DEF IInv
<1> QED BY InvHolds, <1>1, PTL

\* Once a pipeline has ended or is completed, no request changes that or opens a session.
THEOREM OutcomeStays == Spec => OutcomeIsFinal
<1>1. IInv /\ [Next]_vars => [prog.gate \in Settled => prog' = prog /\ Len(sess') = Len(sess)]_vars
  <2> SUFFICES ASSUME IInv, Next, prog.gate \in Settled
               PROVE  prog' = prog /\ Len(sess') = Len(sess)
    OBVIOUS
  <2> USE Typed
  <2>1. prog # NoProgress /\ gates # <<>>
    BY DEF NoProgress, Settled, IInv, PlanHasNoRounds
  <2>2. ~CanAdvance
    BY DEF CanAdvance
  <2>3. ~NextRound /\ \A loaded : Stops(loaded) => UNCHANGED <<sess, prog>>
    BY <2>2 DEF NextRound, Stops, GateEnds, GateWaits, PipelineEnds
  <2>4. ASSUME NEW r \in Requests, Request(r) PROVE prog' = prog /\ Len(sess') = Len(sess)
    <3>1. CASE StartRead(r) \/ Rejoin(r) \/ StartPlan(r) \/ StartPipeline(r)
      BY <2>1, <3>1 DEF StartRead, Rejoin, StartPlan, StartPipeline
    <3>2. CASE StartAdvance(r) \/ StartMark(r) \/ EnrolRead(r) \/ Enrol(r) \/ Launch(r)
      BY <2>1, <2>3, <3>2 DEF StartAdvance, StartMark, EnrolRead, Enrol, Launch
    <3>3. CASE \/ ScheduleRead(r, "scheduling") \/ ScheduleRead(r, "rescheduling")
               \/ Schedule(r) \/ DeclineRead(r) \/ Decline(r)
      BY <3>3 DEF ScheduleRead, Schedule, DeclineRead, Decline
    <3>4. CASE Close(r)
      BY <3>4 DEF Close
    <3>5. ASSUME NEW s \in DOMAIN sess, CloseRead(r, s)
          PROVE  prog' = prog /\ Len(sess') = Len(sess)
      BY <3>5 DEF CloseRead
    <3> QED BY <2>4, <3>1, <3>2, <3>3, <3>4, <3>5 DEF Request
  <2>5. ASSUME NEW s \in DOMAIN sess, Conduct(s) \/ Abort(s) \/ Evaluate(s) \/ Decide(s)
        PROVE  prog' = prog /\ Len(sess') = Len(sess)
    <3>1. prog' = prog /\ \E x : sess' = [sess EXCEPT ![s] = x]
      BY <2>5 DEF Conduct, Abort, Evaluate, Decide
    <3> QED BY <3>1
  <2>6. CASE AdvanceNow \/ RecordConsent \/ Erase
    BY <2>3, <2>6 DEF AdvanceNow, RecordConsent, Erase
  <2> QED BY <2>4, <2>5, <2>6 DEF Next
<1> QED BY InvHolds, <1>1, PTL DEF Spec, OutcomeIsFinal
=============================================================================
