--------------------------- MODULE Capacity_proofs ---------------------------
(* Theorems about Capacity: for any number of requests and candidacies and   *)
(* any caps, no moment is overbooked and an account keeps to its demos.      *)
EXTENDS Capacity, FiniteSetTheorems, TLAPS

USE CapacityAssumption DEF CapacityAssumption

\* A request between its decision and its commit.
HoldsSchedule(r) == req[r].pc = "admitted"
HoldsDemo(r) == req[r].pc \in {"planning", "admitted demo"}

\* Whoever has decided holds the lock he decided under, but for the one request
\* that committed the demo plan.
LockInv ==
  \A r \in Requests :
    /\ HoldsSchedule(r) => lock["schedule"] = r
    /\ HoldsDemo(r) => lock["demo"] = r

\* What a booking found stays true until it commits.
BookingInv ==
  \A r \in Requests : HoldsSchedule(r) =>
    /\ ~Full(req[r].start)
    /\ slot[req[r].cand] # NoSlot /\ ~req[r].staff => moves[req[r].cand] < MaxReschedules

Extra == IF early THEN 1 ELSE 0

\* The plan is committed once, by one request, and no second demo comes early.
PlanInv ==
  /\ early => plan
  /\ \A r \in Requests :
       /\ req[r].pc = "planning" => ~plan
       /\ req[r].pc = "unlocked" => plan /\ ~early
       /\ \A q \in Requests : req[r].pc = "unlocked" /\ req[q].pc = "unlocked" => r = q

\* What a demo found stays true until it commits, but for the early one.
DemoInv ==
  \A r \in Requests : HoldsDemo(r) => active <= Extra /\ active + over < DemoLimit + Extra

IInv == TypeOK /\ LockInv /\ BookingInv /\ CapHolds /\ PlanInv /\ DemoInv /\ DemosCapped

---------------------------------------------------------------------------
LEMMA RequestTypes ==
  ASSUME TypeOK, NEW r \in Requests
  PROVE  /\ req[r] \in Booking \cup Demo \cup {Idle}
         /\ req[r].pc \in {"idle", "asking", "admitted", "asking demo", "planning",
                           "unlocked", "admitted demo"}
         /\ req[r].pc \in {"asking", "admitted"} => req[r] \in Booking
<1>1. req[r] \in Booking \cup Demo \cup {Idle}
  BY DEF TypeOK
<1>2. CASE req[r] \in Booking
  BY <1>1, <1>2 DEF Booking
<1>3. CASE req[r] \in Demo
  BY <1>1, <1>3 DEF Demo
<1>4. CASE req[r] = Idle
  BY <1>1, <1>4 DEF Idle
<1> QED BY <1>1, <1>2, <1>3, <1>4

\* Releasing what one request holds leaves the others theirs.
LEMMA Released ==
  ASSUME TypeOK, LockInv, NEW r \in Requests, Release(r),
         NEW x, Become(r, x), x.pc \notin {"admitted", "planning", "admitted demo"}
  PROVE  LockInv'
<1> SUFFICES ASSUME NEW q \in Requests
             PROVE  /\ HoldsSchedule(q)' => lock'["schedule"] = q
                    /\ HoldsDemo(q)' => lock'["demo"] = q
  BY DEF LockInv
<1>1. CASE q = r
  BY <1>1 DEF Become, HoldsSchedule, HoldsDemo, TypeOK
<1>2. CASE q # r
  <2>1. req'[q] = req[q]
    BY <1>2 DEF Become, TypeOK
  <2>2. lock["schedule"] = q => lock'["schedule"] = q
    BY <1>2 DEF Release, Locks
  <2>3. lock["demo"] = q => lock'["demo"] = q
    BY <1>2 DEF Release, Locks
  <2> QED BY <2>1, <2>2, <2>3 DEF LockInv, HoldsSchedule, HoldsDemo
<1> QED BY <1>1, <1>2

\* No two requests are past the same decision.
LEMMA OneHolder ==
  ASSUME LockInv, NEW r \in Requests, NEW q \in Requests
  PROVE  /\ HoldsSchedule(r) /\ HoldsSchedule(q) => r = q
         /\ HoldsDemo(r) /\ HoldsDemo(q) => r = q
BY DEF LockInv

LEMMA TypeInit == Init => TypeOK
<1> SUFFICES ASSUME Init PROVE TypeOK
  OBVIOUS
<1>1. req \in [Requests -> Booking \cup Demo \cup {Idle}]
  BY DEF Init
<1>2. lock \in [Locks -> Requests \cup {Nobody}]
  BY DEF Init
<1>3. slot \in [Candidacies -> Times \cup {NoSlot}] /\ moves \in [Candidacies -> 0..MaxReschedules]
  BY DEF Init
<1>4. now \in 0..MaxTime /\ active \in Nat /\ over \in Nat
  BY DEF Init
<1>5. plan \in BOOLEAN /\ early \in BOOLEAN
  BY DEF Init
<1> QED BY <1>1, <1>2, <1>3, <1>4, <1>5, Zenon DEF TypeOK

LEMMA Initially == Init => IInv
<1> SUFFICES ASSUME Init PROVE IInv
  OBVIOUS
<1>1. TypeOK
  BY TypeInit
<1>2. \A r \in Requests : req[r].pc = "idle"
  BY DEF Init, Idle
<1>3. CapHolds
  <2> SUFFICES ASSUME NEW t \in Times
               PROVE  Cardinality({c \in Candidacies :
                        slot[c] # NoSlot /\ slot[c] <= t /\ t < slot[c] + SlotLength}) <= Cap
    BY DEF CapHolds
  <2>1. {c \in Candidacies : slot[c] # NoSlot /\ slot[c] <= t /\ t < slot[c] + SlotLength} = {}
    BY DEF Init
  <2> QED BY <2>1, FS_EmptySet
<1>4. DemosCapped
  BY DEF Init, DemosCapped
<1> QED
  BY <1>1, <1>2, <1>3, <1>4 DEF IInv, LockInv, BookingInv, PlanInv, DemoInv, HoldsSchedule,
     HoldsDemo, Init

---------------------------------------------------------------------------
LEMMA ReleaseType ==
  ASSUME TypeOK, NEW r \in Requests, Release(r)
  PROVE  lock' \in [Locks -> Requests \cup {Nobody}]
BY DEF TypeOK, Release

LEMMA BecomeType ==
  ASSUME TypeOK, NEW r \in Requests, NEW x \in Booking \cup Demo \cup {Idle}, Become(r, x)
  PROVE  req' \in [Requests -> Booking \cup Demo \cup {Idle}]
BY DEF TypeOK, Become

\* What a step that books nothing and lets nobody in leaves true.
LEMMA SlotsSame ==
  ASSUME BookingInv, CapHolds, UNCHANGED <<slot, moves>>,
         \A q \in Requests : HoldsSchedule(q)' => req'[q] = req[q]
  PROVE  BookingInv' /\ CapHolds'
<1>1. CapHolds'
  BY DEF CapHolds
<1>2. BookingInv'
  BY DEF BookingInv, HoldsSchedule, Full, Overlapping
<1> QED BY <1>1, <1>2

\* And one that concerns no demo.
LEMMA DemosSame ==
  ASSUME PlanInv, DemoInv, DemosCapped, UNCHANGED <<active, over, plan, early>>,
         \A q \in Requests : req'[q].pc \in {"planning", "unlocked", "admitted demo"}
                               => req'[q] = req[q]
  PROVE  PlanInv' /\ DemoInv' /\ DemosCapped'
<1>1. PlanInv'
  BY DEF PlanInv
<1>2. DemoInv'
  BY DEF DemoInv, HoldsDemo, Extra
<1>3. DemosCapped'
  BY DEF DemosCapped
<1> QED BY <1>1, <1>2, <1>3

\* A step of one request that only moves on, without a lock.
LEMMA MovesOn ==
  ASSUME IInv, NEW r \in Requests, NEW x \in Booking \cup Demo \cup {Idle}, Become(r, x),
         x.pc \in {"idle", "asking", "asking demo"}, Release(r) \/ UNCHANGED lock,
         UNCHANGED <<now, slot, moves, active, over, plan, early>>
  PROVE  IInv'
<1>0. \A q \in Requests : req'[q] = IF q = r THEN x ELSE req[q]
  BY DEF Become, IInv, TypeOK
<1>1. TypeOK'
  <2>1. req' \in [Requests -> Booking \cup Demo \cup {Idle}]
    BY BecomeType DEF IInv
  <2>2. lock' \in [Locks -> Requests \cup {Nobody}]
    BY ReleaseType DEF IInv, TypeOK
  <2> QED BY <2>1, <2>2, Zenon DEF IInv, TypeOK
<1>2. LockInv'
  <2>1. CASE Release(r)
    BY <2>1, Released DEF IInv
  <2>2. CASE UNCHANGED lock
    BY <1>0, <2>2 DEF IInv, LockInv, HoldsSchedule, HoldsDemo
  <2> QED BY <2>1, <2>2
<1>3. BookingInv' /\ CapHolds'
  BY <1>0, SlotsSame DEF IInv, HoldsSchedule
<1>4. PlanInv' /\ DemoInv' /\ DemosCapped'
  BY <1>0, DemosSame DEF IInv
<1> QED BY <1>1, <1>2, <1>3, <1>4 DEF IInv

---------------------------------------------------------------------------
(* Booking *)

LEMMA AskStep ==
  ASSUME IInv, NEW r \in Requests, NEW c \in Candidacies, NEW t \in Times,
         NEW staff \in BOOLEAN, Ask(r, c, t, staff)
  PROVE  IInv'
<1>1. [pc |-> "asking", cand |-> c, start |-> t, staff |-> staff] \in Booking
  BY DEF Booking
<1> QED BY <1>1, MovesOn DEF Ask

LEMMA AdmitStep ==
  ASSUME IInv, NEW r \in Requests, Admit(r)
  PROVE  IInv'
<1>1. CASE Become(r, Idle) /\ UNCHANGED lock
  BY <1>1, MovesOn DEF Admit, Idle
<1>2. CASE /\ ~Full(req[r].start) /\ MayMove(r)
           /\ lock' = [lock EXCEPT !["schedule"] = r]
           /\ Become(r, [req[r] EXCEPT !.pc = "admitted"])
  <2> DEFINE x == [req[r] EXCEPT !.pc = "admitted"]
  <2>1. req[r] \in Booking /\ req[r].pc = "asking"
    BY RequestTypes DEF IInv, Admit
  <2>2. /\ x \in Booking /\ x.pc = "admitted" /\ x.start = req[r].start
        /\ x.cand = req[r].cand /\ x.staff = req[r].staff
    BY <2>1 DEF Booking
  <2>3. \A q \in Requests : req'[q] = IF q = r THEN x ELSE req[q]
    BY <1>2 DEF Become, IInv, TypeOK
  <2>4. UNCHANGED <<now, slot, moves, active, over, plan, early>>
    BY DEF Admit
  <2>5. lock' = [lock EXCEPT !["schedule"] = r] /\ lock["schedule"] = Nobody
    BY <1>2 DEF Admit, Taken
  <2>6. TypeOK'
    <3>1. req' \in [Requests -> Booking \cup Demo \cup {Idle}]
      BY <1>2, <2>2, BecomeType DEF IInv
    <3>2. lock' \in [Locks -> Requests \cup {Nobody}]
      BY <2>5 DEF IInv, TypeOK, Locks
    <3> QED BY <2>4, <3>1, <3>2, Zenon DEF IInv, TypeOK
  <2>7. LockInv'
    <3>1. lock'["schedule"] = r /\ lock'["demo"] = lock["demo"]
      BY <2>5 DEF IInv, TypeOK, Locks
    <3>2. \A q \in Requests : ~HoldsSchedule(q)
      BY <2>5 DEF IInv, LockInv, Nobody
    <3> QED BY <2>2, <2>3, <3>1, <3>2 DEF IInv, LockInv, HoldsSchedule, HoldsDemo
  <2>8. BookingInv'
    <3>1. \A q \in Requests : HoldsSchedule(q)' => q = r
      BY <2>3, <2>5 DEF IInv, LockInv, HoldsSchedule, Nobody
    <3>2. ~Full(req[r].start)'
      BY <1>2, <2>2, <2>3, <2>4 DEF Full, Overlapping
    <3>3. slot[x.cand] # NoSlot /\ ~x.staff => moves[x.cand] < MaxReschedules
      BY <1>2, <2>2 DEF MayMove
    <3> QED BY <2>3, <2>4, <3>1, <3>2, <3>3 DEF BookingInv
  <2>9. CapHolds'
    BY <2>4 DEF IInv, CapHolds
  <2>10. PlanInv' /\ DemoInv' /\ DemosCapped'
    BY <2>2, <2>3, <2>4, DemosSame DEF IInv
  <2> QED BY <2>6, <2>7, <2>8, <2>9, <2>10 DEF IInv
<1> QED BY <1>1, <1>2 DEF Admit

\* The candidacies whose slot covers a moment, as CapHolds counts them.
Covering(t) ==
  {c \in Candidacies : slot[c] # NoSlot /\ slot[c] <= t /\ t < slot[c] + SlotLength}

\* A moment within the new slot was covered by slots that overlap it; any other
\* moment is covered by nothing new.
LEMMA BookedWithin ==
  ASSUME TypeOK, CapHolds, NEW c \in Candidacies, NEW start \in Times, ~Full(start),
         slot' = [slot EXCEPT ![c] = start], NEW t \in Times
  PROVE  Cardinality(Covering(t)') <= Cap
<1>0. \A d \in Candidacies : slot[d] \in Nat /\ slot'[d] = IF d = c THEN start ELSE slot[d]
  BY DEF TypeOK, Times, NoSlot
<1>1. start \in Nat /\ t \in Nat
  BY DEF Times
<1>2. CASE start <= t /\ t < start + SlotLength
  <2> DEFINE O == Overlapping(start)
  <2>1. Covering(t)' \subseteq O \cup {c}
    BY <1>0, <1>1, <1>2 DEF Covering, Overlapping
  <2>2. IsFiniteSet(O) /\ Cardinality(O) \in Nat
    BY FS_Subset, FS_CardinalityType DEF Overlapping
  <2>3. Cardinality(O) < Cap
    BY <2>2 DEF Full
  <2>4. /\ IsFiniteSet(O \cup {c})
        /\ Cardinality(O \cup {c}) = IF c \in O THEN Cardinality(O) ELSE Cardinality(O) + 1
    BY <2>2, FS_AddElement
  <2>5. Cardinality(Covering(t)') <= Cardinality(O \cup {c})
    BY <2>1, <2>4, FS_Subset
  <2>6. Cardinality(Covering(t)') \in Nat
    BY <2>1, <2>4, FS_Subset, FS_CardinalityType
  <2> HIDE DEF O
  <2> QED BY <2>2, <2>3, <2>4, <2>5, <2>6
<1>3. CASE ~(start <= t /\ t < start + SlotLength)
  <2>1. Covering(t)' \subseteq Covering(t)
    BY <1>0, <1>1, <1>3 DEF Covering
  <2>2. IsFiniteSet(Covering(t)) /\ Cardinality(Covering(t)) \in Nat
    BY FS_Subset, FS_CardinalityType DEF Covering
  <2>3. Cardinality(Covering(t)') <= Cardinality(Covering(t))
    BY <2>1, <2>2, FS_Subset
  <2>4. Cardinality(Covering(t)') \in Nat
    BY <2>1, <2>2, FS_Subset, FS_CardinalityType
  <2>5. Cardinality(Covering(t)) <= Cap
    BY DEF CapHolds, Covering
  <2> QED BY <2>2, <2>3, <2>4, <2>5
<1> QED BY <1>2, <1>3

LEMMA BookStep ==
  ASSUME IInv, NEW r \in Requests, Book(r)
  PROVE  IInv'
<1>1. req[r] \in Booking /\ HoldsSchedule(r)
  BY RequestTypes DEF IInv, Book, HoldsSchedule
<1>2. PICK c \in Candidacies, start \in Times : c = req[r].cand /\ start = req[r].start
  BY <1>1 DEF Booking
<1>3. slot' = [slot EXCEPT ![c] = start]
  BY <1>2 DEF Book
<1>4. \A q \in Requests : req'[q] = IF q = r THEN Idle ELSE req[q]
  BY DEF Book, Become, IInv, TypeOK
<1>5. ~Full(start)
  BY <1>1, <1>2 DEF IInv, BookingInv
<1>6. TypeOK'
  <2>1. slot' \in [Candidacies -> Times \cup {NoSlot}]
    BY <1>3 DEF IInv, TypeOK
  <2>2. moves' \in [Candidacies -> 0..MaxReschedules]
    <3>1. slot[c] # NoSlot /\ ~req[r].staff => moves[c] < MaxReschedules
      BY <1>1, <1>2 DEF IInv, BookingInv
    <3>2. moves' = [moves EXCEPT ![c] = IF slot[c] = NoSlot \/ req[r].staff THEN moves[c]
                                         ELSE moves[c] + 1]
      BY <1>2 DEF Book
    <3> QED BY <3>1, <3>2 DEF IInv, TypeOK
  <2>3. req' \in [Requests -> Booking \cup Demo \cup {Idle}]
    BY BecomeType DEF IInv, Book
  <2>4. lock' \in [Locks -> Requests \cup {Nobody}]
    BY ReleaseType DEF IInv, Book
  <2>5. UNCHANGED <<now, active, over, plan, early>>
    BY DEF Book
  <2> QED BY <2>1, <2>2, <2>3, <2>4, <2>5, Zenon DEF IInv, TypeOK
<1>7. LockInv'
  BY Released DEF IInv, Book, Idle
<1>8. BookingInv'
  <2>1. \A q \in Requests : ~HoldsSchedule(q)'
    BY <1>1, <1>4, OneHolder DEF IInv, HoldsSchedule, Idle
  <2> QED BY <2>1 DEF BookingInv
<1>9. CapHolds'
  BY <1>3, <1>5, BookedWithin DEF IInv, CapHolds, Covering
<1>10. PlanInv' /\ DemoInv' /\ DemosCapped'
  <2>0. Idle.pc = "idle"
    BY DEF Idle
  <2>1. \A q \in Requests : req'[q].pc \in {"planning", "unlocked", "admitted demo"} => req'[q] = req[q]
    BY <1>4, <2>0
  <2>2. UNCHANGED <<active, over, plan, early>>
    BY DEF Book
  <2> QED BY <2>1, <2>2, DemosSame DEF IInv
<1> QED BY <1>6, <1>7, <1>8, <1>9, <1>10 DEF IInv

LEMMA DiesStep ==
  ASSUME IInv, NEW r \in Requests, Dies(r)
  PROVE  IInv'
BY MovesOn DEF Dies, Idle

---------------------------------------------------------------------------
(* Demos *)

LEMMA AskDemoStep ==
  ASSUME IInv, NEW r \in Requests, AskDemo(r)
  PROVE  IInv'
<1>1. [pc |-> "asking demo"] \in Demo
  BY DEF Demo
<1> QED BY <1>1, MovesOn DEF AskDemo

\* What all steps of a demo have in common.
LEMMA DemoStep ==
  ASSUME IInv, NEW r \in Requests, NEW x \in Demo \cup {Idle}, Become(r, x),
         lock' \in [Locks -> Requests \cup {Nobody}], UNCHANGED <<now, slot, moves>>,
         active' \in Nat, over' \in Nat, plan' \in BOOLEAN, early' \in BOOLEAN
  PROVE  /\ TypeOK' /\ BookingInv' /\ CapHolds'
         /\ \A q \in Requests : req'[q] = IF q = r THEN x ELSE req[q]
<1>1. \A q \in Requests : req'[q] = IF q = r THEN x ELSE req[q]
  BY DEF Become, IInv, TypeOK
<1>2. req' \in [Requests -> Booking \cup Demo \cup {Idle}]
  BY BecomeType DEF IInv
<1>3. TypeOK'
  BY <1>2, Zenon DEF IInv, TypeOK
<1>4. x.pc # "admitted"
  <2>1. CASE x \in Demo
    BY <2>1 DEF Demo
  <2>2. CASE x = Idle
    BY <2>2 DEF Idle
  <2> QED BY <2>1, <2>2
<1>5. BookingInv' /\ CapHolds'
  BY <1>1, <1>4, SlotsSame DEF IInv, HoldsSchedule
<1> QED BY <1>1, <1>3, <1>5

LEMMA AdmitDemoStep ==
  ASSUME IInv, NEW r \in Requests, AdmitDemo(r)
  PROVE  IInv'
<1>1. CASE Become(r, Idle) /\ UNCHANGED lock
  BY <1>1, MovesOn DEF AdmitDemo, Idle
<1>2. CASE /\ DemoAdmitted
           /\ lock' = [lock EXCEPT !["demo"] = r]
           /\ Become(r, [pc |-> IF plan THEN "admitted demo" ELSE "planning"])
  <2>1. PICK x \in Demo : /\ Become(r, x) /\ x.pc \in {"planning", "admitted demo"}
                          /\ x.pc = "planning" => ~plan
    <3>1. CASE plan
      <4>1. [pc |-> "admitted demo"] \in Demo
        BY DEF Demo
      <4> QED BY <1>2, <3>1, <4>1
    <3>2. CASE ~plan
      <4>1. [pc |-> "planning"] \in Demo
        BY DEF Demo
      <4> QED BY <1>2, <3>2, <4>1
    <3> QED BY <3>1, <3>2
  <2>2. UNCHANGED <<now, slot, moves, active, over, plan, early>>
    BY DEF AdmitDemo
  <2>3. lock["demo"] = Nobody
    BY DEF AdmitDemo, Taken
  <2>4. /\ lock' \in [Locks -> Requests \cup {Nobody}]
        /\ lock'["demo"] = r /\ lock'["schedule"] = lock["schedule"]
    BY <1>2 DEF IInv, TypeOK, Locks
  <2>5. /\ TypeOK' /\ BookingInv' /\ CapHolds'
        /\ \A q \in Requests : req'[q] = IF q = r THEN x ELSE req[q]
    <3>1. active' \in Nat /\ over' \in Nat /\ plan' \in BOOLEAN /\ early' \in BOOLEAN
      BY <2>2, Zenon DEF IInv, TypeOK
    <3> QED BY <2>1, <2>2, <2>4, <3>1, DemoStep, ZenonT(40)
  <2>6. \A q \in Requests : ~HoldsDemo(q)
    BY <2>3 DEF IInv, LockInv, Nobody
  <2>7. LockInv'
    BY <2>1, <2>4, <2>5, <2>6 DEF IInv, LockInv, HoldsSchedule, HoldsDemo
  <2>8. PlanInv'
    BY <2>1, <2>2, <2>5 DEF IInv, PlanInv
  <2>9. DemoInv'
    <3>1. active = 0 /\ active + over < DemoLimit /\ Extra \in {0, 1}
      BY <1>2 DEF DemoAdmitted, Extra
    <3>2. active <= Extra /\ active + over < DemoLimit + Extra
      BY <3>1 DEF IInv, TypeOK
    <3>3. (active <= Extra /\ active + over < DemoLimit + Extra)'
      BY <2>2, <3>2 DEF Extra
    <3> QED BY <3>3 DEF DemoInv
  <2>10. DemosCapped'
    BY <2>2 DEF IInv, DemosCapped
  <2> QED BY <2>5, <2>7, <2>8, <2>9, <2>10 DEF IInv
<1> QED BY <1>1, <1>2 DEF AdmitDemo

LEMMA CommitPlanStep ==
  ASSUME IInv, NEW r \in Requests, CommitPlan(r)
  PROVE  IInv'
<1>1. PICK x \in Demo : Become(r, x) /\ x.pc = "unlocked"
  <2>1. [pc |-> "unlocked"] \in Demo
    BY DEF Demo
  <2> QED BY <2>1 DEF CommitPlan
<1>2. UNCHANGED <<now, slot, moves, active, over, early>> /\ plan' = TRUE /\ Release(r)
  BY DEF CommitPlan
<1>3. TypeOK' /\ BookingInv' /\ CapHolds' /\ \A q \in Requests : req'[q] = IF q = r THEN x ELSE req[q]
  <2>1. active' \in Nat /\ over' \in Nat /\ plan' \in BOOLEAN /\ early' \in BOOLEAN
    BY <1>2, Zenon DEF IInv, TypeOK
  <2>2. lock' \in [Locks -> Requests \cup {Nobody}]
    BY <1>2, ReleaseType DEF IInv
  <2> QED BY <1>1, <1>2, <2>1, <2>2, DemoStep
<1>4. HoldsDemo(r) /\ req[r].pc = "planning" /\ ~plan
  BY DEF CommitPlan, HoldsDemo, IInv, PlanInv
<1>5. ~early /\ \A q \in Requests : req[q].pc # "unlocked"
  BY <1>4 DEF IInv, PlanInv
<1>6. \A q \in Requests : HoldsDemo(q) => q = r
  BY <1>4, OneHolder DEF IInv
<1>7. LockInv'
  BY <1>1, <1>2, Released DEF IInv
<1>8. PlanInv'
  BY <1>1, <1>2, <1>3, <1>5, <1>6 DEF PlanInv, HoldsDemo
<1>9. DemoInv'
  BY <1>1, <1>3, <1>6 DEF DemoInv, HoldsDemo
<1>10. DemosCapped'
  BY <1>2 DEF IInv, DemosCapped
<1> QED BY <1>3, <1>7, <1>8, <1>9, <1>10 DEF IInv

LEMMA InsertDemoStep ==
  ASSUME IInv, NEW r \in Requests, InsertDemo(r)
  PROVE  IInv'
<1>1. UNCHANGED <<now, slot, moves, over, plan>> /\ Release(r) /\ Become(r, Idle)
  BY DEF InsertDemo
<1>2. active' = active + 1 /\ active \in Nat /\ over \in Nat
  BY DEF InsertDemo, IInv, TypeOK
<1>3. early' = (early \/ req[r].pc = "unlocked")
  BY DEF InsertDemo
<1>4. TypeOK' /\ BookingInv' /\ CapHolds' /\ \A q \in Requests : req'[q] = IF q = r THEN Idle ELSE req[q]
  <2>1. active' \in Nat /\ over' \in Nat
    BY <1>1, <1>2
  <2>2. plan' \in BOOLEAN /\ early' \in BOOLEAN
    BY <1>1, <1>3, Zenon DEF IInv, TypeOK
  <2>3. lock' \in [Locks -> Requests \cup {Nobody}]
    BY <1>1, ReleaseType DEF IInv
  <2> QED BY <1>1, <2>1, <2>2, <2>3, DemoStep
<1>5. Idle.pc = "idle"
  BY DEF Idle
<1>6. LockInv'
  BY <1>1, <1>5, Released DEF IInv
<1>7. CASE req[r].pc = "unlocked"
  <2>1. plan /\ ~early /\ early' /\ plan'
    BY <1>1, <1>3, <1>7 DEF IInv, PlanInv
  <2>2. \A q \in Requests : req'[q].pc \notin {"planning", "unlocked"}
    BY <1>4, <1>5, <1>7, <2>1 DEF IInv, PlanInv
  <2>3. PlanInv'
    BY <2>1, <2>2 DEF PlanInv
  <2>4. Extra = 0 /\ Extra' = 1
    BY <2>1 DEF Extra
  <2>5. DemoInv'
    <3> SUFFICES ASSUME NEW q \in Requests, HoldsDemo(q)'
                 PROVE  active' <= Extra' /\ active' + over' < DemoLimit + Extra'
      BY DEF DemoInv
    <3>1. HoldsDemo(q)
      BY <1>4, <1>5 DEF HoldsDemo
    <3>2. active <= Extra /\ active + over < DemoLimit + Extra
      BY <3>1 DEF IInv, DemoInv
    <3> QED BY <1>1, <1>2, <2>4, <3>2
  <2>6. DemosCapped'
    BY <1>1, <1>2, <2>1 DEF IInv, DemosCapped
  <2> QED BY <1>4, <1>6, <2>3, <2>5, <2>6 DEF IInv
<1>8. CASE req[r].pc = "admitted demo"
  <2>1. early' = early
    BY <1>3, <1>8, Zenon DEF IInv, TypeOK
  <2>2. PlanInv'
    BY <1>1, <1>4, <1>5, <2>1 DEF IInv, PlanInv
  <2>3. \A q \in Requests : ~HoldsDemo(q)'
    BY <1>4, <1>5, <1>8, OneHolder DEF IInv, HoldsDemo
  <2>4. DemoInv'
    BY <2>3 DEF DemoInv
  <2>5. active <= Extra /\ active + over < DemoLimit + Extra
    BY <1>8 DEF IInv, DemoInv, HoldsDemo
  <2>6. DemosCapped'
    BY <1>1, <1>2, <2>1, <2>5 DEF DemosCapped, Extra
  <2> QED BY <1>4, <1>6, <2>2, <2>4, <2>6 DEF IInv
<1> QED BY <1>7, <1>8 DEF InsertDemo

LEMMA DemoEndsStep ==
  ASSUME IInv, DemoEnds
  PROVE  IInv'
<1>1. /\ UNCHANGED <<now, slot, moves, plan, lock, req, early>>
      /\ active' = active - 1 /\ over' = over + 1 /\ active > 0
      /\ active \in Nat /\ over \in Nat
  BY DEF DemoEnds, IInv, TypeOK
<1>2. active' \in Nat /\ over' \in Nat /\ active' <= active /\ active' + over' = active + over
  BY <1>1
<1>3. TypeOK'
  BY <1>1, <1>2, Zenon DEF IInv, TypeOK
<1>4. LockInv' /\ PlanInv'
  BY <1>1 DEF IInv, LockInv, PlanInv, HoldsSchedule, HoldsDemo
<1>5. BookingInv' /\ CapHolds'
  BY <1>1, SlotsSame DEF IInv
<1>6. Extra' = Extra /\ Extra \in {0, 1}
  BY <1>1 DEF Extra
<1>7. DemoInv'
  <2> SUFFICES ASSUME NEW q \in Requests, HoldsDemo(q)'
               PROVE  active' <= Extra' /\ active' + over' < DemoLimit + Extra'
    BY DEF DemoInv
  <2>1. HoldsDemo(q)
    BY <1>1 DEF HoldsDemo
  <2>2. active <= Extra /\ active + over < DemoLimit + Extra
    BY <2>1 DEF IInv, DemoInv
  <2>3. active \in Nat /\ over \in Nat
    BY <1>1
  <2>4. Extra' = Extra /\ Extra \in Int
    BY <1>6
  <2>5. active' <= Extra'
    BY <1>2, <2>2, <2>3, <2>4
  <2>6. active' + over' < DemoLimit + Extra'
    BY <1>2, <2>2, <2>4
  <2> QED BY <2>5, <2>6
<1>8. DemosCapped'
  BY <1>1, <1>2 DEF IInv, DemosCapped
<1> QED BY <1>3, <1>4, <1>5, <1>7, <1>8 DEF IInv

LEMMA TickStep ==
  ASSUME IInv, Tick
  PROVE  IInv'
<1>1. UNCHANGED <<slot, moves, active, over, plan, lock, req, early>> /\ now' \in 0..MaxTime
  BY DEF Tick, IInv, TypeOK
<1>2. TypeOK'
  BY <1>1, Zenon DEF IInv, TypeOK
<1>3. LockInv'
  BY <1>1 DEF IInv, LockInv, HoldsSchedule, HoldsDemo
<1>4. BookingInv' /\ CapHolds'
  BY <1>1, SlotsSame DEF IInv
<1>5. PlanInv' /\ DemoInv' /\ DemosCapped'
  BY <1>1, DemosSame DEF IInv
<1> QED BY <1>2, <1>3, <1>4, <1>5 DEF IInv

---------------------------------------------------------------------------
LEMMA Inductive == IInv /\ [Next]_vars => IInv'
<1> SUFFICES ASSUME IInv, [Next]_vars PROVE IInv'
  OBVIOUS
<1>1. CASE UNCHANGED vars
  <2>1. UNCHANGED <<now, slot, moves, active, over, plan, lock, req, early>>
    BY <1>1 DEF vars
  <2>2. TypeOK'
    BY <2>1, Zenon DEF IInv, TypeOK
  <2>3. LockInv'
    BY <2>1 DEF IInv, LockInv, HoldsSchedule, HoldsDemo
  <2>4. BookingInv' /\ CapHolds'
    BY <2>1, SlotsSame DEF IInv
  <2>5. PlanInv' /\ DemoInv' /\ DemosCapped'
    BY <2>1, DemosSame DEF IInv
  <2> QED BY <2>2, <2>3, <2>4, <2>5 DEF IInv
<1>2. CASE Next
  BY <1>2, AskStep, AdmitStep, BookStep, DiesStep, AskDemoStep, AdmitDemoStep, CommitPlanStep,
     InsertDemoStep, DemoEndsStep, TickStep DEF Next
<1> QED BY <1>1, <1>2

\* Every reachable state has its type: no reschedule is counted past its limit,
\* although the count is checked in one request and raised at its commit
\* (schedule_slot, lifecycle.py).
THEOREM TypeCorrect == Spec => []TypeOK
<1>1. IInv => TypeOK
  BY DEF IInv
<1> QED BY Initially, Inductive, <1>1, PTL DEF Spec

\* However many requests book and move slots at once, no moment has more
\* candidacies than the organisation's cap (schedule_slot, lifecycle.py:256).
THEOREM NeverOverbooked == Spec => []CapHolds
<1>1. IInv => CapHolds
  BY DEF IInv
<1> QED BY Initially, Inductive, <1>1, PTL DEF Spec

\* However many requests start demos at once, the account keeps to its caps, but
\* for one demo of the request that made the plan (start_demo, auth.py:505).
THEOREM OneDemoTooManyAtMost == Spec => []DemosCapped
<1>1. IInv => DemosCapped
  BY DEF IInv
<1> QED BY Initially, Inductive, <1>1, PTL DEF Spec
=============================================================================
