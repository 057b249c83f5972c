------------------------------ MODULE Capacity ------------------------------
(* Two places that admit only so many: the slots of an organisation          *)
(* (schedule_slot of routes/lifecycle.py) and the demo interviews of an      *)
(* account (start_demo of routes/auth.py).  Both count rows and insert one   *)
(* later, and both serialise that with a PostgreSQL advisory lock that ends  *)
(* with the transaction which took it - so a commit half-way gives it up.    *)
(*                                                                           *)
(* One organisation and one account.  A candidacy's own rules (withdrawn,    *)
(* consent, status) are the subject of Hiring.                               *)
EXTENDS Naturals, FiniteSets

CONSTANTS Requests,        \* requests that can be under way at once
          Candidacies,
          Cap,             \* max_concurrent_sessions
          SlotLength,      \* the 60 minutes of a slot, in ticks
          Cutoff,          \* reschedule_cutoff_h, in ticks
          MaxReschedules,  \* reschedule_max
          DemoLimit,       \* DEMO_LIMIT
          MaxTime          \* bound: the clock and the slots that are asked for

ASSUME CapacityAssumption ==
  /\ "nobody" \notin Requests /\ IsFiniteSet(Candidacies)
  /\ Cap \in Nat \ {0} /\ SlotLength \in Nat \ {0} /\ Cutoff \in Nat
  /\ MaxReschedules \in Nat /\ DemoLimit \in Nat \ {0} /\ MaxTime \in Nat

VARIABLES now,
          slot,     \* schedules: candidacy -> the start of its slot, or NoSlot
          moves,    \* reschedule_count
          active,   \* the account's demos that are not over
          over,     \* those that are
          plan,     \* is there a demo plan?
          lock,     \* advisory lock -> who holds it
          req,      \* the requests under way
          early     \* history: a demo was inserted after its lock had been given up

vars == <<now, slot, moves, active, over, plan, lock, req, early>>

Locks == {"schedule", "demo"}
Nobody == "nobody"
NoSlot == 0
Times == 1..MaxTime
Idle == [pc |-> "idle"]
Booking == [pc : {"asking", "admitted"}, cand : Candidacies, start : Times, staff : BOOLEAN]
Demo == [pc : {"asking demo", "planning", "unlocked", "admitted demo"}]

TypeOK ==
  /\ now \in 0..MaxTime
  /\ slot \in [Candidacies -> Times \cup {NoSlot}]
  /\ moves \in [Candidacies -> 0..MaxReschedules]
  /\ active \in Nat /\ over \in Nat
  /\ plan \in BOOLEAN /\ early \in BOOLEAN
  /\ lock \in [Locks -> Requests \cup {Nobody}]
  /\ req \in [Requests -> Booking \cup Demo \cup {Idle}]

Init ==
  /\ now = 0
  /\ slot = [c \in Candidacies |-> NoSlot]
  /\ moves = [c \in Candidacies |-> 0]
  /\ active = 0 /\ over = 0
  /\ plan = FALSE /\ early = FALSE
  /\ lock = [l \in Locks |-> Nobody]
  /\ req = [r \in Requests |-> Idle]

TakenNever(l) == FALSE  \* Mutant: the count and the insert are not serialised

Taken(l) == lock[l] # Nobody

Become(r, x) == req' = [req EXCEPT ![r] = x]

\* The end of a transaction, commit or not, releases what it holds.
Release(r) == lock' = [l \in Locks |-> IF lock[l] = r THEN Nobody ELSE lock[l]]

---------------------------------------------------------------------------
(* Booking a slot *)

\* The slot is compared with the clock before the request waits for the lock.
Ask(r, c, t, staff) ==
  /\ req[r] = Idle
  /\ t >= now
  /\ Become(r, [pc |-> "asking", cand |-> c, start |-> t, staff |-> staff])
  /\ UNCHANGED <<now, slot, moves, active, over, plan, lock, early>>

\* Slots that overlap one from t on, the candidacy's own included.
Overlapping(t) ==
  {c \in Candidacies : slot[c] # NoSlot /\ slot[c] < t + SlotLength /\ slot[c] + SlotLength > t}

FullAtOneMore(t) == Cardinality(Overlapping(t)) > Cap  \* Mutant: > for >=

Full(t) == Cardinality(Overlapping(t)) >= Cap

\* The limits on moving a slot are the candidate's, not the staff's.
MayMove(r) ==
  LET c == req[r].cand IN
  slot[c] # NoSlot /\ ~req[r].staff =>
    /\ moves[c] < MaxReschedules
    /\ slot[c] >= now + Cutoff

\* Everything the decision rests on is read under the lock.
Admit(r) ==
  /\ req[r].pc = "asking"
  /\ ~Taken("schedule")
  /\ IF ~Full(req[r].start) /\ MayMove(r)
     THEN /\ lock' = [lock EXCEPT !["schedule"] = r]
          /\ Become(r, [req[r] EXCEPT !.pc = "admitted"])
     ELSE Become(r, Idle) /\ UNCHANGED lock
  /\ UNCHANGED <<now, slot, moves, active, over, plan, early>>

Book(r) ==
  LET q == req[r]  c == q.cand IN
  /\ q.pc = "admitted"
  /\ slot' = [slot EXCEPT ![c] = q.start]
  /\ moves' = [moves EXCEPT ![c] = IF slot[c] = NoSlot \/ q.staff THEN @ ELSE @ + 1]
  /\ Release(r)
  /\ Become(r, Idle)
  /\ UNCHANGED <<now, active, over, plan, early>>

---------------------------------------------------------------------------
(* Starting a demo *)

AskDemo(r) ==
  /\ req[r] = Idle
  /\ Become(r, [pc |-> "asking demo"])
  /\ UNCHANGED <<now, slot, moves, active, over, plan, lock, early>>

\* A demo under way is returned instead; an account has had its share otherwise.
DemoAdmitted == active = 0 /\ active + over < DemoLimit

AdmitDemo(r) ==
  /\ req[r].pc = "asking demo"
  /\ ~Taken("demo")
  /\ IF DemoAdmitted
     THEN /\ lock' = [lock EXCEPT !["demo"] = r]
          /\ Become(r, [pc |-> IF plan THEN "admitted demo" ELSE "planning"])
     ELSE Become(r, Idle) /\ UNCHANGED lock
  /\ UNCHANGED <<now, slot, moves, active, over, plan, early>>

\* The first demo makes the plan of all of them - and commits it.
CommitPlan(r) ==
  /\ req[r].pc = "planning"
  /\ plan' = TRUE
  /\ Release(r)
  /\ Become(r, [pc |-> "unlocked"])
  /\ UNCHANGED <<now, slot, moves, active, over, early>>

InsertDemo(r) ==
  /\ req[r].pc \in {"admitted demo", "unlocked"}
  /\ active' = active + 1
  /\ early' = (early \/ req[r].pc = "unlocked")
  /\ Release(r)
  /\ Become(r, Idle)
  /\ UNCHANGED <<now, slot, moves, over, plan>>

\* A demo reaches one of the statuses _TERMINAL.
DemoEnds ==
  /\ active > 0
  /\ active' = active - 1
  /\ over' = over + 1
  /\ UNCHANGED <<now, slot, moves, plan, lock, req, early>>

---------------------------------------------------------------------------
Tick ==
  /\ now < MaxTime
  /\ now' = now + 1
  /\ UNCHANGED <<slot, moves, active, over, plan, lock, req, early>>

\* A request ends with an error or with its process: nothing is committed.
Dies(r) ==
  /\ req[r] # Idle
  /\ Release(r)
  /\ Become(r, Idle)
  /\ UNCHANGED <<now, slot, moves, active, over, plan, early>>

Next ==
  \/ \E r \in Requests :
       \/ \E c \in Candidacies, t \in Times, staff \in BOOLEAN : Ask(r, c, t, staff)
       \/ Admit(r) \/ Book(r) \/ Dies(r)
       \/ AskDemo(r) \/ AdmitDemo(r) \/ CommitPlan(r) \/ InsertDemo(r)
  \/ DemoEnds
  \/ Tick

Spec == Init /\ [][Next]_vars

---------------------------------------------------------------------------
\* "count-then-insert under concurrency would let two bookings both pass a
\* full window's check" (lifecycle.py:256): at no moment are more candidacies
\* booked than the organisation's cap, however slots are booked and moved.
CapHolds ==
  \A t \in Times :
    Cardinality({c \in Candidacies :
      slot[c] # NoSlot /\ slot[c] <= t /\ t < slot[c] + SlotLength}) <= Cap

\* "In-flight demos are reused; hard cap per account" (auth.py:505), except for
\* the one demo whose request committed the demo plan and with it gave up its
\* lock: that one may come on top, once.
DemosCapped ==
  LET extra == IF early THEN 1 ELSE 0 IN
  active <= 1 + extra /\ active + over <= DemoLimit + extra
=============================================================================
