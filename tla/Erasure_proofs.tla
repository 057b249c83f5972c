---------------------------- MODULE Erasure_proofs ----------------------------
(* Theorems about Erasure and the Execution it extends: for any number of    *)
(* code runs and erasures, whatever fails or dies.                           *)
EXTENDS Erasure, Integers, TLAPS

USE ExecutionAssumption, ErasureAssumption DEF ExecutionAssumption, ErasureAssumption

Suite == [pc : {"running"}, cases : 1..Cases, left : 0..Cases, spent : BOOLEAN]

\* A lock expired under a suite that was long enough for that.
Expired == \E n \in late : n >= LockTicks

\* The ticks a suite may have used, the one of its current case included.
Used(r) == run[r].cases - run[r].left + (IF run[r].spent THEN 1 ELSE 0)

SuiteInv ==
  \A r \in Runs : run[r].pc = "running" =>
    /\ run[r].left <= run[r].cases
    /\ ~Expired => ttl + Used(r) >= LockTicks

LockInv ==
  ~Expired => \A r \in Runs : Inside(r) =>
    /\ ttl > 0
    /\ \A q \in Runs : Inside(q) => q = r

ExecInv == ExecTypeOK /\ SuiteInv /\ LockInv

\* A worker that makes a document has found no brief, and none appears.
WorkerInv == worker.pc \in {"putting", "filing"} => brief = "absent"

Begun == eraser.pc \in {"deleting", "committing"}

\* What an erasure found is still there to scrub, and its object is gone before
\* it commits; what it did not find came after it had begun.
FoundInv ==
  Begun => /\ eraser.brief => brief # "absent"
           /\ eraser.pc = "committing" /\ eraser.brief /\ ~eraser.failed => object = "absent"
MissedInv ==
  Begun => /\ ~eraser.eval => eval = "absent" \/ "eval" \in missed
           /\ ~eraser.brief => brief = "absent" \/ "brief" \in missed
           /\ ~eraser.brief => object = "absent" \/ "object" \in missed

RestTypeOK ==
  /\ eval \in Holding /\ brief \in Holding /\ object \in Holding
  /\ agent \in BOOLEAN /\ key \in BOOLEAN /\ erased \in BOOLEAN
  /\ worker \in [pc : {"idle", "scoring", "putting", "filing"}, full : BOOLEAN]
  /\ eraser \in Erasing \cup {NotErasing}
  /\ erases \in 0..MaxErases /\ troubles \in 0..MaxTroubles
  /\ missed \subseteq Pieces

RestInv == RestTypeOK /\ WorkerInv /\ FoundInv /\ MissedInv /\ PointersKept /\ EraseCleans

---------------------------------------------------------------------------
(* The code runs *)

LEMMA RunTypes ==
  ASSUME ExecTypeOK, NEW r \in Runs
  PROVE  /\ run[r].pc \in {"idle", "checked", "running", "finally"}
         /\ run[r].pc = "running" => run[r] \in Suite
         /\ run[r].pc # "idle" => run[r] # Idle
<1>1. run[r] \in Run \cup {Idle}
  BY DEF ExecTypeOK
<1>2. CASE run[r] = Idle
  BY <1>2 DEF Idle
<1>3. CASE run[r] \in [pc : {"checked", "finally"}]
  BY <1>3 DEF Idle
<1>4. CASE run[r] \in Suite
  BY <1>4 DEF Idle, Suite
<1> QED BY <1>1, <1>2, <1>3, <1>4 DEF Run, Suite

\* A request that is not in its lock afterwards disturbs nothing.
LEMMA Outside ==
  ASSUME ExecInv, NEW r \in Runs, NEW x \in Run \cup {Idle}, Become(r, x),
         x.pc \in {"idle", "checked"}, ttl' = ttl, late' = late,
         status' = status, link' = link, log' \in BOOLEAN
  PROVE  ExecInv'
<1>1. ExecTypeOK'
  BY DEF ExecInv, ExecTypeOK, Become
<1>2. \A q \in Runs : run'[q] = IF q = r THEN x ELSE run[q]
  BY DEF ExecInv, ExecTypeOK, Become
<1>3. Expired' = Expired
  BY DEF Expired
<1>4. \A q \in Runs : Inside(q)' => q # r /\ Inside(q)
  BY <1>2 DEF Inside
<1>5. SuiteInv'
  <2> SUFFICES ASSUME NEW q \in Runs, run'[q].pc = "running"
               PROVE  /\ run'[q].left <= run'[q].cases
                      /\ ~Expired' => ttl' + Used(q)' >= LockTicks
    BY DEF SuiteInv
  <2>1. run'[q] = run[q]
    BY <1>2
  <2>2. Used(q)' = Used(q)
    BY <2>1 DEF Used
  <2> QED BY <1>3, <2>1, <2>2 DEF ExecInv, SuiteInv
<1>6. LockInv'
  BY <1>3, <1>4 DEF ExecInv, LockInv
<1> QED BY <1>1, <1>5, <1>6 DEF ExecInv

\* A run that ends its work stays in its lock.
LEMMA ToFinally ==
  ASSUME ExecInv, NEW r \in Runs, run[r].pc = "running", Become(r, [pc |-> "finally"]),
         ttl' = ttl, late' = late, status' = status, link' = link, log' \in BOOLEAN
  PROVE  ExecInv'
<1>1. PICK x \in Run : Become(r, x) /\ x.pc = "finally"
  <2>1. [pc |-> "finally"] \in Run
    BY DEF Run
  <2> QED BY <2>1
<1>2. ExecTypeOK'
  BY <1>1 DEF ExecInv, ExecTypeOK, Become
<1>3. \A q \in Runs : run'[q] = IF q = r THEN x ELSE run[q]
  BY <1>1 DEF ExecInv, ExecTypeOK, Become
<1>4. Expired' = Expired
  BY DEF Expired
<1>5. \A q \in Runs : Inside(q)' => Inside(q)
  BY <1>3 DEF Inside
<1>6. SuiteInv'
  <2> SUFFICES ASSUME NEW q \in Runs, run'[q].pc = "running"
               PROVE  /\ run'[q].left <= run'[q].cases
                      /\ ~Expired' => ttl' + Used(q)' >= LockTicks
    BY DEF SuiteInv
  <2>1. run'[q] = run[q]
    BY <1>1, <1>3
  <2>2. Used(q)' = Used(q)
    BY <2>1 DEF Used
  <2> QED BY <1>4, <2>1, <2>2 DEF ExecInv, SuiteInv
<1>7. LockInv'
  BY <1>4, <1>5 DEF ExecInv, LockInv
<1> QED BY <1>2, <1>6, <1>7 DEF ExecInv

\* The lock is taken only when nobody is inside, unless it has expired.
LEMMA AcquireStep ==
  ASSUME ExecInv, NEW r \in Runs, Acquire(r)
  PROVE  ExecInv'
<1>1. UNCHANGED <<status, link, log, late>>
  BY DEF Acquire
<1>2. CASE ttl # 0
  <2>1. Become(r, Idle) /\ ttl' = ttl
    BY <1>2 DEF Acquire, LockFree
  <2>2. Idle.pc = "idle"
    BY DEF Idle
  <2>3. log' \in BOOLEAN
    BY <1>1 DEF ExecInv, ExecTypeOK
  <2> QED BY <1>1, <2>1, <2>2, <2>3, Outside
<1>3. CASE ttl = 0
  <2>1. PICK n \in 1..Cases :
          Become(r, [pc |-> "running", cases |-> n, left |-> n, spent |-> FALSE])
    BY <1>3 DEF Acquire, LockFree
  <2>2. PICK x \in Suite :
          Become(r, x) /\ x.pc = "running" /\ x.cases = n /\ x.left = n /\ x.spent = FALSE
    <3>1. [pc |-> "running", cases |-> n, left |-> n, spent |-> FALSE] \in Suite
      BY DEF Suite
    <3> QED BY <2>1, <3>1
  <2>3. ttl' = LockTicks
    BY <1>3 DEF Acquire, LockFree
  <2>4. ExecTypeOK'
    BY <1>1, <2>2, <2>3 DEF ExecInv, ExecTypeOK, Become, Run, Suite
  <2>5. \A q \in Runs : run'[q] = IF q = r THEN x ELSE run[q]
    BY <2>2 DEF ExecInv, ExecTypeOK, Become
  <2>6. Expired' = Expired
    BY <1>1 DEF Expired
  <2>7. ~Expired => \A q \in Runs : ~Inside(q)
    BY <1>3 DEF ExecInv, LockInv
  <2>8. SuiteInv'
    <3> SUFFICES ASSUME NEW q \in Runs, run'[q].pc = "running"
                 PROVE  /\ run'[q].left <= run'[q].cases
                        /\ ~Expired' => ttl' + Used(q)' >= LockTicks
      BY DEF SuiteInv
    <3>1. CASE q = r
      <4>1. Used(q)' = 0 /\ run'[q].left <= run'[q].cases
        BY <2>2, <2>5, <3>1 DEF Used
      <4> QED BY <2>3, <4>1
    <3>2. CASE q # r
      <4>1. run'[q] = run[q]
        BY <2>5, <3>2
      <4>2. ~Expired' => ~Inside(q)
        BY <2>6, <2>7
      <4> QED BY <4>1, <4>2 DEF ExecInv, SuiteInv, Inside
    <3> QED BY <3>1, <3>2
  <2>9. LockInv'
    <3>1. ~Expired' => \A q \in Runs : Inside(q)' => q = r
      BY <2>5, <2>6, <2>7 DEF Inside
    <3> QED BY <2>3, <3>1 DEF LockInv
  <2> QED BY <2>4, <2>8, <2>9 DEF ExecInv
<1> QED BY <1>2, <1>3

\* A case that is done gives back no more time than it may have taken.
LEMMA CaseDoneStep ==
  ASSUME ExecInv, NEW r \in Runs, CaseDone(r)
  PROVE  ExecInv'
<1>1. UNCHANGED <<status, link, log, ttl, late>>
  BY DEF CaseDone
<1>2. run[r] \in Suite /\ run[r].left > 0
  BY RunTypes DEF CaseDone, ExecInv
<1>3. PICK x \in Suite : /\ Become(r, x)
                         /\ x.cases = run[r].cases /\ x.left = run[r].left - 1
                         /\ x.spent = FALSE
  <2>1. PICK n \in 0..Cases : n = run[r].left - 1
    BY <1>2 DEF Suite
  <2>2. [run[r] EXCEPT !.left = n, !.spent = FALSE] \in Suite
    BY <1>2 DEF Suite
  <2> QED BY <1>2, <2>1, <2>2 DEF CaseDone, Suite
<1>4. ExecTypeOK'
  BY <1>1, <1>3 DEF ExecInv, ExecTypeOK, Become, Run, Suite
<1>5. \A q \in Runs : run'[q] = IF q = r THEN x ELSE run[q]
  BY <1>3 DEF ExecInv, ExecTypeOK, Become
<1>6. Expired' = Expired
  BY <1>1 DEF Expired
<1>7. run[r].pc = "running" /\ x.pc = "running"
  BY <1>2, <1>3 DEF Suite
<1>8. SuiteInv'
  <2> SUFFICES ASSUME NEW q \in Runs, run'[q].pc = "running"
               PROVE  /\ run'[q].left <= run'[q].cases
                      /\ ~Expired' => ttl' + Used(q)' >= LockTicks
    BY DEF SuiteInv
  <2>1. CASE q = r
    <3>1. run'[q] = x
      BY <1>5, <2>1
    <3>2. Used(q)' = run[r].cases - (run[r].left - 1)
      BY <1>2, <1>3, <3>1 DEF Used, Suite
    <3>3. Used(r) <= run[r].cases - run[r].left + 1
      BY <1>2 DEF Used, Suite
    <3>4. run[r].left <= run[r].cases /\ (~Expired => ttl + Used(r) >= LockTicks)
      BY <1>7 DEF ExecInv, SuiteInv
    <3>5. run'[q].left <= run'[q].cases
      BY <1>2, <1>3, <3>1, <3>4 DEF Suite
    <3>6. ASSUME ~Expired' PROVE ttl' + Used(q)' >= LockTicks
      <4>1. ttl + Used(r) >= LockTicks
        BY <1>6, <3>4, <3>6
      <4>2. run[r].cases \in Int /\ run[r].left \in Int /\ ttl \in Int /\ Used(r) \in Int
        BY <1>2 DEF Suite, Used, ExecInv, ExecTypeOK
      <4> QED BY <1>1, <3>2, <3>3, <4>1, <4>2
    <3> QED BY <3>5, <3>6
  <2>2. CASE q # r
    <3>1. run'[q] = run[q]
      BY <1>5, <2>2
    <3>2. Used(q)' = Used(q)
      BY <3>1 DEF Used
    <3> QED BY <1>1, <1>6, <3>1, <3>2 DEF ExecInv, SuiteInv
  <2> QED BY <2>1, <2>2
<1>9. LockInv'
  <2>1. \A q \in Runs : Inside(q)' => Inside(q)
    BY <1>5, <1>7 DEF Inside
  <2> QED BY <1>1, <1>6, <2>1 DEF ExecInv, LockInv
<1> QED BY <1>4, <1>8, <1>9 DEF ExecInv

\* Unless the lock had expired, who deletes it was alone inside.
LEMMA DeleteStep ==
  ASSUME ExecInv, NEW r \in Runs, Delete(r)
  PROVE  ExecInv'
<1>1. UNCHANGED <<status, link, log, late>> /\ ttl' = 0 /\ Become(r, Idle)
  BY DEF Delete
<1>2. Idle.pc = "idle"
  BY DEF Idle
<1>3. Inside(r)
  BY DEF Delete, Inside
<1>4. ExecTypeOK'
  BY <1>1 DEF ExecInv, ExecTypeOK, Become
<1>5. \A q \in Runs : run'[q] = IF q = r THEN Idle ELSE run[q]
  BY <1>1 DEF ExecInv, ExecTypeOK, Become
<1>6. Expired' = Expired
  BY <1>1 DEF Expired
<1>7. ~Expired' => \A q \in Runs : ~Inside(q)'
  BY <1>2, <1>3, <1>5, <1>6 DEF ExecInv, LockInv, Inside
<1>8. SuiteInv'
  <2> SUFFICES ASSUME NEW q \in Runs, run'[q].pc = "running"
               PROVE  run'[q].left <= run'[q].cases /\ Expired'
    BY DEF SuiteInv
  <2>1. run'[q] = run[q]
    BY <1>2, <1>5
  <2>2. Expired'
    BY <1>7 DEF Inside
  <2> QED BY <2>1, <2>2 DEF ExecInv, SuiteInv
<1>9. LockInv'
  BY <1>7 DEF LockInv
<1> QED BY <1>4, <1>8, <1>9 DEF ExecInv

\* A lock that expires under a suite was outlasted by its cases.
LEMMA TickStep ==
  ASSUME ExecInv, Tick
  PROVE  ExecInv'
<1>1. UNCHANGED <<status, link, log>> /\ ttl' = ttl - 1 /\ ttl > 0 /\ ttl \in 0..LockTicks
  BY DEF Tick, ExecInv, ExecTypeOK
<1>2. \A q \in Runs : Inside(q) =>
        run[q] \in Suite /\ run[q].pc = "running" /\ run[q].left > 0 /\ run[q].spent = FALSE
  <2>1. \A q \in Runs : Inside(q) => run[q].pc = "running" /\ run[q].left > 0 /\ ~run[q].spent
    BY DEF Tick
  <2>2. \A q \in Runs : Inside(q) => run[q] \in Suite
    BY <2>1, RunTypes DEF ExecInv
  <2>3. \A q \in Runs : Inside(q) => run[q].spent \in BOOLEAN
    BY <2>2 DEF Suite
  <2> QED BY <2>1, <2>2, <2>3
<1>3. \A q \in Runs :
        IF Inside(q)
        THEN /\ run'[q] \in Suite /\ run'[q].pc = "running" /\ run'[q].cases = run[q].cases
             /\ run'[q].left = run[q].left /\ run'[q].spent = TRUE
        ELSE run'[q] = run[q]
  <2> SUFFICES ASSUME NEW q \in Runs
               PROVE  IF Inside(q)
                      THEN /\ run'[q] \in Suite /\ run'[q].pc = "running"
                           /\ run'[q].cases = run[q].cases
                           /\ run'[q].left = run[q].left /\ run'[q].spent = TRUE
                      ELSE run'[q] = run[q]
    OBVIOUS
  <2>1. run'[q] = IF Inside(q) THEN [run[q] EXCEPT !.spent = TRUE] ELSE run[q]
    BY DEF Tick
  <2>2. CASE Inside(q)
    <3>1. run[q] \in Suite /\ run'[q] = [run[q] EXCEPT !.spent = TRUE]
      BY <1>2, <2>1, <2>2
    <3> QED BY <2>2, <3>1 DEF Suite
  <2> QED BY <2>1, <2>2
<1>4. \A q \in Runs : Inside(q)' <=> Inside(q)
  BY <1>2, <1>3 DEF Inside
<1>5. late' \subseteq 1..Cases /\ late \subseteq late'
  BY <1>2 DEF Tick, ExecInv, ExecTypeOK, Suite
<1>6. Expired => Expired'
  BY <1>5 DEF Expired
<1>7. ExecTypeOK'
  <2>1. run' \in [Runs -> Run \cup {Idle}]
    <3>1. DOMAIN run' = Runs /\ run' = [q \in Runs |-> run'[q]]
      BY DEF Tick
    <3>2. \A q \in Runs : run'[q] \in Run \cup {Idle}
      BY <1>3 DEF ExecInv, ExecTypeOK, Run, Suite
    <3> QED BY <3>1, <3>2
  <2>2. ttl' \in 0..LockTicks
    BY <1>1
  <2> QED BY <1>1, <1>5, <2>1, <2>2 DEF ExecInv, ExecTypeOK
<1>8. SuiteInv'
  <2> SUFFICES ASSUME NEW q \in Runs, run'[q].pc = "running"
               PROVE  /\ run'[q].left <= run'[q].cases
                      /\ ~Expired' => ttl' + Used(q)' >= LockTicks
    BY DEF SuiteInv
  <2>1. Inside(q)
    BY <1>4 DEF Inside
  <2>2. run[q] \in Suite /\ run[q].pc = "running"
    BY <1>2, <2>1
  <2>3. run[q].left <= run[q].cases /\ (~Expired => ttl + Used(q) >= LockTicks)
    BY <2>2 DEF ExecInv, SuiteInv
  <2>4. Used(q)' = Used(q) + 1 /\ Used(q) \in Int
    BY <1>2, <1>3, <2>1, <2>2 DEF Used, Suite
  <2>5. run'[q].left <= run'[q].cases
    BY <1>3, <2>1, <2>3
  <2>6. ASSUME ~Expired' PROVE ttl' + Used(q)' >= LockTicks
    <3>1. ttl + Used(q) >= LockTicks
      BY <1>6, <2>3, <2>6
    <3> QED BY <1>1, <2>4, <3>1
  <2> QED BY <2>5, <2>6
<1>9. LockInv'
  <2> SUFFICES ASSUME ~Expired', NEW q \in Runs, Inside(q)'
               PROVE  ttl' > 0 /\ \A p \in Runs : Inside(p)' => p = q
    BY DEF LockInv
  <2>1. ~Expired /\ Inside(q)
    BY <1>4, <1>6
  <2>2. \A p \in Runs : Inside(p)' => p = q
    BY <1>4, <2>1 DEF ExecInv, LockInv
  <2>3. ttl # 1
    <3> SUFFICES ASSUME ttl = 1 PROVE FALSE
      OBVIOUS
    <3>1. run[q].cases \in late'
      BY <2>1 DEF Tick
    <3>2. /\ run[q].cases \in Int /\ run[q].left \in Int /\ run[q].left > 0
          /\ run[q].pc = "running" /\ Used(q) = run[q].cases - run[q].left
      BY <1>2, <2>1 DEF Suite, Used
    <3>3. ttl + Used(q) >= LockTicks
      BY <2>1, <3>2 DEF ExecInv, SuiteInv
    <3>4. run[q].cases >= LockTicks
      BY <3>2, <3>3
    <3> QED BY <3>1, <3>4 DEF Expired
  <2> QED BY <1>1, <2>2, <2>3
<1> QED BY <1>7, <1>8, <1>9 DEF ExecInv

\* Nothing else touches the runs or their lock.
LEMMA ExecSame ==
  ASSUME ExecInv, UNCHANGED <<run, ttl, late>>,
         status' \in {"in_progress", "completed"}, link' \in BOOLEAN, log' \in BOOLEAN
  PROVE  ExecInv'
<1>1. ExecTypeOK'
  BY DEF ExecInv, ExecTypeOK
<1> QED BY <1>1 DEF ExecInv, SuiteInv, LockInv, Inside, Used, Expired

LEMMA RunningStep ==
  ASSUME ExecInv, Running
  PROVE  ExecInv'
<1>1. log \in BOOLEAN
  BY DEF ExecInv, ExecTypeOK
<1>2. Idle.pc = "idle" /\ Idle \in Run \cup {Idle}
  BY DEF Idle
<1>3. ASSUME NEW r \in Runs, AppendResult(r) PROVE ExecInv'
  BY <1>3, ToFinally DEF AppendResult
<1>4. ASSUME NEW r \in Runs, Check(r) PROVE ExecInv'
  <2>1. PICK x \in Run : Become(r, x) /\ x.pc = "checked"
    <3>1. [pc |-> "checked"] \in Run
      BY DEF Run
    <3> QED BY <1>4, <3>1 DEF Check
  <2> QED BY <1>1, <1>4, <2>1, Outside DEF Check
<1>5. ASSUME NEW r \in Runs, RunFails(r) PROVE ExecInv'
  BY <1>1, <1>5, ToFinally DEF RunFails
<1>6. ASSUME NEW r \in Runs, RunDies(r) PROVE ExecInv'
  BY <1>1, <1>2, <1>6, Outside DEF RunDies
<1> QED
  BY <1>3, <1>4, <1>5, <1>6, AcquireStep, CaseDoneStep, DeleteStep, TickStep DEF Running

---------------------------------------------------------------------------
(* The writers and the erasure *)

IInv == ExecInv /\ RestInv

LEMMA Initially == Init => IInv
<1> SUFFICES ASSUME Init PROVE IInv
  OBVIOUS
<1>1. \A r \in Runs : run[r].pc = "idle"
  BY DEF Init, ExecInit, Idle
<1>2. ExecInv
  <2>1. ExecTypeOK
    <3>1. run \in [Runs -> Run \cup {Idle}]
      BY DEF Init, ExecInit
    <3>2. ttl \in 0..LockTicks /\ late \subseteq 1..Cases
      BY DEF Init, ExecInit
    <3>3. status \in {"in_progress", "completed"} /\ link \in BOOLEAN /\ log \in BOOLEAN
      BY DEF Init, ExecInit
    <3> QED BY <3>1, <3>2, <3>3, Zenon DEF ExecTypeOK
  <2> QED BY <1>1, <2>1 DEF ExecInv, SuiteInv, LockInv, Inside
<1>3. RestTypeOK
  <2>1. worker \in [pc : {"idle", "scoring", "putting", "filing"}, full : BOOLEAN]
    BY DEF Init
  <2>2. eval \in Holding /\ brief \in Holding /\ object \in Holding
    BY DEF Init, Holding
  <2>3. erases \in 0..MaxErases /\ troubles \in 0..MaxTroubles /\ missed \subseteq Pieces
    BY DEF Init
  <2>4. agent \in BOOLEAN /\ key \in BOOLEAN /\ erased \in BOOLEAN
    BY DEF Init
  <2>5. eraser \in Erasing \cup {NotErasing}
    BY DEF Init
  <2> QED BY <2>1, <2>2, <2>3, <2>4, <2>5, Zenon DEF RestTypeOK
<1>4. WorkerInv /\ FoundInv /\ MissedInv
  BY DEF Init, WorkerInv, FoundInv, MissedInv, Begun, NotErasing
<1>5. PointersKept /\ EraseCleans
  BY DEF Init, PointersKept, EraseCleans
<1> QED BY <1>2, <1>3, <1>4, <1>5 DEF IInv, RestInv

LEMMA Types ==
  ASSUME RestTypeOK
  PROVE  /\ Begun => eraser \in Erasing
         /\ eraser # NotErasing => eraser \in Erasing
         /\ worker.pc \in {"idle", "scoring", "putting", "filing"} /\ worker.full \in BOOLEAN
<1>1. NotErasing.pc = "idle"
  BY DEF NotErasing
<1>2. eraser = NotErasing \/ eraser \in Erasing
  BY DEF RestTypeOK
<1>3. Begun => eraser \in Erasing
  BY <1>1, <1>2 DEF Begun
<1>4. worker.pc \in {"idle", "scoring", "putting", "filing"} /\ worker.full \in BOOLEAN
  BY DEF RestTypeOK
<1> QED BY <1>2, <1>3, <1>4

LEMMA Amounts == ASSUME NEW b PROVE Amount(b) \in Holding /\ Amount(b) # "absent"
BY DEF Amount, Holding

\* A step that leaves every holding and the erasure alone but may post events
\* or move the worker on, where that is still in order.
LEMMA Elsewhere ==
  ASSUME RestInv, UNCHANGED <<eval, brief, key, object, eraser, erases, erased>>,
         agent' \in BOOLEAN, troubles' \in 0..MaxTroubles,
         worker' \in [pc : {"idle", "scoring", "putting", "filing"}, full : BOOLEAN],
         worker'.pc \in {"putting", "filing"} => brief = "absent",
         missed \subseteq missed', missed' \subseteq Pieces,
         log' => log \/ "log" \in missed'
  PROVE  RestInv'
<1>1. RestTypeOK'
  <2>1. /\ eval' \in Holding /\ brief' \in Holding /\ object' \in Holding
        /\ key' \in BOOLEAN /\ erased' \in BOOLEAN
        /\ eraser' \in Erasing \cup {NotErasing} /\ erases' \in 0..MaxErases
    BY Zenon DEF RestInv, RestTypeOK
  <2> QED BY <2>1, Zenon DEF RestTypeOK
<1>2. WorkerInv'
  BY DEF WorkerInv
<1>3. FoundInv' /\ MissedInv'
  BY DEF RestInv, FoundInv, MissedInv, Begun
<1>4. PointersKept'
  BY DEF RestInv, PointersKept
<1>5. EraseCleans'
  BY DEF RestInv, EraseCleans, HasContent, Pieces
<1> QED BY <1>1, <1>2, <1>3, <1>4, <1>5 DEF RestInv

LEMMA PostingSteps ==
  ASSUME RestInv, ExecTypeOK, Running \/ Post \/ Finish \/ Leave
  PROVE  RestInv'
<1>1. UNCHANGED <<eval, brief, key, object, eraser, erases, erased, troubles, worker>>
  BY DEF Running, Post, Finish, Leave, erasureVars
<1>2. agent' \in BOOLEAN /\ troubles' \in 0..MaxTroubles
  BY <1>1 DEF RestInv, RestTypeOK, Running, Post, Finish, Leave, erasureVars
<1>3. worker' \in [pc : {"idle", "scoring", "putting", "filing"}, full : BOOLEAN]
  BY <1>1 DEF RestInv, RestTypeOK
<1>4. worker'.pc \in {"putting", "filing"} => brief = "absent"
  BY <1>1 DEF RestInv, WorkerInv
<1>5. missed' \in {missed, missed \cup {"log"}}
  BY DEF Running, Post, Finish, Leave, erasureVars, Written
<1>6. missed \subseteq missed' /\ missed' \subseteq Pieces
  BY <1>5 DEF RestInv, RestTypeOK, Pieces
<1>7. "log" \in missed' \/ log' = log
  BY DEF Running, Post, Finish, Leave, Written, Check, Acquire, CaseDone, RunFails, Delete,
     RunDies, Tick, execVars
<1> QED BY <1>1, <1>2, <1>3, <1>4, <1>6, <1>7, Elsewhere

LEMMA WorkerReads ==
  ASSUME RestInv, ExecTypeOK, ReadLog \/ ReadEvaluation \/ JobFails
  PROVE  RestInv'
<1>1. UNCHANGED <<execVars, agent, eval, brief, key, object, eraser, erases, erased, missed>>
  BY DEF ReadLog, ReadEvaluation, JobFails
<1>2. agent' \in BOOLEAN /\ troubles' \in 0..MaxTroubles
  <2>1. agent' \in BOOLEAN
    BY <1>1 DEF RestInv, RestTypeOK
  <2>2. troubles' = troubles \/ (troubles < MaxTroubles /\ troubles' = troubles + 1)
    BY DEF ReadLog, ReadEvaluation, JobFails, Trouble
  <2>3. troubles \in 0..MaxTroubles
    BY DEF RestInv, RestTypeOK
  <2> QED BY <2>1, <2>2, <2>3
<1>3. worker' \in [pc : {"idle", "scoring", "putting", "filing"}, full : BOOLEAN]
  <2>1. CASE ReadLog
    BY <2>1 DEF ReadLog, WorkerAt, ExecTypeOK
  <2>2. CASE ReadEvaluation
    <3>1. PICK b \in BOOLEAN : b = (eval = "content")
      OBVIOUS
    <3> QED BY <2>2, <3>1 DEF ReadEvaluation, WorkerAt
  <2>3. CASE JobFails
    BY <2>3 DEF JobFails, WorkerAt
  <2> QED BY <2>1, <2>2, <2>3
<1>4. worker'.pc \in {"putting", "filing"} => brief = "absent"
  BY DEF ReadLog, ReadEvaluation, JobFails, WorkerAt
<1>5. missed \subseteq missed' /\ missed' \subseteq Pieces /\ log' = log
  BY <1>1 DEF RestInv, RestTypeOK, execVars
<1> QED BY <1>1, <1>2, <1>3, <1>4, <1>5, Elsewhere

LEMMA StoreEvaluationStep ==
  ASSUME RestInv, StoreEvaluation
  PROVE  RestInv'
<1>1. /\ UNCHANGED <<execVars, agent, brief, key, object, eraser, erases, troubles, erased>>
      /\ eval' = Amount(worker.full) /\ missed' = missed \cup {"eval"}
      /\ worker' = [pc |-> "idle", full |-> FALSE]
  BY DEF StoreEvaluation, Written, WorkerAt
<1>2. RestTypeOK'
  <2>1. eval' \in Holding
    BY <1>1, Amounts
  <2>2. missed' \subseteq Pieces
    BY <1>1 DEF RestInv, RestTypeOK, Pieces
  <2>3. worker' \in [pc : {"idle", "scoring", "putting", "filing"}, full : BOOLEAN]
    BY <1>1
  <2> QED BY <1>1, <2>1, <2>2, <2>3, Zenon DEF RestInv, RestTypeOK
<1>3. WorkerInv'
  BY <1>1 DEF WorkerInv
<1>4. FoundInv' /\ MissedInv'
  BY <1>1 DEF RestInv, FoundInv, MissedInv, Begun
<1>5. PointersKept'
  BY <1>1 DEF RestInv, PointersKept
<1>6. EraseCleans'
  BY <1>1 DEF RestInv, EraseCleans, HasContent, Pieces, execVars
<1> QED BY <1>2, <1>3, <1>4, <1>5, <1>6 DEF RestInv

LEMMA PutDocumentStep ==
  ASSUME RestInv, PutDocument
  PROVE  RestInv'
<1>1. /\ UNCHANGED <<execVars, agent, eval, brief, key, eraser, erases, troubles, erased>>
      /\ object' = Amount(worker.full) /\ missed' = missed \cup {"object"}
      /\ worker' = [pc |-> "filing", full |-> worker.full]
  BY DEF PutDocument, Written, WorkerAt
<1>2. brief = "absent"
  BY DEF PutDocument, RestInv, WorkerInv
<1>3. RestTypeOK'
  <2>1. object' \in Holding
    BY <1>1, Amounts
  <2>2. missed' \subseteq Pieces
    BY <1>1 DEF RestInv, RestTypeOK, Pieces
  <2>3. worker' \in [pc : {"idle", "scoring", "putting", "filing"}, full : BOOLEAN]
    BY <1>1, Types DEF RestInv
  <2> QED BY <1>1, <2>1, <2>2, <2>3, Zenon DEF RestInv, RestTypeOK
<1>4. WorkerInv'
  BY <1>1, <1>2 DEF WorkerInv
<1>5. FoundInv' /\ MissedInv'
  BY <1>1, <1>2 DEF RestInv, FoundInv, MissedInv, Begun
<1>6. PointersKept'
  BY <1>1, <1>2 DEF PointersKept
<1>7. EraseCleans'
  BY <1>1 DEF RestInv, EraseCleans, HasContent, Pieces, execVars
<1> QED BY <1>3, <1>4, <1>5, <1>6, <1>7 DEF RestInv

LEMMA FileBriefStep ==
  ASSUME RestInv, FileBrief
  PROVE  RestInv'
<1>1. /\ UNCHANGED <<execVars, agent, eval, object, eraser, erases, troubles, erased>>
      /\ brief' = Amount(worker.full) /\ key' = TRUE /\ missed' = missed \cup {"brief"}
      /\ worker' = [pc |-> "idle", full |-> FALSE]
  BY DEF FileBrief, Written, WorkerAt
<1>2. brief = "absent"
  BY DEF FileBrief, RestInv, WorkerInv
<1>3. RestTypeOK'
  <2>1. brief' \in Holding
    BY <1>1, Amounts
  <2>2. missed' \subseteq Pieces
    BY <1>1 DEF RestInv, RestTypeOK, Pieces
  <2>3. worker' \in [pc : {"idle", "scoring", "putting", "filing"}, full : BOOLEAN]
    BY <1>1
  <2>4. key' \in BOOLEAN
    BY <1>1
  <2> QED BY <1>1, <2>1, <2>2, <2>3, <2>4, Zenon DEF RestInv, RestTypeOK
<1>4. WorkerInv'
  BY <1>1 DEF WorkerInv
<1>5. FoundInv'
  BY <1>1, <1>2 DEF RestInv, FoundInv, Begun
<1>6. MissedInv'
  BY <1>1 DEF RestInv, MissedInv, Begun
<1>7. PointersKept'
  BY <1>1 DEF PointersKept
<1>8. EraseCleans'
  BY <1>1 DEF RestInv, EraseCleans, HasContent, Pieces, execVars
<1> QED BY <1>3, <1>4, <1>5, <1>6, <1>7, <1>8 DEF RestInv

LEMMA EraseBeginStep ==
  ASSUME RestInv, EraseBegin
  PROVE  RestInv'
<1>1. /\ UNCHANGED <<execVars, agent, eval, brief, key, object, worker, troubles>>
      /\ erased' = FALSE /\ erases < MaxErases /\ erases' = erases + 1
      /\ missed' = IF object # "absent" /\ brief = "absent" THEN {"object"} ELSE {}
  BY DEF EraseBegin
<1>2. PICK e \in Erasing : /\ eraser' = e /\ e.pc = "deleting" /\ e.failed = FALSE
                           /\ e.eval = (eval # "absent") /\ e.brief = (brief # "absent")
  <2>1. PICK a \in BOOLEAN, b \in BOOLEAN : a = (eval # "absent") /\ b = (brief # "absent")
    BY Zenon
  <2>2. [pc |-> "deleting", eval |-> a, brief |-> b, failed |-> FALSE] \in Erasing
    BY DEF Erasing
  <2> QED BY <2>1, <2>2, Zenon DEF EraseBegin
<1>3. RestTypeOK'
  <2>1. erases' \in 0..MaxErases
    BY <1>1 DEF RestInv, RestTypeOK
  <2>2. missed' \subseteq Pieces
    BY <1>1 DEF Pieces
  <2>3. eraser' \in Erasing \cup {NotErasing} /\ erased' \in BOOLEAN
    BY <1>1, <1>2, Zenon
  <2> QED BY <1>1, <2>1, <2>2, <2>3, Zenon DEF RestInv, RestTypeOK
<1>4. WorkerInv'
  BY <1>1 DEF RestInv, WorkerInv
<1>5. FoundInv'
  BY <1>1, <1>2 DEF FoundInv
<1>6. MissedInv'
  BY <1>1, <1>2 DEF MissedInv
<1>7. PointersKept'
  BY <1>1 DEF RestInv, PointersKept
<1>8. EraseCleans'
  BY <1>1 DEF EraseCleans
<1> QED BY <1>3, <1>4, <1>5, <1>6, <1>7, <1>8 DEF RestInv

LEMMA DeleteObjectStep ==
  ASSUME RestInv, DeleteObject
  PROVE  RestInv'
<1>1. UNCHANGED <<execVars, agent, eval, brief, key, worker, erases, erased, missed>>
  BY DEF DeleteObject
<1>2. eraser \in Erasing /\ Begun
  BY Types DEF DeleteObject, RestInv, Begun
<1>3. PICK e \in Erasing :
        /\ eraser' = e /\ e.pc = "committing" /\ e.eval = eraser.eval /\ e.brief = eraser.brief
        /\ e.failed \/ ~(eraser.brief /\ key) \/ object' = "absent"
  <2>1. [eraser EXCEPT !.pc = "committing"] \in Erasing
    BY <1>2 DEF Erasing
  <2>2. [eraser EXCEPT !.pc = "committing", !.failed = TRUE] \in Erasing
    BY <1>2 DEF Erasing
  <2> QED BY <1>2, <2>1, <2>2 DEF DeleteObject, Erasing
<1>4. object' \in {object, "absent"}
  BY DEF DeleteObject
<1>5. troubles' \in 0..MaxTroubles
  <2>1. troubles' = troubles \/ (troubles < MaxTroubles /\ troubles' = troubles + 1)
    BY DEF DeleteObject, Trouble
  <2> QED BY <2>1 DEF RestInv, RestTypeOK
<1>6. RestTypeOK'
  <2>1. object' \in Holding
    BY <1>4 DEF RestInv, RestTypeOK, Holding
  <2>2. eraser' \in Erasing \cup {NotErasing}
    BY <1>3
  <2> QED BY <1>1, <1>5, <2>1, <2>2, Zenon DEF RestInv, RestTypeOK
<1>7. WorkerInv'
  BY <1>1 DEF RestInv, WorkerInv
<1>8. PointersKept'
  BY <1>1, <1>4 DEF RestInv, PointersKept
<1>9. FoundInv'
  <2>1. eraser.brief => brief # "absent"
    BY <1>2 DEF RestInv, FoundInv
  <2>2. eraser.brief /\ ~key => object = "absent"
    BY <2>1 DEF RestInv, PointersKept
  <2> QED BY <1>1, <1>3, <1>4, <2>1, <2>2 DEF FoundInv
<1>10. MissedInv'
  BY <1>1, <1>2, <1>3, <1>4 DEF RestInv, MissedInv
<1>11. EraseCleans'
  BY <1>1, <1>4 DEF RestInv, EraseCleans, HasContent, Pieces, execVars
<1> QED BY <1>6, <1>7, <1>8, <1>9, <1>10, <1>11 DEF RestInv

\* The commit scrubs what was found; what was not found is missed.
LEMMA EraseCommitStep ==
  ASSUME RestInv, EraseCommit
  PROVE  RestInv'
<1>1. /\ UNCHANGED <<agent, object, worker, erases, troubles, missed>>
      /\ log' = (log /\ "log" \in missed)
      /\ eval' = (IF eraser.eval THEN "blank" ELSE eval)
      /\ brief' = (IF eraser.brief THEN "blank" ELSE brief)
      /\ eraser' = NotErasing
  BY DEF EraseCommit, EvalScrubbed
<1>2. key' = (key /\ (eraser.failed \/ ~eraser.brief)) /\ erased' = ~eraser.failed
  BY Zenon DEF EraseCommit, KeyKept
<1>3. eraser \in Erasing /\ Begun /\ eraser.pc = "committing"
  BY Types DEF EraseCommit, RestInv, Begun
<1>4. NotErasing.pc = "idle"
  BY DEF NotErasing
<1>5. RestTypeOK'
  <2>1. eval' \in Holding /\ brief' \in Holding
    BY <1>1 DEF RestInv, RestTypeOK, Holding
  <2>2. key' \in BOOLEAN /\ erased' \in BOOLEAN
    BY <1>2, Zenon
  <2>3. eraser' \in Erasing \cup {NotErasing}
    BY <1>1
  <2> QED BY <1>1, <2>1, <2>2, <2>3, Zenon DEF RestInv, RestTypeOK
<1>6. eraser.brief => brief # "absent"
  BY <1>3 DEF RestInv, FoundInv
<1>7. eraser.brief /\ ~eraser.failed => object = "absent"
  BY <1>3 DEF RestInv, FoundInv
<1>8. WorkerInv'
  BY <1>1, <1>6 DEF RestInv, WorkerInv
<1>9. FoundInv' /\ MissedInv'
  BY <1>1, <1>4 DEF FoundInv, MissedInv, Begun
<1>10. PointersKept'
  BY <1>1, <1>2, <1>6, <1>7 DEF RestInv, PointersKept
<1>11. EraseCleans'
  <2> SUFFICES ASSUME erased', NEW p \in Pieces, HasContent(p)'
               PROVE  p \in missed'
    BY DEF EraseCleans
  <2>1. ~eraser.failed
    BY <1>2
  <2>2. /\ ~eraser.eval => eval = "absent" \/ "eval" \in missed
        /\ ~eraser.brief => brief = "absent" \/ "brief" \in missed
        /\ ~eraser.brief => object = "absent" \/ "object" \in missed
    BY <1>3 DEF RestInv, MissedInv
  <2>3. CASE p = "log"
    BY <1>1, <2>3 DEF HasContent
  <2>4. CASE p = "eval"
    BY <1>1, <2>2, <2>4 DEF HasContent
  <2>5. CASE p = "brief"
    BY <1>1, <2>2, <2>5 DEF HasContent
  <2>6. CASE p = "object"
    BY <1>1, <1>7, <2>1, <2>2, <2>6 DEF HasContent
  <2> QED BY <2>3, <2>4, <2>5, <2>6 DEF Pieces
<1> QED BY <1>5, <1>8, <1>9, <1>10, <1>11 DEF RestInv

LEMMA EraseDiesStep ==
  ASSUME RestInv, EraseDies
  PROVE  RestInv'
<1>1. /\ UNCHANGED <<execVars, agent, eval, brief, key, object, worker, erases, erased, missed>>
      /\ eraser' = NotErasing /\ troubles < MaxTroubles /\ troubles' = troubles + 1
  BY DEF EraseDies, Trouble
<1>2. RestTypeOK'
  <2>1. troubles' \in 0..MaxTroubles
    BY <1>1 DEF RestInv, RestTypeOK
  <2>2. eraser' \in Erasing \cup {NotErasing}
    BY <1>1
  <2> QED BY <1>1, <2>1, <2>2, Zenon DEF RestInv, RestTypeOK
<1>3. WorkerInv'
  BY <1>1 DEF RestInv, WorkerInv
<1>4. FoundInv' /\ MissedInv'
  BY <1>1 DEF FoundInv, MissedInv, Begun, NotErasing
<1>5. PointersKept'
  BY <1>1 DEF RestInv, PointersKept
<1>6. EraseCleans'
  BY <1>1 DEF RestInv, EraseCleans, HasContent, Pieces, execVars
<1> QED BY <1>2, <1>3, <1>4, <1>5, <1>6 DEF RestInv

LEMMA Unmoved ==
  ASSUME IInv, UNCHANGED vars
  PROVE  IInv'
<1>1. /\ UNCHANGED <<agent, eval, brief, key, object, worker, eraser, erases, troubles, erased, missed>>
      /\ UNCHANGED <<status, link, log, run, ttl, late>>
  BY DEF vars, execVars, erasureVars
<1>2. ExecInv'
  <2>1. status \in {"in_progress", "completed"} /\ link \in BOOLEAN /\ log \in BOOLEAN
    BY DEF IInv, ExecInv, ExecTypeOK
  <2> QED BY <1>1, <2>1, ExecSame DEF IInv
<1>3. RestTypeOK'
  BY <1>1, Zenon DEF IInv, RestInv, RestTypeOK
<1>4. WorkerInv' /\ FoundInv' /\ MissedInv' /\ PointersKept'
  BY <1>1 DEF IInv, RestInv, WorkerInv, FoundInv, MissedInv, PointersKept, Begun
<1>5. EraseCleans'
  BY <1>1 DEF IInv, RestInv, EraseCleans, HasContent, Pieces
<1> QED BY <1>2, <1>3, <1>4, <1>5 DEF IInv, RestInv

---------------------------------------------------------------------------
LEMMA Inductive == IInv /\ [Next]_vars => IInv'
<1> SUFFICES ASSUME IInv, [Next]_vars PROVE IInv'
  OBVIOUS
<1>1. ExecInv /\ ExecTypeOK /\ RestInv
  BY DEF IInv, ExecInv
<1>2. CASE UNCHANGED vars
  BY <1>2, Unmoved
<1>3. CASE Next
  <2>1. RestInv'
    BY <1>1, <1>3, PostingSteps, WorkerReads, StoreEvaluationStep, PutDocumentStep, FileBriefStep,
       EraseBeginStep, DeleteObjectStep, EraseCommitStep, EraseDiesStep DEF Next
  <2>2. CASE Running
    BY <1>1, <2>1, <2>2, RunningStep DEF IInv
  <2>3. CASE ~Running
    <3>1. UNCHANGED <<run, ttl, late>>
      BY <1>3, <2>3 DEF Next, Post, Finish, Leave, ReadLog, StoreEvaluation, ReadEvaluation,
         PutDocument, FileBrief, JobFails, EraseBegin, DeleteObject, EraseCommit, EraseDies,
         execVars
    <3>2. /\ status' = status \/ status' = "completed"
          /\ link' = link \/ link' = FALSE
      BY <1>3, <2>3 DEF Next, Post, Finish, Leave, ReadLog, StoreEvaluation, ReadEvaluation,
         PutDocument, FileBrief, JobFails, EraseBegin, DeleteObject, EraseCommit, EraseDies,
         execVars
    <3>3. log' = log \/ log' = TRUE \/ log' = (log /\ "log" \in missed)
      BY <1>3, <2>3, Zenon DEF Next, Post, Finish, Leave, ReadLog, StoreEvaluation,
         ReadEvaluation, PutDocument, FileBrief, JobFails, EraseBegin, DeleteObject,
         EraseCommit, EraseDies, execVars
    <3>4. status \in {"in_progress", "completed"} /\ link \in BOOLEAN /\ log \in BOOLEAN
      BY <1>1 DEF ExecTypeOK
    <3>5. status' \in {"in_progress", "completed"} /\ link' \in BOOLEAN
      BY <3>2, <3>4
    <3>6. log' \in BOOLEAN
      BY <3>3, <3>4, Zenon
    <3> QED BY <1>1, <2>1, <3>1, <3>5, <3>6, ExecSame DEF IInv
  <2> QED BY <2>2, <2>3
<1> QED BY <1>2, <1>3

\* Every reachable state has its type, however many requests run, erase and fail
\* (execute, evaluate_session, erase_candidacy).
THEOREM TypeCorrect == Spec => []TypeOK
<1>1. IInv => TypeOK
  BY Zenon DEF IInv, ExecInv, RestInv, RestTypeOK, TypeOK
<1> QED BY Initially, Inductive, <1>1, PTL DEF Spec

\* However many code runs a session is sent, two are under way at once only after
\* the lock expired under one with enough cases to fill it, whoever deletes whose
\* lock and whichever process dies (execute, execute.py:72).
THEOREM RunsExclude == Spec => []OneRunUnlessExpired
<1>1. IInv => OneRunUnlessExpired
  BY DEF IInv, ExecInv, LockInv, Expired, OneRunUnlessExpired
<1> QED BY Initially, Inductive, <1>1, PTL DEF Spec

\* However often an erasure fails, dies or is tried again while the worker writes,
\* a brief's document is pointed to or gone (erase_candidacy, compliance.py:218).
THEOREM DocumentsTraceable == Spec => []PointersKept
<1>1. IInv => PointersKept
  BY DEF IInv, RestInv
<1> QED BY Initially, Inductive, <1>1, PTL DEF Spec

\* An erasure that reports no failure leaves content only where something was
\* written since it began, or where a document had no row (erase_candidacy).
THEOREM ErasureComplete == Spec => []EraseCleans
<1>1. IInv => EraseCleans
  BY DEF IInv, RestInv
<1> QED BY Initially, Inductive, <1>1, PTL DEF Spec
=============================================================================
