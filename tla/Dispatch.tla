------------------------------ MODULE Dispatch ------------------------------
(***************************************************************************)
(* Who speaks in the room of one session: the room token that may carry an *)
(* agent dispatch (backend/app/routes/sessions.py, issue_room_token) and   *)
(* the agent job's per-session Redis lock (agent/interview_agent.py,       *)
(* interview_session).                                                     *)
(*                                                                         *)
(* The two guard the same thing, one interviewer per session, at the two   *)
(* ends of a dispatch.  The first lives in PostgreSQL under an advisory    *)
(* transaction lock, the second in Redis with an expiry.  LiveKit, which   *)
(* turns a dispatching token into an agent job, is external.  Time is      *)
(* counted in ticks of a little over 90 s.                                 *)
(***************************************************************************)
EXTENDS Integers, FiniteSets

CONSTANTS
  Tabs,           \* browser tabs of the candidate, each with its own requests
  Jobs,           \* agent jobs that can be alive at once
  LockTTL,        \* ticks until Redis expires the agent lock (1800 s)
  RoomViewLags,   \* may a job see an empty room that is not (it has not joined it)?
  MaxTrouble      \* bound: dispatches lost, crashes, Redis and API failures

ASSUME DispatchAssumption ==
  /\ LockTTL \in Nat \ {0}
  /\ RoomViewLags \in BOOLEAN
  /\ MaxTrouble \in Nat

VARIABLES
  status,    \* sessions.status
  room,      \* is sessions.livekit_room set?
  stamp,     \* age of sessions.agent_dispatched_at
  greeted,   \* is there an agent_turn newer than agent_dispatched_at?
  opened,    \* does the event log hold the first state_transition?
  over,      \* does the event log stand at ENDED?
  mutex,     \* who holds the advisory lock livekit_dispatch:<session>
  tab,       \* [Tabs -> ..] each tab's request, token and place
  lock,      \* ticks the Redis key agent:session:<session> has left, 0 if absent
  job,       \* [Jobs -> ..] the agent jobs
  hole,      \* history: has the agent lock been stolen, expired or not been taken?
  trouble    \* counts against MaxTrouble

sessionVars == <<status, room, stamp, greeted, opened, over>>
vars == <<status, room, stamp, greeted, opened, over, mutex, tab, lock, job, hole, trouble>>

-----------------------------------------------------------------------------
(* Data *)

Statuses == {"created", "in_progress", "completed"}

\* Ages: Unset for NULL, Old for "more than 90 s ago".
Unset == -1
Old == 1
Ages == Unset..Old
Older(age) == IF age \in {Unset, Old} THEN age ELSE age + 1

Nobody == "nobody"

\* What a request read of the session's row before it took the lock, and whether
\* an agent_turn newer than the stamp it read has been logged by now.
Row == [status : Statuses, room : BOOLEAN, stamp : Ages, greeted : BOOLEAN]
ReadRow == [status |-> status, room |-> room, stamp |-> stamp, greeted |-> greeted]

Away == [pc |-> "away"]
TabState == {Away} \cup [pc : {"loaded", "deciding"}, row : Row]
            \cup [pc : {"token"}, dispatch : BOOLEAN] \cup [pc : {"inside"}]

NoJob == [pc |-> "none"]
Booted == {"boot", "open", "join", "greet", "on", "bye"}
JobState == {NoJob} \cup [pc : {"nx", "look", "delete", "set"}]
            \cup [pc : Booted, held : BOOLEAN]

TypeOK ==
  /\ status \in Statuses
  /\ room \in BOOLEAN /\ greeted \in BOOLEAN /\ opened \in BOOLEAN /\ over \in BOOLEAN
  /\ stamp \in Ages
  /\ mutex \in Tabs \cup {Nobody}
  /\ tab \in [Tabs -> TabState]
  /\ lock \in 0..LockTTL
  /\ job \in [Jobs -> JobState]
  /\ hole \in BOOLEAN
  /\ trouble \in 0..MaxTrouble

Init ==
  /\ status = "created" /\ room = FALSE /\ stamp = Unset /\ greeted = FALSE
  /\ opened = FALSE /\ over = FALSE
  /\ mutex = Nobody /\ tab = [t \in Tabs |-> Away]
  /\ lock = 0 /\ job = [j \in Jobs |-> NoJob]
  /\ hole = FALSE /\ trouble = 0

Trouble == trouble < MaxTrouble /\ trouble' = trouble + 1

Inside == {t \in Tabs : tab[t].pc = "inside"}
Voices == {j \in Jobs : job[j].pc \in {"greet", "on", "bye"}}
Voiced == Voices # {}
Holders == {j \in Jobs : job[j].pc \in Booted /\ job[j].held}

-----------------------------------------------------------------------------
(* The candidate's requests for a room token *)

\* The handler reads the row first, and refuses a session that has ended.
Load(t) ==
  /\ tab[t] = Away
  /\ status # "completed"
  /\ tab' = [tab EXCEPT ![t] = [pc |-> "loaded", row |-> ReadRow]]
  /\ UNCHANGED <<sessionVars, mutex, lock, job, hole, trouble>>

\* pg_advisory_xact_lock, then db.get again, which returns the row already in the
\* session's identity map.  Setting livekit_room commits, and with the transaction
\* goes the lock.
Lock(t) ==
  /\ tab[t].pc = "loaded"
  /\ mutex = Nobody
  /\ mutex' = IF tab[t].row.room THEN t ELSE Nobody
  /\ room' = TRUE
  /\ tab' = [tab EXCEPT ![t].pc = "deciding"]
  /\ UNCHANGED <<status, stamp, greeted, opened, over, lock, job, hole, trouble>>

\* Mutant ArrivesAlways: a dispatched session is never dispatched again
ArrivesAlways(row) == FALSE

\* 90 s after a dispatch of a session still "created", with no agent_turn since.
NeverArrived(row) == row.stamp = Old /\ row.status = "created" /\ ~row.greeted

ShouldDispatch(row) == row.stamp = Unset \/ NeverArrived(row)

Issue(t) ==
  /\ tab[t].pc = "deciding"
  /\ LET dispatch == ShouldDispatch(tab[t].row)
     IN  /\ stamp' = IF dispatch THEN 0 ELSE stamp
         /\ greeted' = IF dispatch THEN FALSE ELSE greeted
         /\ tab' = [tab EXCEPT ![t] = [pc |-> "token", dispatch |-> dispatch]]
  /\ mutex' = IF mutex = t THEN Nobody ELSE mutex
  /\ UNCHANGED <<status, room, opened, over, lock, job, hole, trouble>>

\* LiveKit: the tab joins; a token that carries a dispatch asks for an agent job,
\* which may never start.
Join(t) ==
  /\ tab[t].pc = "token"
  /\ tab' = [tab EXCEPT ![t] = [pc |-> "inside"]]
  /\ \/ ~tab[t].dispatch /\ UNCHANGED <<job, trouble>>
     \/ /\ tab[t].dispatch
        /\ \E j \in Jobs : job[j] = NoJob /\ job' = [job EXCEPT ![j] = [pc |-> "nx"]]
        /\ UNCHANGED trouble
     \/ tab[t].dispatch /\ Trouble /\ UNCHANGED job
  /\ UNCHANGED <<sessionVars, mutex, lock, hole>>

\* The tab is closed, reloaded or loses its connection.
Leave(t) ==
  /\ tab[t].pc = "inside"
  /\ tab' = [tab EXCEPT ![t] = Away]
  /\ UNCHANGED <<sessionVars, mutex, lock, job, hole, trouble>>

-----------------------------------------------------------------------------
(* The agent job *)

Goto(j, pc) == [job EXCEPT ![j] = [pc |-> pc]]
Boots(j, held) == [job EXCEPT ![j] = [pc |-> "boot", held |-> held]]

\* Mutant AcquireAnyway: SET without NX
AcquireAnyway(j) ==
  /\ job[j].pc = "nx"
  /\ lock' = LockTTL /\ job' = Boots(j, TRUE)
  /\ UNCHANGED <<sessionVars, mutex, tab, hole, trouble>>

\* SET agent:session:<id> NX EX 1800; an error of Redis means no lock at all.
Acquire(j) ==
  /\ job[j].pc = "nx"
  /\ \/ /\ lock = 0
        /\ lock' = LockTTL /\ job' = Boots(j, TRUE)
        /\ UNCHANGED <<hole, trouble>>
     \/ /\ lock > 0
        /\ job' = Goto(j, "look")
        /\ UNCHANGED <<lock, hole, trouble>>
     \/ /\ Trouble
        /\ job' = Boots(j, FALSE) /\ hole' = TRUE
        /\ UNCHANGED lock
  /\ UNCHANGED <<sessionVars, mutex, tab>>

\* Whoever is in the room, the candidate included, makes the lock a live one.
RoomEmpty(j) == Inside = {} /\ Voices \ {j} = {}

Look(j) ==
  /\ job[j].pc = "look"
  /\ \/ ~RoomEmpty(j) /\ job' = Goto(j, "none")
     \/ (RoomEmpty(j) \/ RoomViewLags) /\ job' = Goto(j, "delete")
  /\ UNCHANGED <<sessionVars, mutex, tab, lock, hole, trouble>>

\* The lock looks stale: delete it and set it anew, in two calls.
Delete(j) ==
  /\ job[j].pc = "delete"
  /\ lock' = 0
  /\ hole' = TRUE
  /\ job' = Goto(j, "set")
  /\ UNCHANGED <<sessionVars, mutex, tab, trouble>>

\* Whether the second SET NX took is not looked at.
Set(j) ==
  /\ job[j].pc = "set"
  /\ lock' = IF lock = 0 THEN LockTTL ELSE lock
  /\ job' = Boots(j, TRUE)
  /\ UNCHANGED <<sessionVars, mutex, tab, hole, trouble>>

\* Mutant BootUnlessCompleted: the log is not asked whether it stands at ENDED
BootUnlessCompleted(j) ==
  /\ job[j].pc = "boot"
  /\ job' = IF status = "completed"
            THEN Goto(j, "none")
            ELSE [job EXCEPT ![j].pc = IF opened THEN "join" ELSE "open"]
  /\ UNCHANGED <<sessionVars, mutex, tab, lock, hole, trouble>>

\* Bootstrap: an unreachable backend, an ended session and a log at ENDED each end
\* the job here, before on_shutdown is registered: the lock stays.
Boot(j) ==
  /\ job[j].pc = "boot"
  /\ \/ Trouble /\ job' = Goto(j, "none")
     \/ /\ job' = IF status = "completed" \/ over
                  THEN Goto(j, "none")
                  ELSE [job EXCEPT ![j].pc = IF opened THEN "join" ELSE "open"]
        /\ UNCHANGED trouble
  /\ UNCHANGED <<sessionVars, mutex, tab, lock, hole>>

\* A log without events: fold the first transition, which the sink posts if it can,
\* and set the session in_progress, best effort.
Open(j) ==
  /\ job[j].pc = "open"
  /\ job' = [job EXCEPT ![j].pc = "join"]
  /\ \/ /\ opened' = TRUE
        /\ status' = IF status = "completed" THEN status ELSE "in_progress"
        /\ UNCHANGED trouble
     \/ /\ Trouble
        /\ \/ opened' = TRUE /\ UNCHANGED status
           \/ /\ status' = IF status = "completed" THEN status ELSE "in_progress"
              /\ UNCHANGED opened
  /\ UNCHANGED <<room, stamp, greeted, over, mutex, tab, lock, hole>>

\* session.start: the agent is in the room, and greets.
Start(j) ==
  /\ job[j].pc = "join"
  /\ job' = [job EXCEPT ![j].pc = "greet"]
  /\ UNCHANGED <<sessionVars, mutex, tab, lock, hole, trouble>>

\* The greeting is over and on_shutdown registered.
Register(j) ==
  /\ job[j].pc = "greet"
  /\ job' = [job EXCEPT ![j].pc = "on"]
  /\ UNCHANGED <<sessionVars, mutex, tab, lock, hole, trouble>>

\* An agent_turn reaches the log.
Turn(j) ==
  /\ job[j].pc = "on"
  /\ greeted' = (stamp # Unset)
  /\ tab' = [t \in Tabs |-> IF tab[t].pc \in {"loaded", "deciding"}
                            THEN [tab[t] EXCEPT !.row.greeted = (@ \/ tab[t].row.stamp # Unset)]
                            ELSE tab[t]]
  /\ UNCHANGED <<status, room, stamp, opened, over, mutex, lock, job, hole, trouble>>

\* The last round is over: the session is set completed, best effort.
Finish(j) ==
  /\ job[j].pc = "on"
  /\ over' = TRUE
  /\ \/ status' = "completed" /\ UNCHANGED trouble
     \/ Trouble /\ UNCHANGED status
  /\ job' = [job EXCEPT ![j].pc = "bye"]
  /\ UNCHANGED <<room, stamp, greeted, opened, mutex, tab, lock, hole>>

\* The job ends, of itself or because the candidate has left its room.
\* on_shutdown deletes the key of a job that thinks it holds it, whoever set it.
Shutdown(j) ==
  /\ job[j].pc \in {"on", "bye"}
  /\ job[j].pc = "bye" \/ Inside = {}
  /\ lock' = IF job[j].held THEN 0 ELSE lock
  /\ job' = Goto(j, "none")
  /\ UNCHANGED <<sessionVars, mutex, tab, hole, trouble>>

\* The room is left before on_shutdown is registered, or the process dies.
Abandon(j) ==
  /\ job[j].pc # "none"
  /\ \/ job[j].pc = "greet" /\ Inside = {} /\ UNCHANGED trouble
     \/ Trouble
  /\ job' = Goto(j, "none")
  /\ UNCHANGED <<sessionVars, mutex, tab, lock, hole>>

-----------------------------------------------------------------------------
\* Time: the dispatch grows old, in the row and in what requests have read of it,
\* and the lock comes closer to its expiry.
Tick ==
  /\ stamp' = Older(stamp)
  /\ tab' = [t \in Tabs |-> IF tab[t].pc \in {"loaded", "deciding"}
                            THEN [tab[t] EXCEPT !.row.stamp = Older(@)]
                            ELSE tab[t]]
  /\ lock' = IF lock = 0 THEN 0 ELSE lock - 1
  /\ hole' = (hole \/ (lock = 1 /\ Holders # {}))
  /\ UNCHANGED <<status, room, greeted, opened, over, mutex, job, trouble>>

Candidate(t) == Load(t) \/ Lock(t) \/ Issue(t) \/ Join(t) \/ Leave(t)

Agent(j) ==
  \/ Acquire(j) \/ Look(j) \/ Delete(j) \/ Set(j) \/ Boot(j) \/ Open(j)
  \/ Start(j) \/ Register(j) \/ Turn(j) \/ Finish(j) \/ Shutdown(j) \/ Abandon(j)

Next == Tick \/ (\E t \in Tabs : Candidate(t)) \/ (\E j \in Jobs : Agent(j))

Spec == Init /\ [][Next]_vars

\* A candidate who hears nobody asks again; requests, jobs and time go on; PostgreSQL
\* hands its advisory lock to the request that has waited longest.  Leaving a room with a
\* voice in it, finishing and dying are never owed.
FairSpec ==
  /\ Spec
  /\ WF_vars(Tick)
  /\ \A t \in Tabs : SF_vars(Lock(t)) /\ WF_vars(Load(t) \/ Issue(t) \/ Join(t) \/ (~Voiced /\ Leave(t)))
  /\ \A j \in Jobs : WF_vars(Acquire(j) \/ Look(j) \/ Delete(j) \/ Set(j) \/ Boot(j)
                              \/ Open(j) \/ Start(j) \/ Register(j) \/ Shutdown(j))

-----------------------------------------------------------------------------
(* Properties *)

\* Two interviewers in one room come only of a lock that was stolen, that expired
\* under its holder, or that Redis could not give: short of those, SET NX and the
\* releases keep all but one job out (interview_agent.py:486-540, 1006-1012).
TwoVoicesNeedAHole == (\E i, j \in Voices : i # j) => hole

\* "a finished interview never resurrects" (interview_agent.py:578-582, 593-597): with
\* the log at ENDED and no job past its bootstrap, no job gets past it again, also
\* when the session never got its status "completed".
Quiet == over /\ \A j \in Jobs : job[j].pc \notin Booted \ {"boot"}
FinishedNeverResurrects == [][Quiet => Quiet']_vars

\* A session whose dispatch is lost, or whose first job dies and leaves its lock
\* behind, still gets an interviewer, or is at least in_progress, as long as the
\* candidate keeps asking (sessions.py:371-394, the lock's expiry).
FirstVoiceArrives == <>(Voiced \/ status # "created")
=============================================================================
