------------------------------ MODULE EventSink ------------------------------
(***************************************************************************)
(* The agent's EventSink (agent/event_sink.py) posting batches over an     *)
(* unreliable connection to POST /sessions/{id}/events                     *)
(* (backend/app/routes/sessions.py), for one interview session.            *)
(*                                                                         *)
(* A sink is the EventSink of one agent job; several jobs may serve one    *)
(* session, one after the other or, when dispatch goes wrong, at once.     *)
(* A connection is one HTTP request with the server thread that handles    *)
(* it: when the client gives up, the request may still be delivered and    *)
(* handled, and a retry then runs beside it.                               *)
(***************************************************************************)
EXTENDS Integers, Sequences, FiniteSets

CONSTANTS
  Sinks,      \* EventSink objects, one per agent job of the session
  Conns,      \* HTTP requests that can be outstanding at once
  NoSink,     \* the client of a request nobody waits for
  NoConn,     \* "not waiting for any request"; also "advisory lock is free"
  MaxEmit,    \* bound: events each sink emits
  MaxPlain    \* bound: events appended by the browser and by server code

ASSUME SinkAssumption == NoSink \notin Sinks
ASSUME ConnAssumption == NoConn \notin Conns
ASSUME BoundAssumption == MaxEmit \in Nat /\ MaxPlain \in Nat

VARIABLES
  status,     \* [Sinks -> ..] _closed and how far close() has got
  emitted,    \* [Sinks -> Nat] events stamped with an eid so far
  poison,     \* events whose payload json cannot serialise
  queue,      \* [Sinks -> Seq(Event)] _queue
  waiting,    \* [Sinks -> Conns or NoConn] the post that flush() awaits
  conn,       \* [Conns -> Request]
  lock,       \* the holder of the session's advisory lock
  rows,       \* interview_events rows of the session
  plains,     \* events appended so far by the browser and by server code
  dropped     \* history: events a living sink gave up on

vars == <<status, emitted, poison, queue, waiting, conn, lock, rows, plains, dropped>>
sinkVars == <<status, emitted, poison, queue, waiting, dropped>>

-----------------------------------------------------------------------------
(* Data *)

\* An agent event: its eid is unique, so sink and number stand for it.
AgentEvent == [sink : Sinks, n : 1..MaxEmit]
\* An event without payload.eid: browser beacons and append_event().
Plain == [sink |-> NoSink, n |-> 0]
Event == AgentEvent \cup {Plain}
Row == [seq : Nat, ev : Event]

Statuses == {"open", "closing", "closed", "crashed"}
\* "sent": on the wire or waiting for the lock; "locked": inside the
\* transaction; "committed" and "failed": the response is on its way.
Stages == {"free", "sent", "locked", "committed", "failed"}
Request == [stage : Stages, client : Sinks \cup {NoSink}, batch : Seq(Event),
            pos : Nat \ {0}, seen : SUBSET Event, next : Int, staged : SUBSET Row]

Free == [stage |-> "free", client |-> NoSink, batch |-> <<>>,
         pos |-> 1, seen |-> {}, next |-> 0, staged |-> {}]

Elems(s) == {s[i] : i \in DOMAIN s}
Stored == {r.ev : r \in rows}
SeqsOf(R) == {r.seq : r \in R}
\* The largest seq, or -1.
LastOf(R) == IF R = {} THEN -1
             ELSE CHOOSE m \in SeqsOf(R) : \A k \in SeqsOf(R) : k <= m
LastSeq == LastOf(rows)

\* The batch whose fate the sink still awaits.
Awaited(s) == IF waiting[s] = NoConn THEN <<>> ELSE conn[waiting[s]].batch

TypeOK ==
  /\ status \in [Sinks -> Statuses]
  /\ emitted \in [Sinks -> 0..MaxEmit]
  /\ poison \subseteq AgentEvent
  /\ queue \in [Sinks -> Seq(AgentEvent)]
  /\ waiting \in [Sinks -> Conns \cup {NoConn}]
  /\ conn \in [Conns -> Request]
  /\ lock \in Conns \cup {NoConn}
  /\ rows \subseteq Row
  /\ plains \in 0..MaxPlain
  /\ dropped \subseteq AgentEvent

Init ==
  /\ status = [s \in Sinks |-> "open"]
  /\ emitted = [s \in Sinks |-> 0]
  /\ poison = {}
  /\ queue = [s \in Sinks |-> <<>>]
  /\ waiting = [s \in Sinks |-> NoConn]
  /\ conn = [c \in Conns |-> Free]
  /\ lock = NoConn
  /\ rows = {}
  /\ plains = 0
  /\ dropped = {}

-----------------------------------------------------------------------------
(* The sink *)

\* emit(): stamp an eid and enqueue; once closed the event is only logged.
Emit(s, bad) ==
  /\ status[s] = "open"
  /\ emitted[s] < MaxEmit
  /\ LET e == [sink |-> s, n |-> emitted[s] + 1]
     IN  /\ queue' = [queue EXCEPT ![s] = Append(@, e)]
         /\ poison' = IF bad THEN poison \cup {e} ELSE poison
  /\ emitted' = [emitted EXCEPT ![s] = @ + 1]
  /\ UNCHANGED <<status, waiting, conn, lock, rows, plains, dropped>>

\* flush(), up to the await: take the whole queue and post it.  The loop's
\* flushes never overlap; close() runs its own after cancelling the loop.
Post(s, c) ==
  /\ status[s] \in {"open", "closing"}
  /\ waiting[s] = NoConn
  /\ queue[s] # <<>>
  /\ Elems(queue[s]) \cap poison = {}
  /\ conn[c].stage = "free"
  /\ conn' = [conn EXCEPT ![c] = [Free EXCEPT !.stage = "sent", !.client = s,
                                              !.batch = queue[s]]]
  /\ queue' = [queue EXCEPT ![s] = <<>>]
  /\ waiting' = [waiting EXCEPT ![s] = c]
  /\ UNCHANGED <<status, emitted, poison, lock, rows, plains, dropped>>

\* flush() on a batch that cannot be encoded: the whole batch is dropped.
\* Mutant DropPoisonNever: the batch is re-queued like any other.
DropPoisonNever(s) ==
  /\ status[s] \in {"open", "closing"} /\ waiting[s] = NoConn
  /\ Elems(queue[s]) \cap poison # {}
  /\ UNCHANGED vars
DropPoison(s) ==
  /\ status[s] \in {"open", "closing"}
  /\ waiting[s] = NoConn
  /\ Elems(queue[s]) \cap poison # {}
  /\ dropped' = dropped \cup Elems(queue[s])
  /\ queue' = [queue EXCEPT ![s] = <<>>]
  /\ UNCHANGED <<status, emitted, poison, waiting, conn, lock, rows, plains>>

\* What becomes of a request when its client stops waiting for it.
Orphan(req) == IF req.stage \in {"sent", "locked"} THEN [req EXCEPT !.client = NoSink]
               ELSE Free

\* The post returned 2xx.
PostOk(s) ==
  /\ waiting[s] # NoConn
  /\ conn[waiting[s]].stage = "committed"
  /\ conn' = [conn EXCEPT ![waiting[s]] = Free]
  /\ waiting' = [waiting EXCEPT ![s] = NoConn]
  /\ UNCHANGED <<status, emitted, poison, queue, lock, rows, plains, dropped>>

\* self._queue = batch + self._queue
\* Mutant RequeuedNothing: the batch is not put back.
\* Mutant RequeuedBehind: the batch is put back behind newer events.
RequeuedNothing(s) == queue[s]
RequeuedBehind(s) == queue[s] \o Awaited(s)
Requeued(s) == Awaited(s) \o queue[s]

\* flush() catches the error: the batch goes back in front of what was
\* queued since.  Nobody retries the last flush of close().
Requeue(s) ==
  /\ conn' = [conn EXCEPT ![waiting[s]] = Orphan(@)]
  /\ waiting' = [waiting EXCEPT ![s] = NoConn]
  /\ queue' = [queue EXCEPT ![s] = Requeued(s)]
  /\ IF status[s] = "closing"
     THEN /\ status' = [status EXCEPT ![s] = "closed"]
          /\ dropped' = dropped \cup Elems(Awaited(s))
     ELSE UNCHANGED <<status, dropped>>
  /\ UNCHANGED <<emitted, poison, lock, rows, plains>>

\* The post came back with an error status, or its connection broke.
PostFail(s) ==
  /\ waiting[s] # NoConn
  /\ conn[waiting[s]].stage = "failed"
  /\ Requeue(s)

\* The 30 s timeout: the request may be anywhere, the batch even stored.
PostTimeout(s) ==
  /\ waiting[s] # NoConn
  /\ conn[waiting[s]].stage \in {"sent", "locked", "committed"}
  /\ Requeue(s)

\* close(): no more events, and the flush loop is cancelled.  CancelledError
\* passes the handlers of flush(), so a batch in flight is not re-queued.
Close(s) ==
  /\ status[s] = "open"
  /\ status' = [status EXCEPT ![s] = "closing"]
  /\ IF waiting[s] = NoConn
     THEN UNCHANGED <<conn, waiting, dropped>>
     ELSE /\ conn' = [conn EXCEPT ![waiting[s]] = Orphan(@)]
          /\ waiting' = [waiting EXCEPT ![s] = NoConn]
          /\ dropped' = dropped \cup Elems(Awaited(s))
  /\ UNCHANGED <<emitted, poison, queue, lock, rows, plains>>

\* close() after its flush returned, or found nothing to post.
Closed(s) ==
  /\ status[s] = "closing"
  /\ waiting[s] = NoConn
  /\ queue[s] = <<>>
  /\ status' = [status EXCEPT ![s] = "closed"]
  /\ UNCHANGED <<emitted, poison, queue, waiting, conn, lock, rows, plains, dropped>>

\* The agent process dies: what it held in memory is gone.
Crash(s) ==
  /\ status[s] \in {"open", "closing"}
  /\ status' = [status EXCEPT ![s] = "crashed"]
  /\ conn' = IF waiting[s] = NoConn THEN conn
             ELSE [conn EXCEPT ![waiting[s]] = Orphan(@)]
  /\ waiting' = [waiting EXCEPT ![s] = NoConn]
  /\ queue' = [queue EXCEPT ![s] = <<>>]
  /\ UNCHANGED <<emitted, poison, lock, rows, plains, dropped>>

-----------------------------------------------------------------------------
(* The event log *)

\* A browser beacon (frontend postEvents): no eid, no retry, nobody waits.
BrowserPost(c) ==
  /\ plains < MaxPlain
  /\ conn[c].stage = "free"
  /\ conn' = [conn EXCEPT ![c] = [Free EXCEPT !.stage = "sent", !.batch = <<Plain>>]]
  /\ plains' = plains + 1
  /\ UNCHANGED <<sinkVars, lock, rows>>

Answer(req, outcome) == IF req.client = NoSink THEN Free
                        ELSE [req EXCEPT !.stage = outcome]

\* The stored eids among those of the batch; Plain has none to look up.
\* Mutant SeenNothing: retries are not recognised.
SeenNothing(batch) == {}
Seen(batch) == {e \in Elems(batch) : e # Plain /\ e \in Stored}

\* append_events: take the advisory lock, then read the stored eids of the
\* batch and the last seq.
Begin(c) ==
  /\ conn[c].stage = "sent"
  /\ lock = NoConn
  /\ lock' = c
  /\ conn' = [conn EXCEPT ![c].stage = "locked",
                          ![c].seen = Seen(conn[c].batch),
                          ![c].next = LastSeq + 1,
                          ![c].staged = {}]
  /\ UNCHANGED <<sinkVars, rows, plains>>

\* An event that is already stored is skipped, any other gets the next seq.
\* Mutant SkippedGap: a skipped event uses up a seq.
SkippedGap(req) == [req EXCEPT !.pos = @ + 1, !.next = @ + 1]
Skipped(req) == [req EXCEPT !.pos = @ + 1]
Staged(req, e) == [req EXCEPT !.pos = @ + 1, !.next = @ + 1,
                              !.staged = @ \cup {[seq |-> req.next, ev |-> e]}]

\* One iteration of the loop over body.events.
StageEvent(c) ==
  /\ conn[c].stage = "locked"
  /\ conn[c].pos <= Len(conn[c].batch)
  /\ LET e == conn[c].batch[conn[c].pos]
     IN  conn' = [conn EXCEPT ![c] = IF e \in conn[c].seen THEN Skipped(conn[c])
                                     ELSE Staged(conn[c], e)]
  /\ UNCHANGED <<sinkVars, lock, rows, plains>>

\* db.commit(): the rows appear together and the transaction's lock is
\* released; UNIQUE (session_id, seq) rejects the whole batch.
Commit(c) ==
  /\ conn[c].stage = "locked"
  /\ conn[c].pos > Len(conn[c].batch)
  /\ lock' = NoConn
  /\ IF SeqsOf(conn[c].staged) \cap SeqsOf(rows) = {}
     THEN /\ rows' = rows \cup conn[c].staged
          /\ conn' = [conn EXCEPT ![c] = Answer(@, "committed")]
     ELSE /\ rows' = rows
          /\ conn' = [conn EXCEPT ![c] = Answer(@, "failed")]
  /\ UNCHANGED <<sinkVars, plains>>

\* The request is lost, or the server or its database fails before commit:
\* the transaction rolls back and its lock goes with it.
ServerFail(c) ==
  /\ conn[c].stage \in {"sent", "locked"}
  /\ lock' = IF lock = c THEN NoConn ELSE lock
  /\ conn' = [conn EXCEPT ![c] = Answer(@, "failed")]
  /\ UNCHANGED <<sinkVars, rows, plains>>

\* append_event(): server code appends one event in a transaction of its own.
AppendEvent ==
  /\ plains < MaxPlain
  /\ lock = NoConn
  /\ rows' = rows \cup {[seq |-> LastSeq + 1, ev |-> Plain]}
  /\ plains' = plains + 1
  /\ UNCHANGED <<sinkVars, conn, lock>>

SinkStep(s) ==
  \/ \E bad \in BOOLEAN : Emit(s, bad)
  \/ \E c \in Conns : Post(s, c)
  \/ DropPoison(s)
  \/ PostOk(s)
  \/ PostFail(s)
  \/ PostTimeout(s)
  \/ Close(s)
  \/ Closed(s)
  \/ Crash(s)

ServerStep(c) ==
  \/ BrowserPost(c)
  \/ Begin(c)
  \/ StageEvent(c)
  \/ Commit(c)
  \/ ServerFail(c)

Next ==
  \/ \E s \in Sinks : SinkStep(s)
  \/ \E c \in Conns : ServerStep(c)
  \/ AppendEvent

Spec == Init /\ [][Next]_vars

(* The flush loop runs every two seconds, and server threads run.  Nothing *)
(* is assumed of the candidate, of the browser or of the network.          *)
FairSpec ==
  /\ Spec
  /\ \A s \in Sinks : /\ WF_vars(\E c \in Conns : Post(s, c))
                       /\ WF_vars(DropPoison(s))
                       /\ WF_vars(PostOk(s))
                       /\ WF_vars(PostFail(s))
                       /\ WF_vars(Closed(s))
  /\ \A c \in Conns : WF_vars(StageEvent(c) \/ Commit(c)) /\ SF_vars(Begin(c))

-----------------------------------------------------------------------------
(* Properties *)

Emitted == {e \in AgentEvent : e.n <= emitted[e.sink]}

\* No event is stored twice, whatever is retried while an earlier copy of
\* the batch is still on its way (event_sink.py emit: "can never duplicate
\* events in the log").
NoDuplicates ==
  \A r1, r2 \in rows : r1.ev = r2.ev /\ r1.ev # Plain => r1 = r2

\* The seq numbers of a session's log are 0, 1, 2, ... without a gap,
\* although a retried batch skips events and a transaction can roll back.
SeqDense == SeqsOf(rows) = 0..(Cardinality(rows) - 1)

\* An event of a living agent is queued, in the batch being posted, stored,
\* or was dropped: a flush that fails loses nothing.
Accounted ==
  \A e \in Emitted :
    \/ status[e.sink] = "crashed"
    \/ e \in dropped \cup Stored \cup Elems(queue[e.sink]) \cup Elems(Awaited(e.sink))

\* When an event is stored, every earlier event of its sink that was not
\* dropped is stored before it: after a crash the log holds a prefix of what
\* the agent did, which is what makes rebuilding its state from it sound.
StoredPrefix ==
  \A r \in rows : r.ev # Plain =>
    \A k \in 1..(r.ev.n - 1) :
      LET e == [sink |-> r.ev.sink, n |-> k]
      IN  e \in dropped \/ \E q \in rows : q.ev = e /\ q.seq < r.seq

\* Rows are immutable: the log only grows, and only at its end.
AppendOnly ==
  [][rows \subseteq rows' /\ \A r \in rows' \ rows : \A q \in rows : q.seq < r.seq]_vars

\* A down or slow API delays durability: once requests stop failing, every
\* event of a sink that stays alive and open is eventually stored.
NoMoreFailures ==
  <>[][/\ \A s \in Sinks : ~PostTimeout(s)
       /\ \A c \in Conns : ~ServerFail(c)]_vars
DeliveredWhenApiRecovers ==
  NoMoreFailures =>
    \A e \in AgentEvent :
      e \in Emitted ~> e \in Stored \cup dropped \/ status[e.sink] # "open"

=============================================================================
