--------------------------- MODULE EventSink_proofs ---------------------------
(***************************************************************************)
(* For any number of sinks, connections and events: the log of a session   *)
(* holds no event twice and its seq numbers are 0, 1, 2, ... without a     *)
(* gap.  The argument: a connection inside the append transaction holds    *)
(* the advisory lock, so what it read of the log is still true when it     *)
(* commits; and what a sink has not settled is a list of its own events    *)
(* in strictly ascending order, so no batch names an event twice.          *)
(*                                                                         *)
(* And: no event of a living agent is lost, and none is stored before an   *)
(* earlier one.  The argument (DeliveryInv): whatever came before an event *)
(* of a request that may still commit is stored, was given up, or is       *)
(* before it in the same request, and a transaction stages in that order.  *)
(*                                                                         *)
(* And: all of this together implements EventDelivery.  The argument       *)
(* (FatesInv, ListInv): what a request would add to the log was given up   *)
(* as a whole or not at all, so a commit is one step of the abstract       *)
(* specification; and what is live of a sink's events is listed in exactly *)
(* one way, so the lists before and after a step can be compared.          *)
(***************************************************************************)
EXTENDS EventSinkDelivery, FunctionTheorems, FiniteSetTheorems, SequenceTheorems,
        WellFoundedInduction, TLAPS

\* The batch a sink awaits followed by its queue.
Unsettled(s) == Awaited(s) \o queue[s]

Ascending(q) == \A i, j \in DOMAIN q : i < j => q[i].n < q[j].n

\* The lock is held by the connection inside its transaction.
LockInv == \A c \in Conns : conn[c].stage = "locked" <=> lock = c

\* A sink waits only for a request of its own.
WaitInv ==
  \A s \in Sinks : waiting[s] # NoConn =>
    conn[waiting[s]].client = s /\ conn[waiting[s]].stage # "free"

\* A sink's unsettled events are its own, numbered in ascending order.
QueueInv ==
  \A s \in Sinks :
    /\ Ascending(Unsettled(s))
    /\ \A i \in DOMAIN Unsettled(s) :
         Unsettled(s)[i] \in AgentEvent /\ Unsettled(s)[i].sink = s
                                        /\ Unsettled(s)[i].n <= emitted[s]

\* No batch names an event twice.
BatchInv ==
  \A c \in Conns : \A i, j \in DOMAIN conn[c].batch :
    conn[c].batch[i] = conn[c].batch[j] /\ conn[c].batch[i] # Plain => i = j

\* Seq numbers identify rows and are dense.
RowsInv ==
  /\ LastSeq \in Nat \cup {-1}
  /\ SeqsOf(rows) = 0..LastSeq
  /\ \A r1, r2 \in rows : r1.seq = r2.seq => r1 = r2

\* What a transaction has read is current, and what it has staged extends
\* the log by new events.
TxnOK(req) ==
  /\ req.seen = Seen(req.batch)
  /\ req.next >= LastSeq + 1
  /\ SeqsOf(req.staged) = (LastSeq + 1)..(req.next - 1)
  /\ \A r \in req.staged : \E i \in DOMAIN req.batch :
       i < req.pos /\ r.ev = req.batch[i] /\ r.ev \notin req.seen
  /\ \A r1, r2 \in req.staged : r1.seq = r2.seq => r1 = r2
  /\ \A r1, r2 \in req.staged : r1.ev = r2.ev /\ r1.ev # Plain => r1 = r2
TxnInv == \A c \in Conns : conn[c].stage = "locked" => TxnOK(conn[c])

IInv == /\ TypeOK /\ LockInv /\ WaitInv /\ QueueInv
        /\ BatchInv /\ RowsInv /\ TxnInv /\ NoDuplicates

-----------------------------------------------------------------------------
(* Lemmas about the data *)

LEMMA LastOfInterval ==
  ASSUME NEW R, NEW m \in Nat \cup {-1}, SeqsOf(R) = 0..m
  PROVE  LastOf(R) = m
<1>1. CASE m = -1
  <2>1. SeqsOf(R) = {}
    BY <1>1
  <2>2. \A r \in R : r.seq \in SeqsOf(R)
    BY DEF SeqsOf
  <2>3. R = {}
    BY <2>1, <2>2
  <2> QED BY <1>1, <2>3 DEF LastOf
<1>2. CASE m \in Nat
  <2>1. R # {}
    BY <1>2 DEF SeqsOf
  <2>2. m \in SeqsOf(R) /\ \A k \in SeqsOf(R) : k <= m
    BY <1>2
  <2>3. \A x \in SeqsOf(R) : (\A k \in SeqsOf(R) : k <= x) => x = m
    BY <1>2, <2>2
  <2> QED BY <2>1, <2>2, <2>3 DEF LastOf
<1> QED BY <1>1, <1>2

LEMMA SeqsOfUnion ==
  ASSUME NEW A, NEW B PROVE SeqsOf(A \cup B) = SeqsOf(A) \cup SeqsOf(B)
<1>1. \A x : x \in SeqsOf(A \cup B) <=> x \in SeqsOf(A) \cup SeqsOf(B)
  BY DEF SeqsOf
<1> QED BY <1>1

LEMMA SeqsOfRow ==
  ASSUME NEW n, NEW x PROVE SeqsOf({[seq |-> n, ev |-> x]}) = {n}
<1>1. \A y : y \in SeqsOf({[seq |-> n, ev |-> x]}) <=> y = n
  BY DEF SeqsOf
<1> QED BY <1>1

\* Elements and length of a concatenation.
LEMMA ConcatElem ==
  ASSUME NEW S, NEW p \in Seq(S), NEW q \in Seq(S)
  PROVE  /\ p \o q \in Seq(S)
         /\ Len(p \o q) = Len(p) + Len(q)
         /\ \A i \in 1..Len(p) : (p \o q)[i] = p[i]
         /\ \A i \in 1..Len(q) : (p \o q)[Len(p) + i] = q[i]
OBVIOUS

LEMMA FreeType == Free \in Request
BY DEF Free, Request, Stages

LEMMA TypeInit == Init => TypeOK
BY FreeType, BoundAssumption DEF Init, TypeOK, Statuses

LEMMA OrphanType ==
  ASSUME NEW req \in Request PROVE Orphan(req) \in Request
BY DEF Orphan, Request, Free, Stages

LEMMA AnswerType ==
  ASSUME NEW req \in Request, NEW o \in Stages PROVE Answer(req, o) \in Request
BY DEF Answer, Request, Free, Stages

LEMMA AwaitedType ==
  ASSUME TypeOK, WaitInv, QueueInv, NEW s \in Sinks
  PROVE  /\ Awaited(s) \in Seq(AgentEvent)
         /\ queue[s] \in Seq(AgentEvent)
         /\ Unsettled(s) \in Seq(AgentEvent)
<1>1. queue[s] \in Seq(AgentEvent) /\ Awaited(s) \in Seq(Event)
  BY DEF TypeOK, Awaited, Request
<1>2. Awaited(s) \in Seq(AgentEvent)
  <2>1. queue[s] \in Seq(Event)
    BY <1>1 DEF Event
  <2>2. \A i \in 1..Len(Awaited(s)) : Unsettled(s)[i] = Awaited(s)[i] /\ i \in DOMAIN Unsettled(s)
    BY <1>1, <2>1, ConcatElem DEF Unsettled
  <2>3. \A i \in 1..Len(Awaited(s)) : Awaited(s)[i] \in AgentEvent
    BY <2>2 DEF QueueInv
  <2> QED BY <1>1, <2>3
<1> QED BY <1>1, <1>2 DEF Unsettled

-----------------------------------------------------------------------------
(* Frames: what a step leaves true without looking at it *)

LEMMA RowsFrame ==
  ASSUME RowsInv, NoDuplicates, UNCHANGED rows
  PROVE  RowsInv' /\ NoDuplicates'
BY DEF RowsInv, NoDuplicates, LastSeq

\* A transaction nobody touched stays in order while the log is unchanged,
\* whether or not its client still waits.
LEMMA TxnFrame ==
  ASSUME TypeOK, TxnInv, UNCHANGED rows,
         \A c \in Conns : conn'[c].stage = "locked" =>
           /\ conn[c].stage = "locked"
           /\ conn'[c].batch = conn[c].batch /\ conn'[c].pos = conn[c].pos
           /\ conn'[c].seen = conn[c].seen /\ conn'[c].next = conn[c].next
           /\ conn'[c].staged = conn[c].staged
  PROVE  TxnInv'
<1> SUFFICES ASSUME NEW c \in Conns, conn'[c].stage = "locked"
             PROVE  TxnOK(conn[c])'
  BY DEF TxnInv
<1>1. TxnOK(conn[c])
  BY DEF TxnInv
<1> QED BY <1>1 DEF TxnOK, Seen, Stored, LastSeq

\* A sink's unsettled events stay in order when a prefix of them goes away.
LEMMA SuffixInv ==
  ASSUME NEW S, NEW p \in Seq(S), NEW q \in Seq(S)
  PROVE  /\ Ascending(p \o q) => Ascending(q)
         /\ \A i \in DOMAIN q : Len(p) + i \in DOMAIN (p \o q) /\ (p \o q)[Len(p) + i] = q[i]
<1>1. \A i \in DOMAIN q : Len(p) + i \in DOMAIN (p \o q) /\ (p \o q)[Len(p) + i] = q[i]
  BY ConcatElem
<1>2. ASSUME Ascending(p \o q), NEW i \in DOMAIN q, NEW j \in DOMAIN q, i < j
      PROVE  q[i].n < q[j].n
  <2>1. Len(p) + i < Len(p) + j
    BY <1>2
  <2> QED BY <1>1, <1>2, <2>1 DEF Ascending
<1> QED BY <1>1, <1>2 DEF Ascending

\* Batches of ascending events name no event twice.
LEMMA AscendingDistinct ==
  ASSUME NEW q \in Seq(AgentEvent), Ascending(q), NEW i \in DOMAIN q, NEW j \in DOMAIN q,
         q[i] = q[j]
  PROVE  i = j
<1>1. q[i] \in AgentEvent
  OBVIOUS
<1>2. q[i].n \in Int
  BY <1>1 DEF AgentEvent
<1>3. ~(i < j) /\ ~(j < i)
  BY <1>2 DEF Ascending
<1> QED BY <1>3

-----------------------------------------------------------------------------
(* The sink's steps *)

LEMMA EmitInv ==
  ASSUME IInv, NEW s \in Sinks, NEW bad \in BOOLEAN, Emit(s, bad)
  PROVE  IInv'
<1> DEFINE e == [sink |-> s, n |-> emitted[s] + 1]
<1>0. e \in AgentEvent
  BY BoundAssumption DEF IInv, TypeOK, Emit, AgentEvent
<1>1. TypeOK'
  <2>1. queue'[s] \in Seq(AgentEvent)
    BY <1>0 DEF IInv, TypeOK, Emit
  <2>2. poison' \subseteq AgentEvent
    BY <1>0 DEF IInv, TypeOK, Emit
  <2>3. emitted' \in [Sinks -> 0..MaxEmit]
    BY BoundAssumption DEF IInv, TypeOK, Emit
  <2> QED BY <1>0, <2>1, <2>2, <2>3 DEF IInv, TypeOK, Emit
<1>2. LockInv' /\ WaitInv' /\ BatchInv'
  BY DEF IInv, Emit, LockInv, WaitInv, BatchInv
<1>3. QueueInv'
  <2> SUFFICES ASSUME NEW t \in Sinks
               PROVE  /\ Ascending(Unsettled(t)')
                      /\ \A i \in DOMAIN Unsettled(t)' :
                           /\ Unsettled(t)'[i] \in AgentEvent /\ Unsettled(t)'[i].sink = t
                           /\ Unsettled(t)'[i].n <= emitted'[t]
    BY DEF QueueInv, Ascending
  <2>0. /\ Awaited(t)' = Awaited(t)
        /\ Awaited(t) \in Seq(AgentEvent) /\ queue[t] \in Seq(AgentEvent)
        /\ Unsettled(t) \in Seq(AgentEvent)
    BY AwaitedType DEF IInv, Emit, Awaited
  <2>1. CASE t # s
    <3>1. Unsettled(t)' = Unsettled(t) /\ emitted'[t] = emitted[t]
      BY <2>0, <2>1 DEF IInv, TypeOK, Emit, Unsettled
    <3> QED BY <3>1 DEF IInv, QueueInv
  <2>2. CASE t = s
    <3>1. queue'[s] = Append(queue[s], e) /\ emitted'[s] = emitted[s] + 1
      BY DEF IInv, TypeOK, Emit
    <3>2. Unsettled(s)' = Append(Unsettled(s), e)
      BY <1>0, <2>0, <2>2, <3>1 DEF Unsettled
    <3>3. \A i \in DOMAIN Unsettled(s) :
            Unsettled(s)[i].n \in Int /\ Unsettled(s)[i].n <= emitted[s]
      BY <2>0, <2>2 DEF IInv, QueueInv, AgentEvent
    <3>4. emitted[s] \in Nat /\ Ascending(Unsettled(s))
      BY DEF IInv, TypeOK, QueueInv
    <3>5. Ascending(Unsettled(s)')
      BY <1>0, <2>0, <2>2, <3>2, <3>3, <3>4 DEF Ascending
    <3>6. \A i \in DOMAIN Unsettled(s)' :
             /\ Unsettled(s)'[i] \in AgentEvent /\ Unsettled(s)'[i].sink = s
             /\ Unsettled(s)'[i].n <= emitted'[s]
      BY <1>0, <2>0, <2>2, <3>1, <3>2, <3>3, <3>4 DEF IInv, QueueInv
    <3> QED BY <2>2, <3>5, <3>6
  <2> QED BY <2>1, <2>2
<1>4. RowsInv' /\ NoDuplicates'
  BY RowsFrame DEF IInv, Emit
<1>5. TxnInv'
  BY TxnFrame DEF IInv, Emit
<1> QED BY <1>1, <1>2, <1>3, <1>4, <1>5 DEF IInv

\* A step that only settles events, or moves them between the queue and the
\* request in flight, leaves the unsettled events in order.
LEMMA QueueFrame ==
  ASSUME TypeOK, WaitInv, QueueInv, UNCHANGED emitted,
         \A t \in Sinks : Unsettled(t)' \in {Unsettled(t), queue[t], <<>>}
  PROVE  QueueInv'
<1> SUFFICES ASSUME NEW t \in Sinks
             PROVE  /\ Ascending(Unsettled(t)')
                    /\ \A i \in DOMAIN Unsettled(t)' :
                         /\ Unsettled(t)'[i] \in AgentEvent /\ Unsettled(t)'[i].sink = t
                         /\ Unsettled(t)'[i].n <= emitted[t]
  BY DEF QueueInv, Ascending
<1>1. CASE Unsettled(t)' = Unsettled(t)
  BY <1>1 DEF QueueInv
<1>2. CASE Unsettled(t)' = queue[t]
  <2>1. Awaited(t) \in Seq(AgentEvent) /\ queue[t] \in Seq(AgentEvent)
    BY AwaitedType
  <2>2. \A i \in DOMAIN queue[t] : Len(Awaited(t)) + i \in DOMAIN Unsettled(t)
                                   /\ Unsettled(t)[Len(Awaited(t)) + i] = queue[t][i]
    BY <2>1, SuffixInv DEF Unsettled
  <2>3. Ascending(queue[t])
    BY <2>1, SuffixInv DEF Unsettled, QueueInv
  <2> QED BY <1>2, <2>2, <2>3 DEF QueueInv
<1>3. CASE Unsettled(t)' = <<>>
  BY <1>3 DEF Ascending
<1> QED BY <1>1, <1>2, <1>3

LEMMA EmptyConcat ==
  ASSUME NEW S, NEW q \in Seq(S) PROVE <<>> \o q = q /\ q \o <<>> = q
OBVIOUS

LEMMA PostInv ==
  ASSUME IInv, NEW s \in Sinks, NEW c \in Conns, Post(s, c)
  PROVE  IInv'
<1>0. queue[s] \in Seq(AgentEvent) /\ queue[s] \in Seq(Event) /\ waiting[s] = NoConn
  BY DEF IInv, TypeOK, Event, Post
<1>1. TypeOK'
  <2>1. conn'[c] = [stage |-> "sent", client |-> s, batch |-> queue[s], pos |-> 1,
                    seen |-> {}, next |-> 0, staged |-> {}]
    BY DEF IInv, TypeOK, Post, Free
  <2>2. conn'[c] \in Request
    BY <1>0, <2>1 DEF Request, Stages
  <2> QED BY <2>2 DEF IInv, TypeOK, Post
<1>2. \A d \in Conns : d # c => conn'[d] = conn[d]
  BY DEF IInv, TypeOK, Post
<1>3. conn'[c].stage = "sent" /\ conn'[c].client = s /\ conn'[c].batch = queue[s]
  BY DEF IInv, TypeOK, Post, Free
<1>4. LockInv'
  BY <1>2, <1>3 DEF IInv, Post, LockInv
<1>5. \A t \in Sinks : t # s => waiting[t] # c
  BY ConnAssumption DEF IInv, WaitInv, Post
<1>6. waiting'[s] = c /\ queue'[s] = <<>>
      /\ \A t \in Sinks : t # s => waiting'[t] = waiting[t] /\ queue'[t] = queue[t]
  BY DEF IInv, TypeOK, Post
<1>7. WaitInv'
  <2>1. ASSUME NEW t \in Sinks, waiting'[t] # NoConn
        PROVE  conn'[waiting'[t]].client = t /\ conn'[waiting'[t]].stage # "free"
    <3>1. CASE t = s
      BY <1>3, <1>6, <3>1
    <3>2. CASE t # s
      <4>1. waiting'[t] = waiting[t] /\ waiting[t] \in Conns /\ waiting[t] # c
        BY <1>5, <1>6, <2>1, <3>2 DEF IInv, TypeOK
      <4> QED BY <1>2, <2>1, <4>1 DEF IInv, WaitInv
    <3> QED BY <3>1, <3>2
  <2> QED BY <2>1 DEF WaitInv
<1>8. QueueInv'
  <2>1. \A t \in Sinks : t # s => Unsettled(t)' = Unsettled(t)
    BY <1>2, <1>5, <1>6, ZenonT(40) DEF Unsettled, Awaited, IInv, TypeOK
  <2>2. Unsettled(s)' = Unsettled(s)
    <3>1. Unsettled(s)' = queue[s] \o <<>>
      BY <1>3, <1>6, ConnAssumption DEF Unsettled, Awaited
    <3>2. Unsettled(s) = <<>> \o queue[s]
      BY <1>0 DEF Unsettled, Awaited
    <3> QED BY <1>0, <3>1, <3>2, EmptyConcat
  <2> QED BY <2>1, <2>2, QueueFrame DEF IInv, Post
<1>9. BatchInv'
  <2>1. \A i, j \in DOMAIN queue[s] : queue[s][i] = queue[s][j] => i = j
    <3>1. Ascending(queue[s])
      BY <1>0, EmptyConcat DEF IInv, QueueInv, Unsettled, Awaited
    <3> QED BY <1>0, <3>1, AscendingDistinct
  <2> QED BY <1>2, <1>3, <2>1 DEF IInv, BatchInv
<1>10. RowsInv' /\ NoDuplicates'
  BY RowsFrame DEF IInv, Post
<1>11. TxnInv'
  BY <1>2, <1>3, TxnFrame DEF IInv, Post
<1> QED BY <1>1, <1>4, <1>7, <1>8, <1>9, <1>10, <1>11 DEF IInv

LEMMA DropPoisonInv ==
  ASSUME IInv, NEW s \in Sinks, DropPoison(s)
  PROVE  IInv'
<1>1. TypeOK'
  <2>1. Elems(queue[s]) \subseteq AgentEvent
    BY DEF IInv, TypeOK, Elems
  <2> QED BY <2>1 DEF IInv, TypeOK, DropPoison
<1>2. LockInv' /\ WaitInv' /\ BatchInv'
  BY DEF IInv, DropPoison, LockInv, WaitInv, BatchInv
<1>3. QueueInv'
  <2>1. \A t \in Sinks : t # s => Unsettled(t)' = Unsettled(t)
    BY DEF Unsettled, Awaited, IInv, TypeOK, DropPoison
  <2>2. Unsettled(s)' = <<>>
    BY DEF Unsettled, Awaited, IInv, TypeOK, DropPoison
  <2> QED BY <2>1, <2>2, QueueFrame DEF IInv, DropPoison
<1>4. RowsInv' /\ NoDuplicates'
  BY RowsFrame DEF IInv, DropPoison
<1>5. TxnInv'
  BY TxnFrame DEF IInv, DropPoison
<1> QED BY <1>1, <1>2, <1>3, <1>4, <1>5 DEF IInv

\* The frame of every step in which a sink stops waiting for its request.
LEMMA StopWaiting ==
  ASSUME IInv, NEW s \in Sinks, waiting[s] # NoConn, UNCHANGED <<lock, rows, emitted>>,
         waiting' = [waiting EXCEPT ![s] = NoConn],
         NEW d, conn' = [conn EXCEPT ![waiting[s]] = d],
         d \in {Orphan(conn[waiting[s]]), Free},
         d = Free => conn[waiting[s]].stage # "locked"
  PROVE  /\ conn' \in [Conns -> Request]
         /\ LockInv' /\ WaitInv' /\ BatchInv'
         /\ RowsInv' /\ NoDuplicates' /\ TxnInv'
         /\ \A t \in Sinks : t # s => Awaited(t)' = Awaited(t)
         /\ Awaited(s)' = <<>>
<1> DEFINE c == waiting[s]
<1>0. c \in Conns /\ conn[c] \in Request /\ conn'[c] = d
      /\ \A x \in Conns : x # c => conn'[x] = conn[x]
  BY DEF IInv, TypeOK
<1>1. d \in Request
  BY <1>0, FreeType, OrphanType
<1>2. conn' \in [Conns -> Request]
  BY <1>0, <1>1 DEF IInv, TypeOK
<1>3. \/ d = Free /\ conn[c].stage # "locked"
      \/ d = [conn[c] EXCEPT !.client = NoSink]
  BY <1>0 DEF Orphan
<1>4. /\ d.stage = "locked" <=> conn[c].stage = "locked"
      /\ d.batch \in {<<>>, conn[c].batch}
  BY <1>0, <1>3 DEF Free, Request
<1>5. LockInv'
  BY <1>0, <1>4 DEF IInv, LockInv
<1>6. \A t \in Sinks : t # s => waiting'[t] = waiting[t] /\ waiting[t] # c
  <2> SUFFICES ASSUME NEW t \in Sinks, t # s
               PROVE  waiting'[t] = waiting[t] /\ waiting[t] # c
    OBVIOUS
  <2>1. conn[c].client = s
    BY DEF IInv, WaitInv
  <2>2. waiting[t] = c => conn[c].client = t
    BY <1>0 DEF IInv, WaitInv
  <2> QED BY <2>1, <2>2 DEF IInv, TypeOK
<1>7. waiting'[s] = NoConn
  BY DEF IInv, TypeOK
<1>8. WaitInv'
  BY <1>0, <1>6, <1>7 DEF IInv, WaitInv, TypeOK
<1>9. BatchInv'
  BY <1>0, <1>4 DEF IInv, BatchInv
<1>10. RowsInv' /\ NoDuplicates'
  BY RowsFrame DEF IInv
<1>11. TxnInv'
  <2>1. d.stage = "locked" => /\ d.batch = conn[c].batch /\ d.pos = conn[c].pos
                              /\ d.seen = conn[c].seen /\ d.next = conn[c].next
                              /\ d.staged = conn[c].staged
    BY <1>0, <1>3 DEF Free, Request
  <2> QED BY <1>0, <1>4, <2>1, TxnFrame DEF IInv
<1>12. \A t \in Sinks : t # s => Awaited(t)' = Awaited(t)
  BY <1>0, <1>6 DEF IInv, TypeOK, Awaited
<1>13. Awaited(s)' = <<>>
  BY <1>7 DEF Awaited
<1> QED BY <1>2, <1>5, <1>8, <1>9, <1>10, <1>11, <1>12, <1>13

LEMMA PostOkInv ==
  ASSUME IInv, NEW s \in Sinks, PostOk(s)
  PROVE  IInv'
<1>1. /\ conn' \in [Conns -> Request]
      /\ LockInv' /\ WaitInv' /\ BatchInv'
      /\ RowsInv' /\ NoDuplicates' /\ TxnInv'
      /\ \A t \in Sinks : t # s => Awaited(t)' = Awaited(t)
      /\ Awaited(s)' = <<>>
  BY StopWaiting DEF PostOk
<1>2. TypeOK'
  BY <1>1 DEF IInv, TypeOK, PostOk
<1>3. QueueInv'
  <2>1. \A t \in Sinks : t # s => Unsettled(t)' = Unsettled(t)
    BY <1>1 DEF Unsettled, PostOk
  <2>2. Unsettled(s)' = queue[s]
    BY <1>1, EmptyConcat DEF Unsettled, PostOk, IInv, TypeOK
  <2> QED BY <2>1, <2>2, QueueFrame DEF IInv, PostOk
<1> QED BY <1>1, <1>2, <1>3 DEF IInv

LEMMA RequeueInv ==
  ASSUME IInv, NEW s \in Sinks, waiting[s] # NoConn, Requeue(s)
  PROVE  IInv'
<1>0. Orphan(conn[waiting[s]]) = Free => conn[waiting[s]].stage # "locked"
  BY DEF Orphan, Free, IInv, TypeOK, Request
<1>1. /\ conn' \in [Conns -> Request]
      /\ LockInv' /\ WaitInv' /\ BatchInv'
      /\ RowsInv' /\ NoDuplicates' /\ TxnInv'
      /\ \A t \in Sinks : t # s => Awaited(t)' = Awaited(t)
      /\ Awaited(s)' = <<>>
  BY <1>0, StopWaiting DEF Requeue
<1>2. /\ Unsettled(s) \in Seq(AgentEvent) /\ Awaited(s) \in Seq(AgentEvent)
      /\ queue'[s] = Unsettled(s)
      /\ \A t \in Sinks : t # s => queue'[t] = queue[t]
  BY AwaitedType DEF IInv, TypeOK, Requeue, Requeued, Unsettled
<1>3. TypeOK'
  <2>1. queue' \in [Sinks -> Seq(AgentEvent)]
    BY <1>2 DEF IInv, TypeOK, Requeue
  <2>2. dropped' \subseteq AgentEvent
    BY <1>2 DEF IInv, TypeOK, Requeue, Elems
  <2>3. status' \in [Sinks -> Statuses]
    BY DEF IInv, TypeOK, Requeue, Statuses
  <2>4. waiting' \in [Sinks -> Conns \cup {NoConn}]
    BY DEF IInv, TypeOK, Requeue
  <2> QED BY <1>1, <2>1, <2>2, <2>3, <2>4 DEF IInv, TypeOK, Requeue
<1>4. QueueInv'
  <2>1. \A t \in Sinks : t # s => Unsettled(t)' = Unsettled(t)
    BY <1>1, <1>2 DEF Unsettled
  <2>2. Unsettled(s)' = Unsettled(s)
    <3>1. Unsettled(s)' = <<>> \o queue'[s]
      BY <1>1 DEF Unsettled
    <3> QED BY <1>2, <3>1, EmptyConcat
  <2> QED BY <2>1, <2>2, QueueFrame DEF IInv, Requeue
<1> QED BY <1>1, <1>3, <1>4 DEF IInv

LEMMA CloseInv ==
  ASSUME IInv, NEW s \in Sinks, Close(s)
  PROVE  IInv'
<1>0. status' \in [Sinks -> Statuses]
  BY DEF IInv, TypeOK, Close, Statuses
<1>1. CASE waiting[s] = NoConn
  <2>0. UNCHANGED <<emitted, poison, queue, waiting, conn, lock, rows, plains, dropped>>
    BY <1>1 DEF Close
  <2>1. TypeOK'
    BY <1>0, <2>0 DEF IInv, TypeOK
  <2>2. LockInv' /\ WaitInv' /\ BatchInv' /\ QueueInv'
    <3>1. \A t \in Sinks : Unsettled(t)' = Unsettled(t)
      BY <2>0 DEF Unsettled, Awaited
    <3>2. QueueInv'
      BY <2>0, <3>1, QueueFrame DEF IInv
    <3>3. LockInv' /\ WaitInv'
      BY <2>0 DEF IInv, LockInv, WaitInv, Close
    <3>4. BatchInv'
      BY <2>0 DEF IInv, BatchInv
    <3> QED BY <3>2, <3>3, <3>4
  <2>3. RowsInv' /\ NoDuplicates' /\ TxnInv'
    BY <2>0, RowsFrame, TxnFrame DEF IInv
  <2> QED BY <2>1, <2>2, <2>3 DEF IInv
<1>2. CASE waiting[s] # NoConn
  <2>0. Orphan(conn[waiting[s]]) = Free => conn[waiting[s]].stage # "locked"
    BY DEF Orphan, Free, IInv, TypeOK, Request
  <2>1. /\ conn' \in [Conns -> Request]
        /\ LockInv' /\ WaitInv' /\ BatchInv'
        /\ RowsInv' /\ NoDuplicates' /\ TxnInv'
        /\ \A t \in Sinks : t # s => Awaited(t)' = Awaited(t)
        /\ Awaited(s)' = <<>>
    BY <1>2, <2>0, StopWaiting DEF Close
  <2>2. TypeOK'
    <3>1. Elems(Awaited(s)) \subseteq AgentEvent
      BY AwaitedType DEF IInv, Elems
    <3> QED BY <1>0, <1>2, <2>1, <3>1 DEF IInv, TypeOK, Close
  <2>3. QueueInv'
    <3>1. \A t \in Sinks : t # s => Unsettled(t)' = Unsettled(t)
      BY <2>1 DEF Unsettled, Close
    <3>2. Unsettled(s)' = queue[s]
      BY <2>1, EmptyConcat DEF Unsettled, Close, IInv, TypeOK
    <3> QED BY <3>1, <3>2, QueueFrame DEF IInv, Close
  <2> QED BY <2>1, <2>2, <2>3 DEF IInv
<1> QED BY <1>1, <1>2

LEMMA ClosedInv ==
  ASSUME IInv, NEW s \in Sinks, Closed(s)
  PROVE  IInv'
<1>1. TypeOK'
  BY DEF IInv, TypeOK, Closed, Statuses
<1>2. LockInv' /\ WaitInv' /\ BatchInv'
  BY DEF IInv, Closed, LockInv, WaitInv, BatchInv
<1>3. QueueInv'
  BY QueueFrame DEF IInv, Closed, Unsettled, Awaited
<1>4. RowsInv' /\ NoDuplicates' /\ TxnInv'
  BY RowsFrame, TxnFrame DEF IInv, Closed
<1> QED BY <1>1, <1>2, <1>3, <1>4 DEF IInv

LEMMA CrashInv ==
  ASSUME IInv, NEW s \in Sinks, Crash(s)
  PROVE  IInv'
<1>0. /\ status' \in [Sinks -> Statuses]
      /\ queue' \in [Sinks -> Seq(AgentEvent)] /\ queue'[s] = <<>>
      /\ \A t \in Sinks : t # s => queue'[t] = queue[t]
  BY DEF IInv, TypeOK, Crash, Statuses
<1>1. CASE waiting[s] = NoConn
  <2>0. UNCHANGED <<emitted, poison, waiting, conn, lock, rows, plains, dropped>>
    BY <1>1 DEF Crash, IInv, TypeOK
  <2>1. TypeOK'
    BY <1>0, <2>0 DEF IInv, TypeOK
  <2>2. LockInv' /\ WaitInv' /\ BatchInv'
    BY <2>0 DEF IInv, LockInv, WaitInv, BatchInv
  <2>3. QueueInv'
    <3>1. \A t \in Sinks : t # s => Unsettled(t)' = Unsettled(t)
      BY <1>0, <2>0 DEF Unsettled, Awaited
    <3>2. Unsettled(s)' = <<>>
      BY <1>0, <1>1, <2>0 DEF Unsettled, Awaited
    <3> QED BY <2>0, <3>1, <3>2, QueueFrame DEF IInv
  <2>4. RowsInv' /\ NoDuplicates' /\ TxnInv'
    BY <2>0, RowsFrame, TxnFrame DEF IInv
  <2> QED BY <2>1, <2>2, <2>3, <2>4 DEF IInv
<1>2. CASE waiting[s] # NoConn
  <2>0. Orphan(conn[waiting[s]]) = Free => conn[waiting[s]].stage # "locked"
    BY DEF Orphan, Free, IInv, TypeOK, Request
  <2>1. /\ conn' \in [Conns -> Request]
        /\ LockInv' /\ WaitInv' /\ BatchInv'
        /\ RowsInv' /\ NoDuplicates' /\ TxnInv'
        /\ \A t \in Sinks : t # s => Awaited(t)' = Awaited(t)
        /\ Awaited(s)' = <<>>
    BY <1>2, <2>0, StopWaiting DEF Crash
  <2>2. TypeOK'
    BY <1>0, <2>1 DEF IInv, TypeOK, Crash
  <2>3. QueueInv'
    <3>1. \A t \in Sinks : t # s => Unsettled(t)' = Unsettled(t)
      BY <1>0, <2>1 DEF Unsettled
    <3>2. Unsettled(s)' = <<>>
      BY <1>0, <2>1 DEF Unsettled
    <3> QED BY <3>1, <3>2, QueueFrame DEF IInv, Crash
  <2> QED BY <2>1, <2>2, <2>3 DEF IInv
<1> QED BY <1>1, <1>2

-----------------------------------------------------------------------------
(* The steps of the event log *)

\* The sinks' view of a step in which only requests move.
LEMMA ServerFrame ==
  ASSUME IInv, UNCHANGED sinkVars, conn' \in [Conns -> Request],
         \A c \in Conns : conn[c].client # NoSink /\ conn[c].stage # "free" =>
           /\ conn'[c].client = conn[c].client /\ conn'[c].stage # "free"
           /\ conn'[c].batch = conn[c].batch
  PROVE  WaitInv' /\ QueueInv'
<1>1. ASSUME NEW s \in Sinks, waiting[s] # NoConn
      PROVE  /\ conn'[waiting[s]].client = s /\ conn'[waiting[s]].stage # "free"
             /\ conn'[waiting[s]].batch = conn[waiting[s]].batch
  <2>1. waiting[s] \in Conns
    BY <1>1 DEF IInv, TypeOK
  <2>2. conn[waiting[s]].client = s /\ conn[waiting[s]].stage # "free" /\ s # NoSink
    BY <1>1, SinkAssumption DEF IInv, WaitInv
  <2> QED BY <2>1, <2>2
<1>2. WaitInv'
  BY <1>1 DEF WaitInv, sinkVars
<1>3. \A s \in Sinks : Unsettled(s)' = Unsettled(s)
  BY <1>1 DEF Unsettled, Awaited, sinkVars
<1>4. QueueInv'
  BY <1>3, QueueFrame DEF IInv, sinkVars
<1> QED BY <1>2, <1>4

LEMMA BrowserPostInv ==
  ASSUME IInv, NEW c \in Conns, BrowserPost(c)
  PROVE  IInv'
<1>0. /\ conn'[c] = [stage |-> "sent", client |-> NoSink, batch |-> <<Plain>>, pos |-> 1,
                     seen |-> {}, next |-> 0, staged |-> {}]
      /\ \A d \in Conns : d # c => conn'[d] = conn[d]
  BY DEF IInv, TypeOK, BrowserPost, Free
<1>1. conn' \in [Conns -> Request]
  <2>1. conn'[c] \in Request
    BY <1>0 DEF Request, Stages, Event
  <2> QED BY <2>1 DEF IInv, TypeOK, BrowserPost
<1>2. TypeOK'
  BY <1>1, BoundAssumption DEF IInv, TypeOK, BrowserPost, sinkVars
<1>3. WaitInv' /\ QueueInv'
  BY <1>0, <1>1, ServerFrame DEF BrowserPost
<1>4. LockInv'
  BY <1>0 DEF IInv, LockInv, BrowserPost
<1>5. BatchInv'
  BY <1>0 DEF IInv, BatchInv
<1>6. RowsInv' /\ NoDuplicates' /\ TxnInv'
  BY <1>0, RowsFrame, TxnFrame DEF IInv, BrowserPost
<1> QED BY <1>2, <1>3, <1>4, <1>5, <1>6 DEF IInv

LEMMA BeginInv ==
  ASSUME IInv, NEW c \in Conns, Begin(c)
  PROVE  IInv'
<1>0. /\ conn[c].stage = "sent" /\ conn[c] \in Request
      /\ conn'[c].stage = "locked" /\ conn'[c].client = conn[c].client
      /\ conn'[c].batch = conn[c].batch /\ conn'[c].pos = conn[c].pos
      /\ conn'[c].seen = Seen(conn[c].batch) /\ conn'[c].next = LastSeq + 1
      /\ conn'[c].staged = {}
      /\ \A d \in Conns : d # c => conn'[d] = conn[d]
  BY DEF IInv, TypeOK, Begin, Request
<1>1. conn' \in [Conns -> Request]
  <2>1. Seen(conn[c].batch) \subseteq Event
    BY <1>0 DEF Seen, Elems, Request
  <2>2. LastSeq + 1 \in Int
    BY DEF IInv, RowsInv
  <2> QED BY <1>0, <2>1, <2>2 DEF IInv, TypeOK, Begin, Request, Stages
<1>2. TypeOK'
  BY <1>1 DEF IInv, TypeOK, Begin, sinkVars
<1>3. WaitInv' /\ QueueInv'
  BY <1>0, <1>1, ServerFrame DEF Begin
<1>4. LockInv'
  BY <1>0, ConnAssumption DEF IInv, LockInv, Begin
<1>5. BatchInv'
  BY <1>0 DEF IInv, BatchInv
<1>6. RowsInv' /\ NoDuplicates'
  BY RowsFrame DEF IInv, Begin
<1>7. TxnInv'
  <2>1. \A d \in Conns : conn[d].stage # "locked"
    BY ConnAssumption DEF IInv, LockInv, Begin
  <2>2. LastSeq' = LastSeq /\ LastSeq \in Int
    BY DEF IInv, RowsInv, Begin, LastSeq
  <2>3. SeqsOf({}) = {}
    BY DEF SeqsOf
  <2>4. TxnOK(conn[c])'
    <3>1. (conn[c].seen = Seen(conn[c].batch))'
      BY <1>0 DEF Begin, Seen, Stored
    <3>2. (LastSeq + 1)..(LastSeq + 1 - 1) = {}
      BY <2>2
    <3>3. SeqsOf(conn'[c].staged) = {}
      BY <1>0, <2>3
    <3>4. (LastSeq' + 1)..(conn'[c].next - 1) = {}
      BY <1>0, <2>2, <3>2
    <3>5. conn'[c].next >= LastSeq' + 1 /\ conn'[c].staged = {}
      BY <1>0, <2>2
    <3>6. (SeqsOf(conn[c].staged) = (LastSeq + 1)..(conn[c].next - 1))'
      BY <3>3, <3>4
    <3> QED BY <3>1, <3>5, <3>6 DEF TxnOK
  <2> QED BY <1>0, <2>1, <2>4 DEF TxnInv
<1> QED BY <1>2, <1>3, <1>4, <1>5, <1>6, <1>7 DEF IInv

\* The holder of the lock stages one more event, or skips one it has seen.
LEMMA StageEventInv ==
  ASSUME IInv, NEW c \in Conns, StageEvent(c)
  PROVE  IInv'
<1> DEFINE req == conn[c]
           e == req.batch[req.pos]
<1>0. /\ req.stage = "locked" /\ req \in Request /\ e \in Event
      /\ req.pos \in DOMAIN req.batch
      /\ TxnOK(req)
      /\ UNCHANGED <<sinkVars, lock, rows, plains>>
  BY DEF IInv, TypeOK, StageEvent, Skipped, Staged, Request, TxnInv
<1>1. \A d \in Conns : d # c => conn'[d] = conn[d]
  BY DEF IInv, TypeOK, StageEvent, Skipped, Staged
<1>2. /\ conn'[c].stage = "locked" /\ conn'[c].client = req.client
      /\ conn'[c].batch = req.batch /\ conn'[c].seen = req.seen
      /\ conn'[c].pos = req.pos + 1
  BY <1>0 DEF IInv, TypeOK, StageEvent, Skipped, Staged, Request
<1>3. \/ e \in req.seen /\ conn'[c].staged = req.staged /\ conn'[c].next = req.next
      \/ /\ e \notin req.seen
         /\ conn'[c].staged = req.staged \cup {[seq |-> req.next, ev |-> e]}
         /\ conn'[c].next = req.next + 1
  BY <1>0 DEF IInv, TypeOK, StageEvent, Skipped, Staged, Request
<1>4. LastSeq \in Nat \cup {-1} /\ LastSeq' = LastSeq /\ req.next \in Nat
  BY <1>0 DEF IInv, RowsInv, LastSeq, TxnOK, Request
<1>5. conn' \in [Conns -> Request]
  <2>1. [seq |-> req.next, ev |-> e] \in Row
    BY <1>0, <1>4 DEF Row
  <2>2. conn'[c] \in Request
    <3>1. CASE e \in req.seen
      <4>1. conn'[c] = [req EXCEPT !.pos = @ + 1]
        BY <1>0, <3>1 DEF IInv, TypeOK, StageEvent, Skipped, Staged, Request
      <4> QED BY <1>0, <4>1 DEF Request
    <3>2. CASE e \notin req.seen
      <4>1. conn'[c] = [req EXCEPT !.pos = @ + 1, !.next = @ + 1,
                                   !.staged = @ \cup {[seq |-> req.next, ev |-> e]}]
        BY <1>0, <3>2 DEF IInv, TypeOK, StageEvent, Skipped, Staged, Request
      <4>2. /\ req.pos + 1 \in Nat \ {0} /\ req.next + 1 \in Int
            /\ req.staged \cup {[seq |-> req.next, ev |-> e]} \in SUBSET Row
        BY <1>0, <1>4, <2>1 DEF Request
      <4> QED BY <1>0, <4>1, <4>2 DEF Request
    <3> QED BY <3>1, <3>2
  <2>3. conn' = [conn EXCEPT ![c] = conn'[c]]
    BY DEF IInv, TypeOK, StageEvent, Skipped, Staged
  <2> QED BY <2>2, <2>3 DEF IInv, TypeOK
<1>6. TypeOK'
  BY <1>0, <1>5 DEF IInv, TypeOK, sinkVars
<1>7. WaitInv' /\ QueueInv'
  BY <1>0, <1>1, <1>2, <1>5, ServerFrame
<1>8. LockInv' /\ BatchInv'
  BY <1>0, <1>1, <1>2 DEF IInv, LockInv, BatchInv
<1>9. RowsInv' /\ NoDuplicates'
  BY <1>0, RowsFrame DEF IInv
<1>10. TxnOK(conn[c])'
  <2> DEFINE staged == conn'[c].staged
             next == conn'[c].next
  <2>1. (conn[c].seen = Seen(conn[c].batch))'
    BY <1>0, <1>2 DEF TxnOK, Seen, Stored
  <2>2. \A r \in req.staged : \E i \in DOMAIN req.batch :
           i < req.pos /\ r.ev = req.batch[i] /\ r.ev \notin req.seen
    BY <1>0 DEF TxnOK
  <2>3. \A r \in staged : \E i \in DOMAIN req.batch :
           i < req.pos + 1 /\ r.ev = req.batch[i] /\ r.ev \notin req.seen
    <3> SUFFICES ASSUME NEW r \in staged
                 PROVE  \E i \in DOMAIN req.batch :
                          i < req.pos + 1 /\ r.ev = req.batch[i] /\ r.ev \notin req.seen
      OBVIOUS
    <3>1. CASE r \in req.staged
      BY <1>0, <2>2, <3>1 DEF Request
    <3>2. CASE r \notin req.staged
      <4>1. r.ev = e /\ e \notin req.seen
        BY <1>3, <3>2
      <4> QED BY <1>0, <4>1 DEF Request
    <3> QED BY <3>1, <3>2
  <2>4. \A r \in req.staged : r.ev # Plain => r.ev # e
    <3> SUFFICES ASSUME NEW r \in req.staged, r.ev # Plain, r.ev = e
                 PROVE  FALSE
      OBVIOUS
    <3>1. PICK i \in DOMAIN req.batch : i < req.pos /\ r.ev = req.batch[i]
      BY <2>2
    <3>2. i = req.pos
      BY <1>0, <3>1 DEF IInv, BatchInv
    <3> QED BY <1>0, <3>1, <3>2 DEF Request
  <2>5. \A r \in req.staged : r.seq # req.next
    <3>1. SeqsOf(req.staged) = (LastSeq + 1)..(req.next - 1)
      BY <1>0 DEF TxnOK
    <3>2. \A r \in req.staged : r.seq \in SeqsOf(req.staged)
      BY DEF SeqsOf
    <3> QED BY <1>4, <3>1, <3>2
  <2>6. \A r1, r2 \in staged : r1.seq = r2.seq => r1 = r2
    BY <1>0, <1>3, <2>5 DEF TxnOK
  <2>7. \A r1, r2 \in staged : r1.ev = r2.ev /\ r1.ev # Plain => r1 = r2
    BY <1>0, <1>3, <2>4 DEF TxnOK
  <2>8. SeqsOf(staged) = (LastSeq + 1)..(next - 1) /\ next >= LastSeq + 1
    <3>1. SeqsOf(req.staged) = (LastSeq + 1)..(req.next - 1) /\ req.next >= LastSeq + 1
      BY <1>0 DEF TxnOK
    <3>2. CASE e \in req.seen
      BY <1>3, <3>1, <3>2
    <3>3. CASE e \notin req.seen
      <4>1. SeqsOf(staged) = SeqsOf(req.staged) \cup {req.next}
        <5>1. SeqsOf(req.staged \cup {[seq |-> req.next, ev |-> e]})
              = SeqsOf(req.staged) \cup SeqsOf({[seq |-> req.next, ev |-> e]})
          BY SeqsOfUnion
        <5>2. SeqsOf({[seq |-> req.next, ev |-> e]}) = {req.next}
          BY SeqsOfRow
        <5> QED BY <1>3, <3>3, <5>1, <5>2
      <4> QED BY <1>3, <1>4, <3>1, <3>3, <4>1
    <3> QED BY <3>2, <3>3
  <2> QED BY <1>2, <1>4, <2>1, <2>3, <2>6, <2>7, <2>8 DEF TxnOK
<1>11. TxnInv'
  <2>1. \A d \in Conns : d # c => conn[d].stage # "locked"
    BY <1>0 DEF IInv, LockInv
  <2> QED BY <1>1, <1>10, <2>1 DEF TxnInv
<1> QED BY <1>6, <1>7, <1>8, <1>9, <1>11 DEF IInv

\* What Commit and ServerFail make of a request.
LEMMA AnswerFacts ==
  ASSUME NEW req \in Request, NEW o \in {"committed", "failed"}
  PROVE  /\ Answer(req, o) \in Request
         /\ Answer(req, o).stage # "locked"
         /\ Answer(req, o).batch \in {<<>>, req.batch}
         /\ req.client # NoSink => /\ Answer(req, o).client = req.client
                                   /\ Answer(req, o).stage = o
                                   /\ Answer(req, o).batch = req.batch
<1>1. CASE req.client = NoSink
  BY <1>1, FreeType DEF Answer, Free
<1>2. CASE req.client # NoSink
  BY <1>2, AnswerType DEF Answer, Request, Stages
<1> QED BY <1>1, <1>2

\* The frame of a step that ends the handling of a request.
LEMMA AnswerFrame ==
  ASSUME IInv, UNCHANGED sinkVars, NEW c \in Conns, conn[c].stage \in {"sent", "locked"},
         NEW o \in {"committed", "failed"},
         conn' = [conn EXCEPT ![c] = Answer(conn[c], o)],
         lock' = IF lock = c THEN NoConn ELSE lock
  PROVE  /\ conn' \in [Conns -> Request] /\ lock' \in Conns \cup {NoConn}
         /\ LockInv' /\ WaitInv' /\ QueueInv' /\ BatchInv'
         /\ conn'[c].stage # "locked"
         /\ \A d \in Conns : d # c => conn'[d] = conn[d]
<1>0. conn[c] \in Request /\ conn'[c] = Answer(conn[c], o)
      /\ \A d \in Conns : d # c => conn'[d] = conn[d]
  BY DEF IInv, TypeOK
<1>1. conn' \in [Conns -> Request] /\ lock' \in Conns \cup {NoConn}
  BY <1>0, AnswerFacts DEF IInv, TypeOK
<1>2. WaitInv' /\ QueueInv'
  BY <1>0, <1>1, AnswerFacts, ServerFrame
<1>3. LockInv'
  BY <1>0, AnswerFacts, ConnAssumption DEF IInv, LockInv
<1>4. BatchInv'
  BY <1>0, AnswerFacts DEF IInv, BatchInv
<1> QED BY <1>0, <1>1, <1>2, <1>3, <1>4, AnswerFacts

LEMMA CommitInv ==
  ASSUME IInv, NEW c \in Conns, Commit(c)
  PROVE  IInv'
<1> DEFINE req == conn[c]
<1>0. /\ req.stage = "locked" /\ req \in Request /\ TxnOK(req) /\ lock = c
      /\ UNCHANGED <<sinkVars, plains>>
      /\ \A d \in Conns : d # c => conn[d].stage # "locked"
  BY DEF IInv, TypeOK, Commit, TxnInv, LockInv
<1>1. LastSeq \in Nat \cup {-1} /\ SeqsOf(rows) = 0..LastSeq
      /\ req.next \in Int /\ req.next >= LastSeq + 1
      /\ SeqsOf(req.staged) = (LastSeq + 1)..(req.next - 1)
  BY <1>0 DEF IInv, RowsInv, TxnOK, Request
<1>2. SeqsOf(req.staged) \cap SeqsOf(rows) = {}
  BY <1>1
<1>3. rows' = rows \cup req.staged /\ conn' = [conn EXCEPT ![c] = Answer(req, "committed")]
      /\ lock' = NoConn
  BY <1>2 DEF Commit
<1>4. /\ conn' \in [Conns -> Request] /\ lock' \in Conns \cup {NoConn}
      /\ LockInv' /\ WaitInv' /\ QueueInv' /\ BatchInv'
      /\ conn'[c].stage # "locked"
      /\ \A d \in Conns : d # c => conn'[d] = conn[d]
  BY <1>0, <1>3, AnswerFrame
<1>5. TypeOK'
  <2>1. rows' \subseteq Row
    BY <1>0, <1>3 DEF IInv, TypeOK, Request
  <2> QED BY <1>0, <1>4, <2>1 DEF IInv, TypeOK, sinkVars
<1>6. RowsInv'
  <2>1. SeqsOf(rows') = 0..(req.next - 1) /\ req.next - 1 \in Nat \cup {-1}
    <3>1. SeqsOf(rows') = SeqsOf(rows) \cup SeqsOf(req.staged)
      BY <1>3, SeqsOfUnion
    <3> QED BY <1>1, <3>1
  <2>2. LastSeq' = req.next - 1
    BY <2>1, LastOfInterval DEF LastSeq
  <2>3. ASSUME NEW r1 \in rows', NEW r2 \in rows', r1.seq = r2.seq
        PROVE  r1 = r2
    <3>1. \A r \in rows : r.seq \in SeqsOf(rows)
      BY DEF SeqsOf
    <3>2. \A r \in req.staged : r.seq \in SeqsOf(req.staged)
      BY DEF SeqsOf
    <3> QED BY <1>0, <1>2, <1>3, <2>3, <3>1, <3>2 DEF IInv, RowsInv, TxnOK
  <2> QED BY <2>1, <2>2, <2>3 DEF RowsInv
<1>7. NoDuplicates'
  <2>1. \A r \in req.staged, q \in rows : r.ev # Plain => r.ev # q.ev
    <3> SUFFICES ASSUME NEW r \in req.staged, NEW q \in rows, r.ev # Plain, r.ev = q.ev
                 PROVE  FALSE
      OBVIOUS
    <3>1. PICK i \in DOMAIN req.batch : r.ev = req.batch[i] /\ r.ev \notin Seen(req.batch)
      BY <1>0 DEF TxnOK
    <3>2. r.ev \in Elems(req.batch) /\ r.ev \in Stored
      BY <3>1 DEF Elems, Stored
    <3> QED BY <3>1, <3>2 DEF Seen
  <2>2. \A r1, r2 \in req.staged : r1.ev = r2.ev /\ r1.ev # Plain => r1 = r2
    BY <1>0 DEF TxnOK
  <2> QED BY <1>3, <2>1, <2>2 DEF IInv, NoDuplicates
<1>8. TxnInv'
  BY <1>0, <1>4 DEF TxnInv
<1> QED BY <1>4, <1>5, <1>6, <1>7, <1>8 DEF IInv

LEMMA ServerFailInv ==
  ASSUME IInv, NEW c \in Conns, ServerFail(c)
  PROVE  IInv'
<1>1. UNCHANGED sinkVars /\ UNCHANGED <<rows, plains>>
  BY DEF ServerFail
<1>2. /\ conn' \in [Conns -> Request] /\ lock' \in Conns \cup {NoConn}
      /\ LockInv' /\ WaitInv' /\ QueueInv' /\ BatchInv'
      /\ conn'[c].stage # "locked"
      /\ \A d \in Conns : d # c => conn'[d] = conn[d]
  BY AnswerFrame DEF ServerFail
<1>3. TypeOK'
  BY <1>1, <1>2 DEF IInv, TypeOK, sinkVars
<1>4. RowsInv' /\ NoDuplicates'
  BY <1>1, RowsFrame DEF IInv
<1>5. TxnInv'
  BY <1>1, <1>2, TxnFrame DEF IInv
<1> QED BY <1>2, <1>3, <1>4, <1>5 DEF IInv

LEMMA AppendEventInv ==
  ASSUME IInv, AppendEvent
  PROVE  IInv'
<1>0. /\ rows' = rows \cup {[seq |-> LastSeq + 1, ev |-> Plain]}
      /\ UNCHANGED sinkVars /\ UNCHANGED <<conn, lock>>
      /\ \A c \in Conns : conn[c].stage # "locked"
  BY ConnAssumption DEF AppendEvent, IInv, LockInv
<1>1. LastSeq \in Nat \cup {-1} /\ SeqsOf(rows) = 0..LastSeq
  BY DEF IInv, RowsInv
<1>2. TypeOK'
  <2>1. [seq |-> LastSeq + 1, ev |-> Plain] \in Row
    BY <1>1 DEF Row, Event
  <2>2. plains' \in 0..MaxPlain
    BY BoundAssumption DEF IInv, TypeOK, AppendEvent
  <2> QED BY <1>0, <2>1, <2>2 DEF IInv, TypeOK, sinkVars
<1>3. WaitInv' /\ QueueInv'
  BY <1>0, ServerFrame DEF IInv, TypeOK
<1>4. LockInv' /\ BatchInv' /\ TxnInv'
  BY <1>0 DEF IInv, LockInv, BatchInv, TxnInv
<1>5. RowsInv'
  <2>1. SeqsOf(rows') = 0..(LastSeq + 1)
    <3>1. SeqsOf(rows') = SeqsOf(rows) \cup SeqsOf({[seq |-> LastSeq + 1, ev |-> Plain]})
      BY <1>0, SeqsOfUnion
    <3>2. SeqsOf({[seq |-> LastSeq + 1, ev |-> Plain]}) = {LastSeq + 1}
      BY SeqsOfRow
    <3>3. (0..LastSeq) \cup {LastSeq + 1} = 0..(LastSeq + 1)
      BY <1>1
    <3> QED BY <1>1, <3>1, <3>2, <3>3
  <2>2. LastSeq' = LastSeq + 1
    BY <1>1, <2>1, LastOfInterval DEF LastSeq
  <2>3. \A r \in rows : r.seq # LastSeq + 1
    <3>1. \A r \in rows : r.seq \in SeqsOf(rows)
      BY DEF SeqsOf
    <3> QED BY <1>1, <3>1
  <2> QED BY <1>0, <1>1, <2>1, <2>2, <2>3 DEF IInv, RowsInv
<1>6. NoDuplicates'
  BY <1>0 DEF IInv, NoDuplicates
<1> QED BY <1>2, <1>3, <1>4, <1>5, <1>6 DEF IInv

-----------------------------------------------------------------------------
(* Theorems *)

LEMMA InitInv == Init => IInv
<1> SUFFICES ASSUME Init PROVE IInv
  OBVIOUS
<1>1. TypeOK
  BY TypeInit
<1>2. LockInv /\ WaitInv /\ BatchInv /\ TxnInv
  BY ConnAssumption DEF Init, Free, LockInv, WaitInv, BatchInv, TxnInv
<1>3. QueueInv
  BY DEF Init, QueueInv, Unsettled, Awaited, Ascending
<1>4. SeqsOf(rows) = {} /\ LastSeq = -1
  BY DEF Init, SeqsOf, LastSeq, LastOf
<1>5. RowsInv /\ NoDuplicates
  BY <1>4 DEF Init, RowsInv, NoDuplicates
<1> QED BY <1>1, <1>2, <1>3, <1>5 DEF IInv

LEMMA NextInv == IInv /\ [Next]_vars => IInv'
<1> SUFFICES ASSUME IInv, [Next]_vars PROVE IInv'
  OBVIOUS
<1>1. ASSUME NEW s \in Sinks, SinkStep(s) PROVE IInv'
  BY <1>1, EmitInv, PostInv, DropPoisonInv, PostOkInv, RequeueInv, CloseInv, ClosedInv, CrashInv
     DEF SinkStep, PostFail, PostTimeout
<1>2. ASSUME NEW c \in Conns, ServerStep(c) PROVE IInv'
  BY <1>2, BrowserPostInv, BeginInv, StageEventInv, CommitInv, ServerFailInv DEF ServerStep
<1>3. CASE AppendEvent
  BY <1>3, AppendEventInv
<1>4. CASE UNCHANGED vars
  <2>1. TypeOK' /\ LockInv' /\ WaitInv' /\ BatchInv'
    BY <1>4 DEF vars, IInv, TypeOK, LockInv, WaitInv, BatchInv
  <2>2. QueueInv'
    BY <1>4, QueueFrame DEF vars, IInv, Unsettled, Awaited
  <2>3. RowsInv' /\ NoDuplicates' /\ TxnInv'
    BY <1>4, RowsFrame, TxnFrame DEF vars, IInv
  <2> QED BY <2>1, <2>2, <2>3 DEF IInv
<1> QED BY <1>1, <1>2, <1>3, <1>4 DEF Next

LEMMA InvCorrect == Spec => []IInv
BY InitInv, NextInv, PTL DEF Spec

\* Every variable of the sinks, the requests and the log keeps its type.
THEOREM TypeCorrect == Spec => []TypeOK
<1>1. IInv => TypeOK
  BY DEF IInv
<1> QED BY <1>1, InvCorrect, PTL

\* However often a batch is retried, and however many copies of it are being
\* handled at once, no agent event enters the log twice.
THEOREM LogHasNoDuplicates == Spec => []NoDuplicates
<1>1. IInv => NoDuplicates
  BY DEF IInv
<1> QED BY <1>1, InvCorrect, PTL

LEMMA RowCount == ASSUME IInv PROVE Cardinality(rows) = LastSeq + 1
<1>1. LastSeq \in Nat \cup {-1} /\ SeqsOf(rows) = 0..LastSeq
  BY DEF IInv, RowsInv
<1> DEFINE row == [k \in 0..LastSeq |-> CHOOSE r \in rows : r.seq = k]
<1>2. \A k \in 0..LastSeq : row[k] \in rows /\ row[k].seq = k
  <2> SUFFICES ASSUME NEW k \in 0..LastSeq PROVE \E r \in rows : r.seq = k
    OBVIOUS
  <2>1. k \in SeqsOf(rows)
    BY <1>1
  <2> QED BY <2>1 DEF SeqsOf
<1>3. \A r \in rows : r.seq \in 0..LastSeq /\ row[r.seq] = r
  <2>1. \A r \in rows : r.seq \in 0..LastSeq
    BY <1>1 DEF SeqsOf
  <2> QED BY <1>2, <2>1 DEF IInv, RowsInv
<1>4. row \in Bijection(0..LastSeq, rows)
  BY <1>2, <1>3, Fun_IsBij
<1>5. IsFiniteSet(0..LastSeq) /\ Cardinality(0..LastSeq) = LastSeq + 1
  BY <1>1, FS_Interval
<1>6. ExistsBijection(0..LastSeq, rows)
  BY <1>4 DEF ExistsBijection
<1> QED BY <1>5, <1>6, FS_Bijection

\* The seq numbers of the log are 0, 1, 2, ... without a gap.
THEOREM LogIsDense == Spec => []SeqDense
<1>1. IInv => SeqDense
  <2> SUFFICES ASSUME IInv PROVE SeqDense
    OBVIOUS
  <2>1. LastSeq \in Nat \cup {-1} /\ SeqsOf(rows) = 0..LastSeq
    BY DEF IInv, RowsInv
  <2>2. Cardinality(rows) = LastSeq + 1
    BY RowCount
  <2> QED BY <2>1, <2>2 DEF SeqDense
<1> QED BY <1>1, InvCorrect, PTL

\* Rows are never changed or removed, and new ones come after all others.
THEOREM LogIsAppendOnly == Spec => AppendOnly
<1> DEFINE Grows == /\ rows \subseteq rows'
                    /\ \A r \in rows' \ rows : \A q \in rows : q.seq < r.seq
<1>1. ASSUME IInv, [Next]_vars PROVE Grows
  <2>0. /\ LastSeq \in Nat \cup {-1}
        /\ \A q \in rows : q.seq \in 0..LastSeq
    BY <1>1 DEF IInv, RowsInv, SeqsOf
  <2>1. ASSUME NEW c \in Conns, Commit(c) PROVE Grows
    <3>1. TxnOK(conn[c])
      BY <1>1, <2>1 DEF IInv, TxnInv, Commit
    <3>2. \A r \in conn[c].staged : r.seq \in (LastSeq + 1)..(conn[c].next - 1)
      BY <3>1 DEF TxnOK, SeqsOf
    <3>3. rows' = rows \/ rows' = rows \cup conn[c].staged
      BY <2>1 DEF Commit
    <3> QED BY <2>0, <3>2, <3>3
  <2>2. CASE AppendEvent
    BY <2>0, <2>2 DEF AppendEvent
  <2>3. CASE UNCHANGED rows
    BY <2>3
  <2> QED BY <1>1, <2>1, <2>2, <2>3
          DEF Next, SinkStep, ServerStep, vars, Emit, Post, DropPoison, PostOk, PostFail,
              PostTimeout, Requeue, Close, Closed, Crash, BrowserPost, Begin, StageEvent,
              ServerFail
<1>2. ASSUME IInv, [Next]_vars PROVE [Grows]_vars
  BY <1>1, <1>2
<1> QED BY <1>2, InvCorrect, PTL DEF Spec, AppendOnly

-----------------------------------------------------------------------------
(* No event is lost, and none overtakes another: a second invariant *)

\* The earlier events of the sink an event is of.
Earlier(e) == {[sink |-> e.sink, n |-> k] : k \in 1..e.n - 1}

\* A request is one beacon, or a list of one sink's events as it emitted them.
OwnBatch(req) ==
  \/ req.batch = <<Plain>>
  \/ /\ Ascending(req.batch)
     /\ \E s \in Sinks : \A i \in DOMAIN req.batch :
          req.batch[i] \in Emitted /\ req.batch[i].sink = s

\* Whatever came before an event of a request that may still be committed is dropped,
\* stored, or before it in the request.
BatchPrefix(req) ==
  \A i \in DOMAIN req.batch : req.batch[i] # Plain =>
    \A e \in Earlier(req.batch[i]) :
      e \in dropped \cup Stored \/ \E j \in 1..i - 1 : req.batch[j] = e

\* An event the transaction has dealt with is stored, or staged below a given seq.
Dealt(req, i, m) ==
  req.batch[i] \in req.seen \/ \E r \in req.staged : r.ev = req.batch[i] /\ r.seq < m

\* A transaction has dealt with what it has passed, and stages in the order of the batch.
TxnDone(req) ==
  /\ \A i \in DOMAIN req.batch : i < req.pos => Dealt(req, i, req.next)
  /\ \A r \in req.staged : \E i \in DOMAIN req.batch :
       r.ev = req.batch[i] /\ \A j \in 1..i - 1 : Dealt(req, j, r.seq)

AllStored(req) == \A i \in DOMAIN req.batch : req.batch[i] \in Stored \cup {Plain}

ConnOK(c) ==
  LET req == conn[c] IN
  /\ req.stage # "free" => OwnBatch(req)
  /\ req.stage \in {"sent", "locked"} => BatchPrefix(req)
  /\ req.stage = "sent" => req.pos = 1
  /\ req.stage = "locked" => TxnDone(req)
  /\ req.stage = "committed" => AllStored(req)

\* Every event of a sink that lives is accounted for, and one that it still means to post
\* was not given up.
SinkOK(s) ==
  /\ status[s] # "crashed" =>
       \A e \in Emitted : e.sink = s =>
         e \in dropped \cup Stored \cup Elems(queue[s]) \cup Elems(Awaited(s))
  /\ status[s] \in {"open", "closing"} => Elems(Unsettled(s)) \cap dropped = {}

KnownEvents == dropped \subseteq Emitted /\ Stored \subseteq Emitted \cup {Plain}

DeliveryInv ==
  /\ IInv
  /\ \A c \in Conns : ConnOK(c)
  /\ \A s \in Sinks : SinkOK(s)
  /\ KnownEvents /\ StoredPrefix

-----------------------------------------------------------------------------
(* Frames of the second invariant *)

\* A step never takes back what is dropped, stored or emitted.
Onward == dropped \subseteq dropped' /\ Stored \subseteq Stored' /\ Emitted \subseteq Emitted'

\* A request that a step ends or leaves alone, but for its client.
Settled(c) ==
  \/ conn'[c].stage = "free"
  \/ /\ conn[c].stage # "free"
     /\ conn'[c].stage \in {conn[c].stage, "failed"}
     /\ conn'[c].batch = conn[c].batch /\ conn'[c].pos = conn[c].pos
     /\ conn'[c].seen = conn[c].seen /\ conn'[c].next = conn[c].next
     /\ conn'[c].staged = conn[c].staged

LEMMA SettledOK ==
  ASSUME NEW c \in Conns, ConnOK(c), Settled(c), Onward PROVE ConnOK(c)'
<1>1. CASE conn'[c].stage = "free"
  BY <1>1 DEF ConnOK
<1>2. CASE conn'[c].stage # "free"
  <2>0. /\ conn[c].stage # "free"
        /\ conn'[c].stage \in {conn[c].stage, "failed"}
        /\ conn'[c].batch = conn[c].batch /\ conn'[c].pos = conn[c].pos
        /\ conn'[c].seen = conn[c].seen /\ conn'[c].next = conn[c].next
        /\ conn'[c].staged = conn[c].staged
    BY <1>2 DEF Settled
  <2>1. OwnBatch(conn[c])'
    BY <2>0 DEF ConnOK, OwnBatch, Ascending, Onward
  <2>2. conn'[c].stage \in {"sent", "locked"} => BatchPrefix(conn[c])'
    BY <2>0 DEF ConnOK, BatchPrefix, Earlier, Onward
  <2>3. conn'[c].stage = "locked" => TxnDone(conn[c])'
    BY <2>0 DEF ConnOK, TxnDone, Dealt
  <2>4. conn'[c].stage = "committed" => AllStored(conn[c])'
    BY <2>0 DEF ConnOK, AllStored, Onward
  <2>5. conn'[c].stage = "sent" => conn'[c].pos = 1
    BY <2>0 DEF ConnOK
  <2> QED BY <2>1, <2>2, <2>3, <2>4, <2>5 DEF ConnOK
<1> QED BY <1>1, <1>2

\* What is in the hands of a sink that a step does not look at.
LEMMA SinkFrame ==
  ASSUME NEW s \in Sinks, SinkOK(s), Onward,
         status'[s] = status[s], emitted'[s] = emitted[s],
         queue'[s] = queue[s], Awaited(s)' = Awaited(s),
         \A e \in dropped' : e \in dropped \/ e \notin Elems(Unsettled(s))
  PROVE  SinkOK(s)'
<1>1. Unsettled(s)' = Unsettled(s)
  BY DEF Unsettled
<1>2. \A e \in Emitted' : e.sink = s => e \in Emitted
  BY DEF Emitted
<1> QED BY <1>1, <1>2 DEF SinkOK, Elems, Onward

LEMMA StoredPrefixFrame ==
  ASSUME StoredPrefix, UNCHANGED rows, dropped \subseteq dropped' PROVE StoredPrefix'
BY DEF StoredPrefix

LEMMA SameRows == ASSUME UNCHANGED rows PROVE Stored' = Stored
BY DEF Stored

LEMMA SameEmitted == ASSUME UNCHANGED emitted PROVE Emitted' = Emitted
BY DEF Emitted

\* The beacon is no agent's event.
LEMMA PlainIsForeign == Plain \notin AgentEvent /\ \A e \in AgentEvent : e # Plain
BY SinkAssumption DEF Plain, AgentEvent

\* What a sink holds, before a step and after it.
LEMMA InHands ==
  ASSUME IInv, NEW s \in Sinks
  PROVE  /\ Awaited(s) \in Seq(AgentEvent) /\ queue[s] \in Seq(AgentEvent)
         /\ Elems(Unsettled(s)) = Elems(Awaited(s)) \cup Elems(queue[s])
         /\ Elems(Awaited(s)) \cap Elems(queue[s]) = {}
         /\ Elems(Unsettled(s)) \subseteq Emitted
         /\ \A e \in Elems(Unsettled(s)) : e.sink = s
         /\ waiting[s] = NoConn => Awaited(s) = <<>> /\ Unsettled(s) = queue[s]
<1>1. /\ Awaited(s) \in Seq(AgentEvent) /\ queue[s] \in Seq(AgentEvent)
      /\ Unsettled(s) \in Seq(AgentEvent)
  BY AwaitedType DEF IInv
<1> DEFINE p == Awaited(s)
           q == queue[s]
<1>2. /\ Len(p \o q) = Len(p) + Len(q)
      /\ \A i \in 1..Len(p) : (p \o q)[i] = p[i]
      /\ \A i \in 1..Len(q) : (p \o q)[Len(p) + i] = q[i]
      /\ DOMAIN p = 1..Len(p) /\ DOMAIN q = 1..Len(q) /\ DOMAIN (p \o q) = 1..(Len(p) + Len(q))
      /\ Len(p) \in Nat /\ Len(q) \in Nat
  BY <1>1, ConcatElem
<1>3. \A i \in 1..(Len(p) + Len(q)) : i \in 1..Len(p) \/ i - Len(p) \in 1..Len(q)
  BY <1>2
<1>4. Elems(Unsettled(s)) = Elems(p) \cup Elems(q)
  <2>1. ASSUME NEW i \in 1..(Len(p) + Len(q))
        PROVE  (p \o q)[i] \in Elems(p) \cup Elems(q)
    <3>1. CASE i \in 1..Len(p)
      BY <1>2, <3>1 DEF Elems
    <3>2. CASE i - Len(p) \in 1..Len(q)
      <4>1. Len(p) + (i - Len(p)) = i
        BY <1>2
      <4>2. (p \o q)[i] = q[i - Len(p)]
        BY <1>2, <3>2, <4>1
      <4> QED BY <1>2, <3>2, <4>2 DEF Elems
    <3> QED BY <1>3, <3>1, <3>2
  <2>2. \A i \in 1..Len(p) : p[i] \in Elems(p \o q)
    <3> SUFFICES ASSUME NEW i \in 1..Len(p) PROVE p[i] \in Elems(p \o q)
      OBVIOUS
    <3>1. i \in DOMAIN (p \o q) /\ (p \o q)[i] = p[i]
      BY <1>2
    <3> QED BY <3>1 DEF Elems
  <2>3. \A i \in 1..Len(q) : q[i] \in Elems(p \o q)
    <3> SUFFICES ASSUME NEW i \in 1..Len(q) PROVE q[i] \in Elems(p \o q)
      OBVIOUS
    <3>1. Len(p) + i \in DOMAIN (p \o q) /\ (p \o q)[Len(p) + i] = q[i]
      BY <1>2
    <3> QED BY <3>1 DEF Elems
  <2>4. Elems(p \o q) \subseteq Elems(p) \cup Elems(q)
    BY <1>2, <2>1 DEF Elems
  <2>5. Elems(p) \cup Elems(q) \subseteq Elems(p \o q)
    BY <1>2, <2>2, <2>3 DEF Elems
  <2> QED BY <2>4, <2>5 DEF Unsettled
<1>5. Elems(p) \cap Elems(q) = {}
  <2> SUFFICES ASSUME NEW i \in 1..Len(p), NEW j \in 1..Len(q), p[i] = q[j] PROVE FALSE
    BY <1>2 DEF Elems
  <2>1. /\ i \in DOMAIN (p \o q) /\ Len(p) + j \in DOMAIN (p \o q)
        /\ (p \o q)[i] = (p \o q)[Len(p) + j] /\ i # Len(p) + j
    BY <1>2
  <2>2. p \o q \in Seq(AgentEvent) /\ Ascending(p \o q)
    BY <1>1 DEF IInv, QueueInv, Unsettled
  <2> QED BY <2>1, <2>2, AscendingDistinct
<1>6. \A i \in DOMAIN Unsettled(s) : Unsettled(s)[i] \in Emitted /\ Unsettled(s)[i].sink = s
  BY DEF IInv, QueueInv, Emitted
<1>7. waiting[s] = NoConn => Awaited(s) = <<>> /\ Unsettled(s) = queue[s]
  BY <1>1, EmptyConcat DEF Awaited, Unsettled
<1> QED BY <1>1, <1>4, <1>5, <1>6, <1>7 DEF Elems

LEMMA InHandsNext ==
  ASSUME IInv', NEW s \in Sinks
  PROVE  /\ Elems(Unsettled(s))' = Elems(Awaited(s))' \cup Elems(queue[s])'
         /\ waiting'[s] = NoConn => Awaited(s)' = <<>> /\ Unsettled(s)' = queue'[s]
<1>1. (IInv => /\ Elems(Unsettled(s)) = Elems(Awaited(s)) \cup Elems(queue[s])
               /\ waiting[s] = NoConn => Awaited(s) = <<>> /\ Unsettled(s) = queue[s])'
  BY InHands, PTL
<1> QED BY <1>1

-----------------------------------------------------------------------------
(* The second invariant, step by step *)

\* A step that moves no rows: what is left to show.
LEMMA QuietStep ==
  ASSUME DeliveryInv, IInv', UNCHANGED rows, dropped \subseteq dropped', Emitted \subseteq Emitted',
         dropped' \subseteq Emitted',
         \A c \in Conns : Settled(c) \/ ConnOK(c)',
         \A s \in Sinks : SinkOK(s)'
  PROVE  DeliveryInv'
<1>1. Stored' = Stored
  BY SameRows
<1>2. \A c \in Conns : ConnOK(c)'
  BY <1>1, SettledOK DEF DeliveryInv, Onward
<1>3. StoredPrefix'
  BY StoredPrefixFrame DEF DeliveryInv
<1>4. KnownEvents'
  BY <1>1 DEF DeliveryInv, KnownEvents
<1> QED BY <1>2, <1>3, <1>4 DEF DeliveryInv

\* A request that a step leaves alone is settled.
LEMMA UntouchedSettled ==
  ASSUME NEW c \in Conns, conn'[c] = conn[c] PROVE Settled(c)
BY DEF Settled

LEMMA OrphanSettled ==
  ASSUME IInv, NEW c \in Conns, conn'[c] \in {Orphan(conn[c]), Free} PROVE Settled(c)
<1>1. conn[c] \in Request
  BY DEF IInv, TypeOK
<1>2. Free.stage = "free"
  BY DEF Free
<1>3. CASE conn'[c] = Free
  BY <1>2, <1>3 DEF Settled
<1>4. CASE conn'[c] = [conn[c] EXCEPT !.client = NoSink] /\ conn[c].stage \in {"sent", "locked"}
  BY <1>1, <1>4 DEF Settled, Request
<1> QED BY <1>3, <1>4 DEF Orphan

\* The one event that emit() adds.
LEMMA EmitFacts ==
  ASSUME DeliveryInv, NEW s \in Sinks, NEW bad \in BOOLEAN, Emit(s, bad)
  PROVE  LET e == [sink |-> s, n |-> emitted[s] + 1]
         IN  /\ IInv /\ emitted[s] \in Nat /\ e \in AgentEvent
             /\ UNCHANGED <<status, waiting, conn, lock, rows, plains, dropped>>
             /\ queue'[s] = Append(queue[s], e) /\ emitted'[s] = emitted[s] + 1
             /\ \A t \in Sinks : t # s => queue'[t] = queue[t] /\ emitted'[t] = emitted[t]
             /\ Emitted' = Emitted \cup {e} /\ e \notin Emitted
<1> DEFINE e == [sink |-> s, n |-> emitted[s] + 1]
<1>0. /\ IInv /\ emitted[s] \in Nat
      /\ UNCHANGED <<status, waiting, conn, lock, rows, plains, dropped>>
      /\ queue'[s] = Append(queue[s], e) /\ emitted'[s] = emitted[s] + 1
      /\ \A t \in Sinks : t # s => queue'[t] = queue[t] /\ emitted'[t] = emitted[t]
  BY DEF DeliveryInv, IInv, TypeOK, Emit
<1>1. e \in AgentEvent /\ e.sink = s /\ e.n = emitted[s] + 1
  BY BoundAssumption DEF DeliveryInv, IInv, TypeOK, Emit, AgentEvent
<1>2. /\ \A x \in Emitted' : x \in Emitted \/ x = e
      /\ Emitted \subseteq Emitted' /\ e \notin Emitted /\ e \in Emitted'
  <2>1. ASSUME NEW x \in Emitted' PROVE x \in Emitted \/ x = e
    <3>1. x \in AgentEvent /\ x.n <= emitted'[x.sink] /\ x.sink \in Sinks /\ x.n \in Nat
      BY DEF Emitted, AgentEvent
    <3>2. CASE x.sink # s
      BY <1>0, <3>1, <3>2 DEF Emitted
    <3>3. CASE x.sink = s /\ x.n = emitted[s] + 1
      BY <3>1, <3>3 DEF AgentEvent
    <3>4. CASE x.sink = s /\ x.n # emitted[s] + 1
      BY <1>0, <3>1, <3>4 DEF Emitted
    <3> QED BY <3>2, <3>3, <3>4
  <2>2. ASSUME NEW x \in Emitted PROVE x \in Emitted'
    <3>1. x \in AgentEvent /\ x.n <= emitted[x.sink] /\ x.sink \in Sinks /\ x.n \in Nat
      BY DEF Emitted, AgentEvent
    <3>2. CASE x.sink # s
      BY <1>0, <3>1, <3>2 DEF Emitted
    <3>3. CASE x.sink = s
      BY <1>0, <3>1, <3>3 DEF Emitted
    <3> QED BY <3>2, <3>3
  <2>3. e \notin Emitted /\ e \in Emitted'
    BY <1>0, <1>1 DEF Emitted
  <2> QED BY <2>1, <2>2, <2>3
<1> QED BY <1>0, <1>1, <1>2

LEMMA EmitKeeps ==
  ASSUME DeliveryInv, IInv', NEW s \in Sinks, NEW bad \in BOOLEAN, Emit(s, bad)
  PROVE  DeliveryInv'
<1> DEFINE e == [sink |-> s, n |-> emitted[s] + 1]
<1>0. /\ IInv /\ emitted[s] \in Nat
      /\ UNCHANGED <<status, waiting, conn, lock, rows, plains, dropped>>
      /\ queue'[s] = Append(queue[s], e) /\ emitted'[s] = emitted[s] + 1
      /\ \A t \in Sinks : t # s => queue'[t] = queue[t] /\ emitted'[t] = emitted[t]
      /\ Emitted' = Emitted \cup {e} /\ e \notin Emitted
  BY EmitFacts
<1>1. e \in AgentEvent /\ e.sink = s /\ e.n = emitted[s] + 1
  BY EmitFacts
<1>2. /\ \A x \in Emitted' : x \in Emitted \/ x = e
      /\ Emitted \subseteq Emitted' /\ e \notin Emitted
  BY <1>0
<1>3. \A t \in Sinks : Awaited(t)' = Awaited(t)
  BY <1>0 DEF Awaited
<1>4. Stored' = Stored
  BY <1>0, SameRows
<1>5. SinkOK(s)'
  <2> DEFINE q == queue[s]
  <2>1. /\ queue[s] \in Seq(AgentEvent)
        /\ Elems(Unsettled(s)) = Elems(Awaited(s)) \cup Elems(queue[s])
    BY <1>0, InHands
  <2>2. Elems(queue'[s]) = Elems(q) \cup {e}
    <3>1. /\ DOMAIN Append(q, e) = 1..(Len(q) + 1) /\ DOMAIN q = 1..Len(q) /\ Len(q) \in Nat
          /\ \A i \in 1..Len(q) : Append(q, e)[i] = q[i]
          /\ Append(q, e)[Len(q) + 1] = e
      BY <1>1, <2>1
    <3>2. /\ \A i \in 1..Len(q) : i \in 1..(Len(q) + 1)
          /\ Len(q) + 1 \in 1..(Len(q) + 1)
          /\ \A i \in 1..(Len(q) + 1) : i \in 1..Len(q) \/ i = Len(q) + 1
      BY <3>1
    <3> HIDE DEF e, q
    <3>3. \A y : y \in Elems(Append(q, e)) <=> y \in Elems(q) \cup {e}
      BY <3>1, <3>2 DEF Elems
    <3> QED BY <1>0, <3>3 DEF q, e
  <2>3. Elems(Unsettled(s))' = Elems(Awaited(s)) \cup Elems(queue'[s])
    <3>1. Elems(Awaited(s))' = Elems(Awaited(s)) /\ Elems(queue[s])' = Elems(queue'[s])
      BY <1>3 DEF Elems
    <3> QED BY <3>1, InHandsNext
  <2>4. e \notin dropped
    BY <1>2 DEF DeliveryInv, KnownEvents
  <2>5. status[s] = "open" /\ SinkOK(s)
    BY DEF Emit, DeliveryInv
  <2>6. ASSUME NEW x \in Emitted', x.sink = s
        PROVE  x \in dropped \cup Stored \cup Elems(queue'[s]) \cup Elems(Awaited(s))
    BY <1>2, <2>2, <2>5, <2>6 DEF SinkOK
  <2>7. Elems(Unsettled(s)) \cap dropped = {}
    BY <2>5 DEF SinkOK
  <2>8. Elems(Unsettled(s))' \cap dropped = {}
    BY <2>1, <2>2, <2>3, <2>4, <2>7
  <2> QED BY <1>0, <1>3, <1>4, <2>6, <2>8 DEF SinkOK, Elems
<1>6. ASSUME NEW t \in Sinks, t # s PROVE SinkOK(t)'
  BY <1>0, <1>2, <1>3, <1>4, <1>6, SinkFrame DEF DeliveryInv, Onward
<1>7. \A c \in Conns : Settled(c)
  BY <1>0, UntouchedSettled
<1>8. dropped' \subseteq Emitted'
  BY <1>0, <1>2 DEF DeliveryInv, KnownEvents
<1> QED BY <1>0, <1>2, <1>5, <1>6, <1>7, <1>8, QuietStep

LEMMA PostKeeps ==
  ASSUME DeliveryInv, IInv', NEW s \in Sinks, NEW c \in Conns, Post(s, c)
  PROVE  DeliveryInv'
<1> DEFINE q == queue[s]
<1>0. /\ IInv /\ waiting[s] = NoConn /\ status[s] \in {"open", "closing"}
      /\ UNCHANGED <<status, emitted, poison, lock, rows, plains, dropped>>
      /\ queue'[s] = <<>> /\ waiting'[s] = c
      /\ \A t \in Sinks : t # s => queue'[t] = queue[t] /\ waiting'[t] = waiting[t]
      /\ conn'[c] = [Free EXCEPT !.stage = "sent", !.client = s, !.batch = q]
      /\ \A d \in Conns : d # c => conn'[d] = conn[d]
      /\ conn[c].stage = "free"
  BY DEF DeliveryInv, IInv, TypeOK, Post
<1>1. conn'[c].stage = "sent" /\ conn'[c].batch = q /\ conn'[c].pos = 1
  BY <1>0 DEF Free
<1>2. /\ Awaited(s) = <<>> /\ q \in Seq(AgentEvent) /\ Unsettled(s) = q
      /\ \A i \in DOMAIN q : q[i] \in Emitted /\ q[i].sink = s
      /\ Ascending(q)
  BY <1>0, InHands DEF IInv, QueueInv, Elems
<1>3. Stored' = Stored /\ Emitted' = Emitted
  BY <1>0, SameRows, SameEmitted
<1>4. /\ \A t \in Sinks : t # s => Awaited(t)' = Awaited(t)
      /\ Awaited(s)' = q
  <2>1. Awaited(s)' = q
    BY <1>0, <1>1, ConnAssumption DEF Awaited
  <2>2. ASSUME NEW t \in Sinks, t # s PROVE Awaited(t)' = Awaited(t)
    <3>1. waiting[t] # c
      BY <1>0, ConnAssumption DEF IInv, WaitInv
    <3>2. waiting[t] \in Conns \cup {NoConn}
      BY <1>0 DEF IInv, TypeOK
    <3> QED BY <1>0, <2>2, <3>1, <3>2 DEF Awaited
  <2> QED BY <2>1, <2>2
<1>5. SinkOK(s)'
  <2>1. Elems(Unsettled(s))' = Elems(q)
    <3>1. Elems(Awaited(s))' = Elems(q) /\ Elems(queue[s])' = {}
      BY <1>0, <1>4 DEF Elems
    <3> QED BY <3>1, InHandsNext
  <2>2. Elems(Awaited(s))' = Elems(q) /\ Elems(Unsettled(s)) = Elems(q)
    BY <1>2, <1>4 DEF Elems
  <2>3. Elems(Awaited(s)) = {}
    BY <1>2 DEF Elems
  <2>4. SinkOK(s)
    BY DEF DeliveryInv
  <2> QED BY <1>0, <1>3, <2>1, <2>2, <2>3, <2>4 DEF SinkOK
<1>6. ASSUME NEW t \in Sinks, t # s PROVE SinkOK(t)'
  BY <1>0, <1>3, <1>4, <1>6, SinkFrame DEF DeliveryInv, Onward
<1>7. ConnOK(c)'
  <2>1. OwnBatch(conn[c])'
    BY <1>1, <1>2, <1>3 DEF OwnBatch, Ascending
  <2>2. ASSUME NEW i \in DOMAIN q, NEW e \in Earlier(q[i])
        PROVE  e \in dropped \cup Stored \/ \E j \in 1..i - 1 : q[j] = e
    <3>1. q[i] \in AgentEvent /\ q[i].n <= emitted[s] /\ q[i].sink = s
      BY <1>2 DEF Emitted
    <3>2. PICK k \in 1..q[i].n - 1 : e = [sink |-> s, n |-> k]
      BY <3>1 DEF Earlier
    <3>3. /\ q[i].n \in 1..MaxEmit /\ k < q[i].n /\ k \in 1..MaxEmit
          /\ emitted[s] \in Nat
      <4>1. q[i].n \in 1..MaxEmit /\ MaxEmit \in Nat
        BY <3>1, BoundAssumption DEF AgentEvent
      <4>2. emitted[s] \in Nat
        BY <1>0 DEF IInv, TypeOK
      <4> QED BY <3>2, <4>1, <4>2
    <3>4. e \in AgentEvent /\ e.sink = s /\ e.n = k
      BY <3>2, <3>3 DEF AgentEvent
    <3>5. e \in Emitted
      BY <3>1, <3>3, <3>4 DEF Emitted
    <3>6. e \in dropped \cup Stored \cup Elems(q) \cup Elems(Awaited(s))
      BY <1>0, <3>4, <3>5 DEF DeliveryInv, SinkOK
    <3>7. CASE e \in Elems(q)
      <4>1. PICK j \in DOMAIN q : q[j] = e
        BY <3>7 DEF Elems
      <4>2. q[j].n < q[i].n
        BY <3>3, <3>4, <4>1
      <4>3. ~(i < j) /\ i # j
        BY <1>2, <3>3, <3>4, <4>1, <4>2 DEF Ascending
      <4>4. j \in 1..i - 1
        BY <1>2, <4>3
      <4> QED BY <4>1, <4>4
    <3> QED BY <1>2, <3>6, <3>7 DEF Elems
  <2>3. BatchPrefix(conn[c])'
    BY <1>0, <1>1, <1>3, <2>2 DEF BatchPrefix, Earlier
  <2> QED BY <1>1, <2>1, <2>3 DEF ConnOK
<1>8. \A d \in Conns : d # c => Settled(d)
  BY <1>0, UntouchedSettled
<1>9. dropped' \subseteq Emitted'
  BY <1>0, <1>3 DEF DeliveryInv, KnownEvents
<1> QED BY <1>0, <1>3, <1>5, <1>6, <1>7, <1>8, <1>9, QuietStep

LEMMA DropPoisonKeeps ==
  ASSUME DeliveryInv, IInv', NEW s \in Sinks, DropPoison(s)
  PROVE  DeliveryInv'
<1>0. /\ IInv /\ waiting[s] = NoConn
      /\ UNCHANGED <<status, emitted, poison, waiting, conn, lock, rows, plains>>
      /\ dropped' = dropped \cup Elems(queue[s])
      /\ queue'[s] = <<>> /\ \A t \in Sinks : t # s => queue'[t] = queue[t]
  BY DEF DeliveryInv, IInv, TypeOK, DropPoison
<1>1. /\ Awaited(s) = <<>> /\ Elems(queue[s]) \subseteq Emitted
      /\ \A e \in Elems(queue[s]) : e.sink = s
  BY <1>0, InHands
<1>2. Stored' = Stored /\ Emitted' = Emitted /\ \A t \in Sinks : Awaited(t)' = Awaited(t)
  BY <1>0, SameRows, SameEmitted DEF Awaited
<1>3. SinkOK(s)'
  <2>1. Elems(Unsettled(s))' = {}
    <3>1. Elems(Awaited(s))' = {} /\ Elems(queue[s])' = {}
      BY <1>0, <1>1, <1>2 DEF Elems
    <3> QED BY <3>1, InHandsNext
  <2>2. Elems(Awaited(s)) = {}
    BY <1>1 DEF Elems
  <2>3. SinkOK(s)
    BY DEF DeliveryInv
  <2> QED BY <1>0, <1>2, <2>1, <2>2, <2>3 DEF SinkOK
<1>4. ASSUME NEW t \in Sinks, t # s PROVE SinkOK(t)'
  <2>1. \A e \in Elems(queue[s]) : e \notin Elems(Unsettled(t))
    BY <1>0, <1>1, <1>4, InHands
  <2> QED BY <1>0, <1>2, <1>4, <2>1, SinkFrame DEF DeliveryInv, Onward
<1>5. \A c \in Conns : Settled(c)
  BY <1>0, UntouchedSettled
<1>6. dropped' \subseteq Emitted'
  BY <1>0, <1>1, <1>2 DEF DeliveryInv, KnownEvents
<1> QED BY <1>0, <1>2, <1>3, <1>4, <1>5, <1>6, QuietStep

\* What a step leaves in which a sink stops waiting for its request.
LEMMA StopKeeps ==
  ASSUME DeliveryInv, NEW s \in Sinks, waiting[s] # NoConn, UNCHANGED <<lock, rows, emitted>>,
         waiting' = [waiting EXCEPT ![s] = NoConn],
         NEW d, conn' = [conn EXCEPT ![waiting[s]] = d],
         d \in {Orphan(conn[waiting[s]]), Free},
         d = Free => conn[waiting[s]].stage # "locked",
         \A t \in Sinks : t # s => queue'[t] = queue[t] /\ status'[t] = status[t],
         dropped \subseteq dropped', \A e \in dropped' : e \in dropped \/ e \in Elems(Awaited(s))
  PROVE  /\ \A c \in Conns : Settled(c)
         /\ \A t \in Sinks : t # s => SinkOK(t)'
         /\ Awaited(s)' = <<>>
         /\ Stored' = Stored /\ Emitted' = Emitted
         /\ dropped' \subseteq Emitted'
<1>0. IInv /\ waiting[s] \in Conns
  BY DEF DeliveryInv, IInv, TypeOK
<1>1. /\ \A t \in Sinks : t # s => Awaited(t)' = Awaited(t)
      /\ Awaited(s)' = <<>>
  BY <1>0, StopWaiting
<1>2. Stored' = Stored /\ Emitted' = Emitted
  BY SameRows, SameEmitted
<1>3. ASSUME NEW c \in Conns PROVE Settled(c)
  <2>1. CASE c = waiting[s]
    <3>1. conn'[c] = d
      BY <1>0, <2>1 DEF IInv, TypeOK
    <3> QED BY <1>0, <2>1, <3>1, OrphanSettled
  <2>2. CASE c # waiting[s]
    <3>1. conn'[c] = conn[c]
      BY <1>0, <2>2 DEF IInv, TypeOK
    <3> QED BY <3>1, UntouchedSettled
  <2> QED BY <2>1, <2>2
<1>4. ASSUME NEW t \in Sinks, t # s PROVE SinkOK(t)'
  <2>1. \A e \in Elems(Awaited(s)) : e \notin Elems(Unsettled(t))
    BY <1>0, <1>4, InHands
  <2> QED BY <1>1, <1>2, <1>4, <2>1, SinkFrame DEF DeliveryInv, Onward
<1>5. dropped' \subseteq Emitted'
  BY <1>0, <1>2, InHands DEF DeliveryInv, KnownEvents
<1> QED BY <1>1, <1>2, <1>3, <1>4, <1>5

LEMMA PostOkKeeps ==
  ASSUME DeliveryInv, IInv', NEW s \in Sinks, PostOk(s)
  PROVE  DeliveryInv'
<1>0. /\ IInv /\ waiting[s] \in Conns /\ waiting[s] # NoConn
      /\ conn[waiting[s]].stage = "committed"
      /\ UNCHANGED <<status, emitted, poison, queue, lock, rows, plains, dropped>>
  BY DEF DeliveryInv, IInv, TypeOK, PostOk
<1>1. /\ \A c \in Conns : Settled(c)
      /\ \A t \in Sinks : t # s => SinkOK(t)'
      /\ Awaited(s)' = <<>>
      /\ Stored' = Stored /\ Emitted' = Emitted
      /\ dropped' \subseteq Emitted'
  BY <1>0, StopKeeps DEF PostOk
<1>2. Elems(Awaited(s)) \subseteq Stored
  <2>1. AllStored(conn[waiting[s]])
    BY <1>0 DEF DeliveryInv, ConnOK
  <2>2. Awaited(s) = conn[waiting[s]].batch /\ Awaited(s) \in Seq(AgentEvent)
    BY <1>0, InHands DEF Awaited
  <2>3. \A i \in DOMAIN Awaited(s) : Awaited(s)[i] \in Stored
    BY <2>1, <2>2, PlainIsForeign DEF AllStored
  <2> QED BY <2>3 DEF Elems
<1>3. SinkOK(s)'
  <2>1. Elems(Unsettled(s))' \subseteq Elems(Unsettled(s))
    <3>1. Elems(Awaited(s))' = {} /\ Elems(queue[s])' = Elems(queue[s])
      BY <1>0, <1>1 DEF Elems
    <3> QED BY <1>0, <3>1, InHands, InHandsNext
  <2>2. SinkOK(s)
    BY DEF DeliveryInv
  <2>3. Elems(queue[s])' = Elems(queue[s])
    BY <1>0 DEF Elems
  <2> QED BY <1>0, <1>1, <1>2, <2>1, <2>2, <2>3 DEF SinkOK
<1> QED BY <1>0, <1>1, <1>3, QuietStep

LEMMA RequeueKeeps ==
  ASSUME DeliveryInv, IInv', NEW s \in Sinks, waiting[s] # NoConn, Requeue(s)
  PROVE  DeliveryInv'
<1>0. /\ IInv /\ waiting[s] \in Conns
      /\ UNCHANGED <<emitted, poison, lock, rows, plains>>
      /\ queue'[s] = Unsettled(s)
      /\ \A t \in Sinks : t # s => queue'[t] = queue[t] /\ status'[t] = status[t]
      /\ \/ UNCHANGED <<status, dropped>>
         \/ status'[s] = "closed" /\ dropped' = dropped \cup Elems(Awaited(s))
            /\ status[s] = "closing"
  BY DEF DeliveryInv, IInv, TypeOK, Requeue, Requeued, Unsettled
<1>1. Orphan(conn[waiting[s]]) = Free => conn[waiting[s]].stage # "locked"
  BY <1>0 DEF Orphan, Free, IInv, TypeOK, Request
<1>2. /\ \A c \in Conns : Settled(c)
      /\ \A t \in Sinks : t # s => SinkOK(t)'
      /\ Awaited(s)' = <<>>
      /\ Stored' = Stored /\ Emitted' = Emitted
      /\ dropped' \subseteq Emitted'
  BY <1>0, <1>1, StopKeeps DEF Requeue
<1>3. SinkOK(s)'
  <2>1. Elems(queue[s])' = Elems(Awaited(s)) \cup Elems(queue[s])
    <3>1. Elems(queue[s])' = Elems(Unsettled(s))
      BY <1>0 DEF Elems
    <3> QED BY <1>0, <3>1, InHands
  <2>2. Elems(Unsettled(s))' = Elems(Unsettled(s))
    <3>1. Elems(Awaited(s))' = {}
      BY <1>2 DEF Elems
    <3> QED BY <1>0, <2>1, <3>1, InHands, InHandsNext
  <2>3. SinkOK(s)
    BY DEF DeliveryInv
  <2> QED BY <1>0, <1>2, <2>1, <2>2, <2>3 DEF SinkOK
<1> QED BY <1>0, <1>2, <1>3, QuietStep

LEMMA CloseKeeps ==
  ASSUME DeliveryInv, IInv', NEW s \in Sinks, Close(s)
  PROVE  DeliveryInv'
<1>0. /\ IInv /\ status[s] = "open" /\ status'[s] = "closing"
      /\ UNCHANGED <<emitted, poison, queue, lock, rows, plains>>
      /\ \A t \in Sinks : t # s => queue'[t] = queue[t] /\ status'[t] = status[t]
  BY DEF DeliveryInv, IInv, TypeOK, Close
<1>1. SinkOK(s)
  BY DEF DeliveryInv
<1>2. CASE waiting[s] = NoConn
  <2>1. UNCHANGED <<conn, waiting, dropped>>
    BY <1>2 DEF Close
  <2>2. Stored' = Stored /\ Emitted' = Emitted
    BY <1>0, SameRows, SameEmitted
  <2>3. \A t \in Sinks : Awaited(t)' = Awaited(t) /\ Unsettled(t)' = Unsettled(t)
    BY <1>0, <2>1 DEF Awaited, Unsettled
  <2>4. SinkOK(s)'
    BY <1>0, <1>1, <2>1, <2>2, <2>3 DEF SinkOK, Elems
  <2>5. \A t \in Sinks : t # s => SinkOK(t)'
    BY <1>0, <2>1, <2>2, <2>3, SinkFrame DEF DeliveryInv, Onward
  <2>6. \A c \in Conns : Settled(c)
    BY <2>1, UntouchedSettled
  <2>7. dropped' \subseteq Emitted'
    BY <2>1, <2>2 DEF DeliveryInv, KnownEvents
  <2> QED BY <1>0, <2>1, <2>2, <2>4, <2>5, <2>6, <2>7, QuietStep
<1>3. CASE waiting[s] # NoConn
  <2>0. /\ dropped' = dropped \cup Elems(Awaited(s))
        /\ waiting' = [waiting EXCEPT ![s] = NoConn]
        /\ conn' = [conn EXCEPT ![waiting[s]] = Orphan(conn[waiting[s]])]
    BY <1>3 DEF Close
  <2>1. Orphan(conn[waiting[s]]) = Free => conn[waiting[s]].stage # "locked"
    BY <1>0, <1>3 DEF Orphan, Free, IInv, TypeOK, Request
  <2>2. /\ \A c \in Conns : Settled(c)
        /\ \A t \in Sinks : t # s => SinkOK(t)'
        /\ Awaited(s)' = <<>>
        /\ Stored' = Stored /\ Emitted' = Emitted
        /\ dropped' \subseteq Emitted'
    BY <1>0, <1>3, <2>0, <2>1, StopKeeps
  <2>3. SinkOK(s)'
    <3>1. Elems(queue[s])' = Elems(queue[s]) /\ Elems(Awaited(s))' = {}
      BY <1>0, <2>2 DEF Elems
    <3>2. Elems(Unsettled(s))' = Elems(queue[s])
      BY <3>1, InHandsNext
    <3>3. /\ Elems(Unsettled(s)) = Elems(Awaited(s)) \cup Elems(queue[s])
          /\ Elems(Awaited(s)) \cap Elems(queue[s]) = {}
      BY <1>0, InHands
    <3> QED BY <1>0, <1>1, <2>0, <2>2, <3>1, <3>2, <3>3 DEF SinkOK
  <2> QED BY <1>0, <2>0, <2>2, <2>3, QuietStep
<1> QED BY <1>2, <1>3

LEMMA ClosedKeeps ==
  ASSUME DeliveryInv, IInv', NEW s \in Sinks, Closed(s)
  PROVE  DeliveryInv'
<1>0. /\ UNCHANGED <<emitted, poison, queue, waiting, conn, lock, rows, plains, dropped>>
      /\ status[s] = "closing" /\ status'[s] = "closed"
      /\ \A t \in Sinks : t # s => status'[t] = status[t]
  BY DEF DeliveryInv, IInv, TypeOK, Closed
<1>1. Stored' = Stored /\ Emitted' = Emitted
  BY <1>0, SameRows, SameEmitted
<1>2. \A t \in Sinks : Awaited(t)' = Awaited(t) /\ Unsettled(t)' = Unsettled(t)
  BY <1>0 DEF Awaited, Unsettled
<1>3. SinkOK(s)'
  <2>1. SinkOK(s)
    BY DEF DeliveryInv
  <2> QED BY <1>0, <1>1, <1>2, <2>1 DEF SinkOK, Elems
<1>4. \A t \in Sinks : t # s => SinkOK(t)'
  BY <1>0, <1>1, <1>2, SinkFrame DEF DeliveryInv, Onward
<1>5. \A c \in Conns : Settled(c)
  BY <1>0, UntouchedSettled
<1>6. dropped' \subseteq Emitted'
  BY <1>0, <1>1 DEF DeliveryInv, KnownEvents
<1> QED BY <1>0, <1>1, <1>3, <1>4, <1>5, <1>6, QuietStep

LEMMA CrashKeeps ==
  ASSUME DeliveryInv, IInv', NEW s \in Sinks, Crash(s)
  PROVE  DeliveryInv'
<1>0. /\ IInv /\ status'[s] = "crashed"
      /\ UNCHANGED <<emitted, poison, lock, rows, plains, dropped>>
      /\ \A t \in Sinks : t # s => queue'[t] = queue[t] /\ status'[t] = status[t]
  BY DEF DeliveryInv, IInv, TypeOK, Crash
<1>1. SinkOK(s)'
  BY <1>0 DEF SinkOK
<1>2. CASE waiting[s] = NoConn
  <2>1. UNCHANGED <<conn, waiting>>
    BY <1>2 DEF Crash, DeliveryInv, IInv, TypeOK
  <2>2. Stored' = Stored /\ Emitted' = Emitted
    BY <1>0, SameRows, SameEmitted
  <2>3. \A t \in Sinks : Awaited(t)' = Awaited(t)
    BY <2>1 DEF Awaited
  <2>4. \A t \in Sinks : t # s => SinkOK(t)'
    BY <1>0, <2>1, <2>2, <2>3, SinkFrame DEF DeliveryInv, Onward
  <2>5. \A c \in Conns : Settled(c)
    BY <2>1, UntouchedSettled
  <2>6. dropped' \subseteq Emitted'
    BY <1>0, <2>2 DEF DeliveryInv, KnownEvents
  <2> QED BY <1>0, <1>1, <2>2, <2>4, <2>5, <2>6, QuietStep
<1>3. CASE waiting[s] # NoConn
  <2>1. Orphan(conn[waiting[s]]) = Free => conn[waiting[s]].stage # "locked"
    BY <1>0, <1>3 DEF Orphan, Free, IInv, TypeOK, Request
  <2>2. /\ \A c \in Conns : Settled(c)
        /\ \A t \in Sinks : t # s => SinkOK(t)'
        /\ Stored' = Stored /\ Emitted' = Emitted
        /\ dropped' \subseteq Emitted'
    BY <1>0, <1>3, <2>1, StopKeeps DEF Crash
  <2> QED BY <1>0, <1>1, <2>2, QuietStep
<1> QED BY <1>2, <1>3

\* The sinks while the server handles a request: they see at most that more is stored.
LEMMA ServerSinks ==
  ASSUME DeliveryInv, UNCHANGED sinkVars, Stored \subseteq Stored',
         \A c \in Conns : conn[c].client # NoSink /\ conn[c].stage # "free" =>
           conn'[c].batch = conn[c].batch
  PROVE  /\ \A s \in Sinks : SinkOK(s)' /\ Awaited(s)' = Awaited(s)
         /\ Emitted' = Emitted /\ dropped' = dropped /\ Onward
<1>0. IInv /\ UNCHANGED <<status, emitted, poison, queue, waiting, dropped>>
  BY DEF DeliveryInv, sinkVars
<1>1. Emitted' = Emitted
  BY <1>0, SameEmitted
<1>2. ASSUME NEW s \in Sinks PROVE Awaited(s)' = Awaited(s)
  <2>1. CASE waiting[s] = NoConn
    BY <1>0, <2>1 DEF Awaited
  <2>2. CASE waiting[s] # NoConn
    <3>1. /\ waiting[s] \in Conns /\ conn[waiting[s]].client = s
          /\ conn[waiting[s]].stage # "free" /\ s # NoSink
      BY <1>0, <2>2, SinkAssumption DEF IInv, TypeOK, WaitInv
    <3> QED BY <1>0, <2>2, <3>1 DEF Awaited
  <2> QED BY <2>1, <2>2
<1>3. Onward
  BY <1>0, <1>1 DEF Onward
<1>4. \A s \in Sinks : SinkOK(s)'
  BY <1>0, <1>2, <1>3, SinkFrame DEF DeliveryInv
<1> QED BY <1>0, <1>1, <1>2, <1>3, <1>4

LEMMA BrowserPostKeeps ==
  ASSUME DeliveryInv, IInv', NEW c \in Conns, BrowserPost(c)
  PROVE  DeliveryInv'
<1>0. /\ conn'[c].stage = "sent" /\ conn'[c].batch = <<Plain>> /\ conn'[c].pos = 1
      /\ \A d \in Conns : d # c => conn'[d] = conn[d]
      /\ conn[c].stage = "free" /\ UNCHANGED sinkVars /\ UNCHANGED <<lock, rows>>
  BY DEF DeliveryInv, IInv, TypeOK, BrowserPost, Free
<1>1. Stored' = Stored
  BY <1>0, SameRows
<1>2. /\ \A s \in Sinks : SinkOK(s)'
      /\ Emitted' = Emitted /\ dropped' = dropped /\ Onward
  BY <1>0, <1>1, ServerSinks
<1>3. ConnOK(c)'
  BY <1>0 DEF ConnOK, OwnBatch, BatchPrefix
<1>4. \A d \in Conns : d # c => Settled(d)
  BY <1>0, UntouchedSettled
<1>5. dropped' \subseteq Emitted'
  BY <1>2 DEF DeliveryInv, KnownEvents
<1> QED BY <1>0, <1>2, <1>3, <1>4, <1>5, QuietStep

\* Begin knows the stored events of the batch and has staged nothing.
LEMMA BeginKeeps ==
  ASSUME DeliveryInv, IInv', NEW c \in Conns, Begin(c)
  PROVE  DeliveryInv'
<1>0. /\ conn[c].stage = "sent" /\ conn'[c].stage = "locked" /\ conn'[c].staged = {}
      /\ conn'[c].batch = conn[c].batch /\ conn'[c].pos = conn[c].pos
      /\ \A d \in Conns : d # c => conn'[d] = conn[d]
      /\ UNCHANGED sinkVars /\ UNCHANGED rows
  BY DEF DeliveryInv, IInv, TypeOK, Begin, Request
<1>1. Stored' = Stored
  BY <1>0, SameRows
<1>2. /\ \A s \in Sinks : SinkOK(s)'
      /\ Emitted' = Emitted /\ dropped' = dropped /\ Onward
  BY <1>0, <1>1, ServerSinks
<1>3. ConnOK(c)'
  <2>0. /\ OwnBatch(conn[c]) /\ BatchPrefix(conn[c]) /\ conn[c].pos = 1
        /\ conn[c] \in Request
    BY <1>0 DEF DeliveryInv, IInv, TypeOK, ConnOK
  <2>1. OwnBatch(conn[c])'
    BY <1>0, <1>2, <2>0 DEF OwnBatch, Ascending
  <2>2. BatchPrefix(conn[c])'
    BY <1>0, <1>1, <1>2, <2>0 DEF BatchPrefix, Earlier
  <2>3. \A i \in DOMAIN conn[c].batch : ~(i < 1)
    BY <2>0 DEF Request
  <2>4. TxnDone(conn[c])'
    BY <1>0, <2>0, <2>3 DEF TxnDone
  <2> QED BY <1>0, <2>1, <2>2, <2>4 DEF ConnOK
<1>4. \A d \in Conns : d # c => Settled(d)
  BY <1>0, UntouchedSettled
<1>5. dropped' \subseteq Emitted'
  BY <1>2 DEF DeliveryInv, KnownEvents
<1> QED BY <1>0, <1>2, <1>3, <1>4, <1>5, QuietStep

\* What one more event of the batch does to the transaction.
LEMMA StageEventFacts ==
  ASSUME IInv, NEW c \in Conns, StageEvent(c)
  PROVE  LET req == conn[c]
             e == req.batch[req.pos]
         IN  /\ req.stage = "locked" /\ req \in Request /\ TxnOK(req)
             /\ req.pos \in DOMAIN req.batch /\ req.next \in Nat
             /\ UNCHANGED <<sinkVars, lock, rows, plains>>
             /\ \A d \in Conns : d # c => conn'[d] = conn[d]
             /\ conn'[c].stage = "locked" /\ conn'[c].batch = req.batch
             /\ conn'[c].seen = req.seen /\ conn'[c].pos = req.pos + 1
             /\ \/ e \in req.seen /\ conn'[c].staged = req.staged /\ conn'[c].next = req.next
                \/ /\ e \notin req.seen
                   /\ conn'[c].staged = req.staged \cup {[seq |-> req.next, ev |-> e]}
                   /\ conn'[c].next = req.next + 1
<1> DEFINE req == conn[c]
           e == req.batch[req.pos]
<1>0. /\ req.stage = "locked" /\ req \in Request /\ TxnOK(req)
      /\ req.pos \in DOMAIN req.batch
      /\ UNCHANGED <<sinkVars, lock, rows, plains>>
  BY DEF IInv, TypeOK, StageEvent, Skipped, Staged, Request, TxnInv
<1>1. \A d \in Conns : d # c => conn'[d] = conn[d]
  BY DEF IInv, TypeOK, StageEvent, Skipped, Staged
<1>2. /\ conn'[c].stage = "locked" /\ conn'[c].batch = req.batch /\ conn'[c].seen = req.seen
      /\ conn'[c].pos = req.pos + 1
  BY <1>0 DEF IInv, TypeOK, StageEvent, Skipped, Staged, Request
<1>3. \/ e \in req.seen /\ conn'[c].staged = req.staged /\ conn'[c].next = req.next
      \/ /\ e \notin req.seen
         /\ conn'[c].staged = req.staged \cup {[seq |-> req.next, ev |-> e]}
         /\ conn'[c].next = req.next + 1
  BY <1>0 DEF IInv, TypeOK, StageEvent, Skipped, Staged, Request
<1>4. req.next \in Nat
  BY <1>0 DEF IInv, RowsInv, TxnOK, Request
<1> QED BY <1>0, <1>1, <1>2, <1>3, <1>4

LEMMA StageEventKeeps ==
  ASSUME DeliveryInv, IInv', NEW c \in Conns, StageEvent(c)
  PROVE  DeliveryInv'
<1> DEFINE req == conn[c]
           e == req.batch[req.pos]
           now == conn'[c]
<1>0. /\ req.stage = "locked" /\ req \in Request /\ TxnOK(req)
      /\ req.pos \in DOMAIN req.batch /\ req.next \in Nat
      /\ UNCHANGED <<sinkVars, lock, rows, plains>>
      /\ \A d \in Conns : d # c => conn'[d] = conn[d]
      /\ now.stage = "locked" /\ now.batch = req.batch
      /\ now.seen = req.seen /\ now.pos = req.pos + 1
      /\ \/ e \in req.seen /\ now.staged = req.staged /\ now.next = req.next
         \/ /\ e \notin req.seen
            /\ now.staged = req.staged \cup {[seq |-> req.next, ev |-> e]}
            /\ now.next = req.next + 1
  BY StageEventFacts DEF DeliveryInv
<1>1. Stored' = Stored
  BY <1>0, SameRows
<1>2. /\ \A s \in Sinks : SinkOK(s)'
      /\ Emitted' = Emitted /\ dropped' = dropped /\ Onward
  BY <1>0, <1>1, ServerSinks
<1>3. OwnBatch(req) /\ BatchPrefix(req) /\ TxnDone(req)
  BY <1>0 DEF DeliveryInv, ConnOK
<1>4. DOMAIN req.batch = 1..Len(req.batch) /\ Len(req.batch) \in Nat /\ req.pos \in Nat
  BY <1>0 DEF Request
<1>5. \A r \in req.staged : r.seq \in Nat /\ r.seq < req.next
  <2>1. \A r \in req.staged : r.seq \in SeqsOf(req.staged) /\ r.seq \in Nat
    BY <1>0 DEF SeqsOf, Request, Row
  <2> QED BY <1>0, <2>1 DEF TxnOK
<1>6. ASSUME NEW i \in DOMAIN req.batch, NEW m \in Nat, Dealt(req, i, m)
      PROVE  Dealt(now, i, m) /\ (m <= now.next => Dealt(now, i, now.next))
  BY <1>0, <1>5, <1>6 DEF Dealt
<1>7. Dealt(now, req.pos, now.next)
  <2>1. CASE e \in req.seen
    BY <1>0, <2>1 DEF Dealt
  <2>2. CASE e \notin req.seen
    <3> DEFINE r == [seq |-> req.next, ev |-> e]
    <3>1. r \in now.staged /\ r.ev = now.batch[req.pos] /\ r.seq < now.next
      BY <1>0, <2>2
    <3> QED BY <3>1 DEF Dealt
  <2> QED BY <2>1, <2>2
<1>8. \A i \in DOMAIN req.batch : i < req.pos + 1 => Dealt(now, i, now.next)
  <2> SUFFICES ASSUME NEW i \in DOMAIN req.batch, i < req.pos + 1
               PROVE  Dealt(now, i, now.next)
    OBVIOUS
  <2>1. i = req.pos \/ i < req.pos
    BY <1>4
  <2>2. CASE i < req.pos
    <3>1. Dealt(req, i, req.next) /\ req.next <= now.next
      BY <1>0, <1>3, <2>2 DEF TxnDone
    <3> QED BY <1>0, <1>6, <3>1
  <2> QED BY <1>7, <2>1, <2>2
<1>9. ASSUME NEW r \in now.staged
      PROVE  \E i \in DOMAIN req.batch :
               r.ev = req.batch[i] /\ \A j \in 1..i - 1 : Dealt(now, j, r.seq)
  <2>1. CASE r \in req.staged
    <3>1. PICK i \in DOMAIN req.batch :
                 r.ev = req.batch[i] /\ \A j \in 1..i - 1 : Dealt(req, j, r.seq)
      BY <1>3, <2>1 DEF TxnDone
    <3>2. \A j \in 1..i - 1 : j \in DOMAIN req.batch /\ r.seq \in Nat
      BY <1>4, <1>5, <2>1
    <3> QED BY <1>6, <3>1, <3>2
  <2>2. CASE r \notin req.staged
    <3>1. r.ev = e /\ r.seq = req.next
      BY <1>0, <1>9, <2>2
    <3>2. \A j \in 1..req.pos - 1 : j \in DOMAIN req.batch /\ j < req.pos
      BY <1>0, <1>4
    <3>3. \A j \in 1..req.pos - 1 : Dealt(now, j, req.next)
      BY <1>0, <1>3, <1>6, <3>2 DEF TxnDone
    <3> QED BY <1>0, <3>1, <3>3
  <2> QED BY <2>1, <2>2
<1>10. ConnOK(c)'
  <2>1. OwnBatch(conn[c])'
    BY <1>0, <1>2, <1>3 DEF OwnBatch, Ascending
  <2>2. BatchPrefix(conn[c])'
    BY <1>0, <1>1, <1>2, <1>3 DEF BatchPrefix, Earlier
  <2>3. TxnDone(now)
    BY <1>0, <1>8, <1>9 DEF TxnDone
  <2>4. TxnDone(conn[c])'
    BY <2>3 DEF TxnDone, Dealt
  <2> QED BY <1>0, <2>1, <2>2, <2>4 DEF ConnOK
<1>11. \A d \in Conns : d # c => Settled(d)
  BY <1>0, UntouchedSettled
<1>12. dropped' \subseteq Emitted'
  BY <1>2 DEF DeliveryInv, KnownEvents
<1> QED BY <1>0, <1>2, <1>10, <1>11, <1>12, QuietStep

\* A commit stores the whole batch, each new event behind those before it.
LEMMA CommitKeeps ==
  ASSUME DeliveryInv, IInv', NEW c \in Conns, Commit(c)
  PROVE  DeliveryInv'
<1> DEFINE req == conn[c]
<1>0. /\ req.stage = "locked" /\ req \in Request /\ TxnOK(req)
      /\ req.pos > Len(req.batch)
      /\ OwnBatch(req) /\ BatchPrefix(req) /\ TxnDone(req)
      /\ UNCHANGED sinkVars
  BY DEF DeliveryInv, IInv, TypeOK, Commit, TxnInv, ConnOK
<1>1. /\ LastSeq \in Nat \cup {-1} /\ SeqsOf(rows) = 0..LastSeq
      /\ req.next \in Int /\ req.next >= LastSeq + 1
      /\ SeqsOf(req.staged) = (LastSeq + 1)..(req.next - 1)
  BY <1>0 DEF DeliveryInv, IInv, RowsInv, TxnOK, Request
<1>2. SeqsOf(req.staged) \cap SeqsOf(rows) = {}
  BY <1>1
<1>3. rows' = rows \cup req.staged /\ conn' = [conn EXCEPT ![c] = Answer(req, "committed")]
  BY <1>2 DEF Commit
<1>4. /\ conn'[c] = Answer(req, "committed")
      /\ \A d \in Conns : d # c => conn'[d] = conn[d]
  BY <1>3 DEF DeliveryInv, IInv, TypeOK
<1>5. Stored' = Stored \cup {r.ev : r \in req.staged}
  BY <1>3 DEF Stored
<1>6. /\ \A s \in Sinks : SinkOK(s)'
      /\ Emitted' = Emitted /\ dropped' = dropped /\ Onward
  <2>1. req.client # NoSink => conn'[c].batch = req.batch
    BY <1>0, <1>4, AnswerFacts
  <2> QED BY <1>0, <1>4, <1>5, <2>1, ServerSinks
<1>7. \A q \in rows, r \in req.staged : q.seq < r.seq
  <2>1. \A q \in rows : q.seq \in 0..LastSeq
    BY <1>1 DEF SeqsOf
  <2>2. \A r \in req.staged : r.seq \in (LastSeq + 1)..(req.next - 1)
    BY <1>1 DEF SeqsOf
  <2> QED BY <1>1, <2>1, <2>2
<1>8. DOMAIN req.batch = 1..Len(req.batch) /\ Len(req.batch) \in Nat /\ req.pos \in Nat
  BY <1>0 DEF Request
<1>9. ASSUME NEW i \in DOMAIN req.batch, NEW m, Dealt(req, i, m), req.batch[i] # Plain
      PROVE  \/ req.batch[i] \in Stored
             \/ \E r \in req.staged : r.ev = req.batch[i] /\ r.seq < m
  BY <1>0, <1>9 DEF Dealt, TxnOK, Seen
<1>10. \A d \in Conns : ConnOK(d)'
  <2>1. ConnOK(c)'
    <3>1. CASE req.client = NoSink
      <4>1. conn'[c].stage = "free"
        BY <1>4, <3>1 DEF Answer, Free
      <4> QED BY <4>1 DEF ConnOK
    <3>2. CASE req.client # NoSink
      <4>1. conn'[c].stage = "committed" /\ conn'[c].batch = req.batch
        BY <1>0, <1>4, <3>2, AnswerFacts
      <4>2. OwnBatch(conn[c])'
        BY <1>0, <1>6, <4>1 DEF OwnBatch, Ascending
      <4>3. \A i \in DOMAIN req.batch : req.batch[i] \in Stored' \cup {Plain}
        <5> SUFFICES ASSUME NEW i \in DOMAIN req.batch, req.batch[i] # Plain
                     PROVE  req.batch[i] \in Stored'
          OBVIOUS
        <5>1. Dealt(req, i, req.next)
          BY <1>0, <1>8 DEF TxnDone
        <5> QED BY <1>5, <1>9, <5>1
      <4>4. AllStored(conn[c])'
        BY <4>1, <4>3 DEF AllStored
      <4> QED BY <4>1, <4>2, <4>4 DEF ConnOK
    <3> QED BY <3>1, <3>2
  <2> QED BY <1>4, <1>6, <2>1, UntouchedSettled, SettledOK DEF DeliveryInv
<1>11. KnownEvents'
  <2>1. \A i \in DOMAIN req.batch : req.batch[i] \in Emitted \cup {Plain}
    BY <1>0 DEF OwnBatch
  <2>2. \A r \in req.staged : r.ev \in Emitted \cup {Plain}
    BY <1>0, <2>1 DEF TxnOK
  <2> QED BY <1>5, <1>6, <2>2 DEF DeliveryInv, KnownEvents
<1>12. StoredPrefix'
  <2> SUFFICES ASSUME NEW r \in rows', r.ev # Plain, NEW k \in 1..(r.ev.n - 1)
               PROVE  LET e == [sink |-> r.ev.sink, n |-> k]
                      IN  e \in dropped' \/ \E q \in rows' : q.ev = e /\ q.seq < r.seq
    BY DEF StoredPrefix
  <2> DEFINE e == [sink |-> r.ev.sink, n |-> k]
  <2>1. CASE r \in rows
    BY <1>3, <1>6, <2>1 DEF DeliveryInv, StoredPrefix
  <2>2. CASE r \in req.staged
    <3>1. PICK i \in DOMAIN req.batch :
                 r.ev = req.batch[i] /\ \A j \in 1..i - 1 : Dealt(req, j, r.seq)
      BY <1>0, <2>2 DEF TxnDone
    <3>2. e \in Earlier(req.batch[i])
      BY <3>1 DEF Earlier
    <3>3. e \in dropped \cup Stored \/ \E j \in 1..i - 1 : req.batch[j] = e
      BY <1>0, <3>1, <3>2 DEF BatchPrefix
    <3>4. CASE e \in Stored
      BY <1>3, <1>7, <2>2, <3>4 DEF Stored
    <3>5. ASSUME NEW j \in 1..i - 1, req.batch[j] = e
          PROVE  \E q \in rows' : q.ev = e /\ q.seq < r.seq
      <4>1. j \in DOMAIN req.batch /\ Dealt(req, j, r.seq)
        BY <1>8, <3>1
      <4>2. e # Plain
        <5>1. \A x \in DOMAIN req.batch : req.batch[x] \in Emitted \cup {Plain}
          BY <1>0 DEF OwnBatch
        <5>2. r.ev \in AgentEvent
          BY <3>1, <5>1 DEF Emitted
        <5>3. e.sink \in Sinks
          BY <5>2 DEF AgentEvent
        <5> QED BY <5>3, SinkAssumption DEF Plain
      <4>3. e \in Stored \/ \E q \in req.staged : q.ev = e /\ q.seq < r.seq
        BY <1>9, <3>5, <4>1, <4>2
      <4>4. CASE e \in Stored
        BY <1>3, <1>7, <2>2, <4>4 DEF Stored
      <4>5. CASE \E q \in req.staged : q.ev = e /\ q.seq < r.seq
        BY <1>3, <4>5
      <4> QED BY <4>3, <4>4, <4>5
    <3> QED BY <1>6, <3>3, <3>4, <3>5
  <2> QED BY <1>3, <2>1, <2>2
<1> QED BY <1>6, <1>10, <1>11, <1>12 DEF DeliveryInv

LEMMA ServerFailKeeps ==
  ASSUME DeliveryInv, IInv', NEW c \in Conns, ServerFail(c)
  PROVE  DeliveryInv'
<1>0. /\ conn[c].stage \in {"sent", "locked"} /\ conn[c] \in Request
      /\ conn'[c] = Answer(conn[c], "failed")
      /\ \A d \in Conns : d # c => conn'[d] = conn[d]
      /\ UNCHANGED sinkVars /\ UNCHANGED <<rows, plains>>
  BY DEF DeliveryInv, IInv, TypeOK, ServerFail
<1>1. Stored' = Stored
  BY <1>0, SameRows
<1>2. conn[c].client # NoSink => conn'[c].batch = conn[c].batch
  BY <1>0, AnswerFacts
<1>3. /\ \A s \in Sinks : SinkOK(s)'
      /\ Emitted' = Emitted /\ dropped' = dropped /\ Onward
  BY <1>0, <1>1, <1>2, ServerSinks
<1>4. Settled(c)
  <2>1. CASE conn[c].client = NoSink
    BY <1>0, <2>1 DEF Answer, Free, Settled
  <2>2. CASE conn[c].client # NoSink
    BY <1>0, <2>2 DEF Answer, Request, Settled
  <2> QED BY <2>1, <2>2
<1>5. \A d \in Conns : d # c => Settled(d)
  BY <1>0, UntouchedSettled
<1>6. dropped' \subseteq Emitted'
  BY <1>3 DEF DeliveryInv, KnownEvents
<1> QED BY <1>0, <1>3, <1>4, <1>5, <1>6, QuietStep

LEMMA AppendEventKeeps ==
  ASSUME DeliveryInv, IInv', AppendEvent
  PROVE  DeliveryInv'
<1>0. /\ rows' = rows \cup {[seq |-> LastSeq + 1, ev |-> Plain]}
      /\ UNCHANGED sinkVars /\ UNCHANGED <<conn, lock>>
  BY DEF AppendEvent
<1>1. Stored' = Stored \cup {Plain}
  <2> DEFINE row == [seq |-> LastSeq + 1, ev |-> Plain]
  <2>1. row.ev = Plain /\ rows' = rows \cup {row}
    BY <1>0
  <2> HIDE DEF row
  <2> QED BY <2>1 DEF Stored
<1>2. /\ \A s \in Sinks : SinkOK(s)'
      /\ Emitted' = Emitted /\ dropped' = dropped /\ Onward
  BY <1>0, <1>1, ServerSinks
<1>3. \A c \in Conns : ConnOK(c)'
  BY <1>0, <1>2, UntouchedSettled, SettledOK DEF DeliveryInv
<1>4. KnownEvents'
  BY <1>1, <1>2 DEF DeliveryInv, KnownEvents
<1>5. StoredPrefix'
  <2>1. \A r \in rows' : r.ev # Plain => r \in rows
    BY <1>0
  <2> QED BY <1>0, <1>2, <2>1 DEF DeliveryInv, StoredPrefix
<1> QED BY <1>2, <1>3, <1>4, <1>5 DEF DeliveryInv

LEMMA DeliveryInit == Init => DeliveryInv
<1> SUFFICES ASSUME Init PROVE DeliveryInv
  OBVIOUS
<1>1. IInv
  BY InitInv
<1>2. Emitted = {} /\ Stored = {} /\ dropped = {}
  BY DEF Init, Emitted, AgentEvent, Stored
<1>3. \A c \in Conns : ConnOK(c)
  BY DEF Init, Free, ConnOK
<1>4. \A s \in Sinks : SinkOK(s)
  BY <1>2 DEF SinkOK
<1>5. KnownEvents /\ StoredPrefix
  BY <1>2 DEF Init, KnownEvents, StoredPrefix
<1> QED BY <1>1, <1>3, <1>4, <1>5 DEF DeliveryInv

LEMMA DeliveryNext == DeliveryInv /\ [Next]_vars => DeliveryInv'
<1> SUFFICES ASSUME DeliveryInv, [Next]_vars PROVE DeliveryInv'
  OBVIOUS
<1>0. IInv'
  BY NextInv DEF DeliveryInv
<1>1. ASSUME NEW s \in Sinks, SinkStep(s) PROVE DeliveryInv'
  BY <1>0, <1>1, EmitKeeps, PostKeeps, DropPoisonKeeps, PostOkKeeps, RequeueKeeps, CloseKeeps,
     ClosedKeeps, CrashKeeps DEF SinkStep, PostFail, PostTimeout
<1>2. ASSUME NEW c \in Conns, ServerStep(c) PROVE DeliveryInv'
  BY <1>0, <1>2, BrowserPostKeeps, BeginKeeps, StageEventKeeps, CommitKeeps, ServerFailKeeps
     DEF ServerStep
<1>3. CASE AppendEvent
  BY <1>0, <1>3, AppendEventKeeps
<1>4. CASE UNCHANGED vars
  <2>1. UNCHANGED <<status, emitted, queue, waiting, conn, rows, dropped>>
    BY <1>4 DEF vars
  <2>2. Stored' = Stored /\ Emitted' = Emitted
    BY <2>1, SameRows, SameEmitted
  <2>3. \A s \in Sinks : SinkOK(s)'
    BY <2>1, <2>2, SinkFrame DEF DeliveryInv, Onward, Awaited
  <2>4. \A c \in Conns : Settled(c)
    BY <2>1, UntouchedSettled
  <2>5. dropped' \subseteq Emitted'
    BY <2>1, <2>2 DEF DeliveryInv, KnownEvents
  <2> QED BY <1>0, <2>1, <2>2, <2>3, <2>4, <2>5, QuietStep
<1> QED BY <1>1, <1>2, <1>3, <1>4 DEF Next

LEMMA DeliveryInvCorrect == Spec => []DeliveryInv
BY DeliveryInit, DeliveryNext, PTL DEF Spec

\* A flush that fails loses nothing: every event of an agent that has not
\* crashed is queued, in the batch being posted, stored, or was given up.
THEOREM NothingLost == Spec => []Accounted
<1>1. DeliveryInv => Accounted
  <2> SUFFICES ASSUME DeliveryInv, NEW e \in Emitted, status[e.sink] # "crashed"
               PROVE  e \in dropped \cup Stored \cup Elems(queue[e.sink])
                                \cup Elems(Awaited(e.sink))
    BY DEF Accounted
  <2>1. e.sink \in Sinks
    BY DEF Emitted, AgentEvent
  <2> QED BY <2>1 DEF DeliveryInv, SinkOK
<1> QED BY <1>1, DeliveryInvCorrect, PTL

\* Whatever is retried, delayed or handled twice at once, no stored event has
\* overtaken an earlier one of its sink that was not given up.
THEOREM LogHoldsPrefix == Spec => []StoredPrefix
<1>1. DeliveryInv => StoredPrefix
  BY DEF DeliveryInv
<1> QED BY <1>1, DeliveryInvCorrect, PTL

-----------------------------------------------------------------------------
(* Lists of a sink's events *)

Below == {p \in Nat \X Nat : p[1] < p[2]}

LEMMA BelowWellFounded == IsWellFoundedOn(Below, Nat)
BY NatLessThanWellFounded, Zenon DEF OpToRel, Below

\* Every set of natural numbers has a least element.
LEMMA LeastNat ==
  ASSUME NEW T, T \subseteq Nat, T # {}
  PROVE  \E x \in T : \A y \in T : x <= y
<1>1. \E x \in T : \A y \in T : ~ (<<y, x>> \in Below)
  BY BelowWellFounded, WFMin
<1>2. PICK x \in T : \A y \in T : ~ (<<y, x>> \in Below)
  BY <1>1
<1>3. \A a, b \in Nat : a < b => <<a, b>> \in Below
  BY DEF Below
<1>4. \A y \in T : ~(y < x)
  BY <1>2, <1>3
<1> QED BY <1>4

\* A sequence that lists a set of one sink's events in the order of emission.
Lists(q, S) ==
  /\ q \in Seq(S) /\ Ascending(q)
  /\ \A e \in S : \E i \in DOMAIN q : q[i] = e

OneSink(S) == \E s \in Sinks : S \subseteq {e \in AgentEvent : e.sink = s}

LEMMA SameNumber ==
  ASSUME NEW S, OneSink(S), NEW x \in S, NEW y \in S, x.n = y.n
  PROVE  x = y
BY DEF OneSink, AgentEvent

LEMMA NumbersOf ==
  ASSUME NEW S, OneSink(S), NEW x \in S PROVE x.n \in Nat /\ x \in AgentEvent
BY DEF OneSink, AgentEvent

\* A list names nothing twice, and orders positions as it orders numbers.
LEMMA ListOrder ==
  ASSUME NEW S, OneSink(S), NEW q \in Seq(S), Ascending(q),
         NEW i \in DOMAIN q, NEW j \in DOMAIN q
  PROVE  /\ q[i] \in S /\ q[i].n \in Nat
         /\ q[i] = q[j] => i = j
         /\ q[i].n < q[j].n <=> i < j
<1>1. q[i] \in S /\ q[j] \in S /\ i \in Nat /\ j \in Nat
  OBVIOUS
<1>2. q[i].n \in Nat /\ q[j].n \in Nat
  BY <1>1, NumbersOf
<1>3. (i < j => q[i].n < q[j].n) /\ (j < i => q[j].n < q[i].n)
  BY DEF Ascending
<1>4. i < j \/ j < i \/ i = j
  BY <1>1
<1> QED BY <1>1, <1>2, <1>3, <1>4

\* Two lists of one set agree: at the first place where they differ, one of them would
\* have skipped an event.
LEMMA ListsAgree ==
  ASSUME NEW S, OneSink(S), NEW p, NEW q, Lists(p, S), Lists(q, S), NEW i \in DOMAIN p,
         NEW j \in DOMAIN q, p[i] = q[j]
  PROVE  i = j
<1> DEFINE Bad == {x \in DOMAIN p : \E y \in DOMAIN q : p[x] = q[y] /\ x # y}
<1>0. /\ p \in Seq(S) /\ q \in Seq(S) /\ Ascending(p) /\ Ascending(q)
      /\ DOMAIN p = 1..Len(p) /\ DOMAIN q = 1..Len(q) /\ Len(p) \in Nat /\ Len(q) \in Nat
  BY DEF Lists
<1> SUFFICES ASSUME Bad # {} PROVE FALSE
  OBVIOUS
<1>1. Bad \subseteq Nat
  BY <1>0
<1>2. PICK x \in Bad : \A z \in Bad : x <= z
  BY <1>1, LeastNat
<1>3. PICK y \in DOMAIN q : p[x] = q[y] /\ x # y
  BY <1>2
<1>4. x \in DOMAIN p /\ x \in Nat /\ y \in Nat
  BY <1>0, <1>2
<1>5. \A z \in DOMAIN p : z < x => z \notin Bad
  BY <1>0, <1>2, <1>4
<1>6. CASE x < y
  <2>1. x \in DOMAIN q
    BY <1>0, <1>3, <1>4, <1>6
  <2>2. q[x] \in S /\ q[x].n < q[y].n
    BY <1>0, <1>3, <1>6, <2>1, ListOrder
  <2>3. PICK z \in DOMAIN p : p[z] = q[x]
    BY <2>2 DEF Lists
  <2>4. p[z].n < p[x].n
    BY <1>3, <2>2, <2>3
  <2>5. z < x
    BY <1>0, <1>4, <2>3, <2>4, ListOrder
  <2> QED BY <1>5, <2>1, <2>3, <2>5
<1>7. CASE y < x
  <2>1. y \in DOMAIN p
    BY <1>0, <1>3, <1>4, <1>7
  <2>2. p[y] \in S /\ p[y].n < p[x].n
    BY <1>0, <1>4, <1>7, <2>1, ListOrder
  <2>3. PICK z \in DOMAIN q : q[z] = p[y]
    BY <2>2 DEF Lists
  <2>4. z = y
    BY <1>5, <1>7, <2>1, <2>3
  <2> QED BY <1>3, <2>2, <2>3, <2>4, <1>0, ListOrder
<1> QED BY <1>3, <1>4, <1>6, <1>7

LEMMA ListUnique ==
  ASSUME NEW S, OneSink(S), NEW p, NEW q, Lists(p, S), Lists(q, S)
  PROVE  p = q
<1>0. p \in Seq(S) /\ q \in Seq(S) /\ Len(p) \in Nat /\ Len(q) \in Nat
  BY DEF Lists
<1>1. \A i \in DOMAIN p : i \in DOMAIN q /\ q[i] = p[i]
  <2> SUFFICES ASSUME NEW i \in DOMAIN p PROVE i \in DOMAIN q /\ q[i] = p[i]
    OBVIOUS
  <2>1. p[i] \in S
    BY <1>0
  <2>2. PICK j \in DOMAIN q : q[j] = p[i]
    BY <2>1 DEF Lists
  <2> QED BY <2>2, ListsAgree
<1>2. \A i \in DOMAIN q : i \in DOMAIN p
  <2> SUFFICES ASSUME NEW i \in DOMAIN q PROVE i \in DOMAIN p
    OBVIOUS
  <2>1. q[i] \in S
    BY <1>0
  <2>2. PICK j \in DOMAIN p : p[j] = q[i]
    BY <2>1 DEF Lists
  <2> QED BY <2>2, ListsAgree
<1>3. DOMAIN p = DOMAIN q
  BY <1>1, <1>2
<1>4. Len(p) = Len(q) /\ \A i \in 1..Len(p) : p[i] = q[i]
  BY <1>0, <1>1, <1>3
<1> QED BY <1>0, <1>4, SeqEqual

LEMMA ListSize ==
  ASSUME NEW S, OneSink(S), NEW q, Lists(q, S)
  PROVE  IsFiniteSet(S) /\ Cardinality(S) = Len(q) /\ q \in [1..Len(q) -> S]
<1>0. q \in Seq(S) /\ Ascending(q) /\ Len(q) \in Nat /\ q \in [1..Len(q) -> S]
  BY DEF Lists
<1>1. \A i, j \in 1..Len(q) : q[i] = q[j] => i = j
  BY <1>0, ListOrder
<1>2. \A e \in S : \E i \in 1..Len(q) : q[i] = e
  BY <1>0 DEF Lists
<1>3. q \in Bijection(1..Len(q), S)
  BY <1>0, <1>1, <1>2, Fun_IsBij
<1>4. IsFiniteSet(1..Len(q)) /\ Cardinality(1..Len(q)) = Len(q)
  BY <1>0, FS_Interval
<1>5. ExistsBijection(1..Len(q), S)
  BY <1>3 DEF ExistsBijection
<1> QED BY <1>0, <1>4, <1>5, FS_Bijection

\* So whatever lists a set is the list of it.
LEMMA ListIs ==
  ASSUME NEW S, OneSink(S), NEW q, Lists(q, S)
  PROVE  ListOf(S) = q
<1>0. /\ IsFiniteSet(S) /\ Cardinality(S) = Len(q) /\ q \in [1..Len(q) -> S]
      /\ Len(q) \in Nat /\ Ascending(q)
  BY ListSize DEF Lists
<1> DEFINE N == Cardinality(S)
           p == ListOf(S)
<1>1. p \in [1..N -> S] /\ \A i, j \in DOMAIN p : i < j => p[i].n < p[j].n
  <2>1. q \in [1..N -> S] /\ \A i, j \in DOMAIN q : i < j => q[i].n < q[j].n
    BY <1>0 DEF Ascending
  <2> QED BY <2>1 DEF ListOf
<1> HIDE DEF p
<1>2. p \in Seq(S) /\ Ascending(p) /\ DOMAIN p = 1..N
  BY <1>0, <1>1 DEF Ascending
<1>3. \A i, j \in 1..N : p[i] = p[j] => i = j
  BY <1>2, ListOrder
<1>4. p \in Injection(1..N, S)
  BY <1>1, <1>3, Fun_IsInj
<1>5. Cardinality(1..N) = N
  <2>1. N \in Nat
    BY <1>0
  <2> HIDE DEF N
  <2> QED BY <2>1, FS_Interval
<1>6. p \in Surjection(1..N, S)
  BY <1>0, <1>4, <1>5, FS_Injection
<1>7. \A e \in S : \E i \in DOMAIN p : p[i] = e
  BY <1>2, <1>6 DEF Surjection
<1>8. Lists(p, S)
  BY <1>2, <1>7 DEF Lists
<1> QED BY <1>8, ListUnique DEF p

\* A list one longer.
LEMMA ListAppend ==
  ASSUME NEW S, NEW q, Lists(q, S), NEW e, OneSink(S \cup {e}),
         \A x \in S : x.n < e.n
  PROVE  Lists(Append(q, e), S \cup {e})
<1> DEFINE T == S \cup {e}
           a == Append(q, e)
<1>0. /\ q \in Seq(S) /\ Ascending(q) /\ DOMAIN q = 1..Len(q) /\ Len(q) \in Nat
      /\ \A i \in DOMAIN q : q[i] \in S
  BY DEF Lists
<1>1. q \in Seq(T) /\ e \in T
  BY <1>0
<1>2. /\ a \in Seq(T) /\ DOMAIN a = 1..(Len(q) + 1)
      /\ \A i \in 1..Len(q) : a[i] = q[i]
      /\ a[Len(q) + 1] = e
  BY <1>0, <1>1
<1> HIDE DEF a
<1>3. ASSUME NEW i \in DOMAIN a, NEW j \in DOMAIN a, i < j PROVE a[i].n < a[j].n
  <2>1. i \in 1..Len(q) /\ (j \in 1..Len(q) \/ j = Len(q) + 1)
    BY <1>0, <1>2, <1>3
  <2> QED BY <1>0, <1>2, <1>3, <2>1 DEF Ascending
<1>4. \A x \in T : \E i \in DOMAIN a : a[i] = x
  <2>1. \A x \in S : \E i \in DOMAIN q : q[i] = x
    BY DEF Lists
  <2>2. \A i \in 1..Len(q) : i \in 1..(Len(q) + 1)
    BY <1>0
  <2>3. Len(q) + 1 \in 1..(Len(q) + 1)
    BY <1>0
  <2> QED BY <1>0, <1>2, <2>1, <2>2, <2>3
<1> QED BY <1>2, <1>3, <1>4 DEF Lists, Ascending, a

\* A list is cut in two by a set of its events that holds whatever is older than them.
LEMMA ListCut ==
  ASSUME NEW S, OneSink(S), NEW q, Lists(q, S), NEW F, F \subseteq S,
         \A x \in F : \A y \in S : y.n < x.n => y \in F
  PROVE  \E k \in 0..Len(q) : /\ Lists(SubSeq(q, 1, k), F)
                              /\ Lists(SubSeq(q, k + 1, Len(q)), S \ F)
<1>0. /\ q \in Seq(S) /\ Ascending(q) /\ DOMAIN q = 1..Len(q) /\ Len(q) \in Nat
      /\ \A i \in DOMAIN q : q[i] \in S
      /\ \A e \in S : \E i \in DOMAIN q : q[i] = e
  BY DEF Lists
<1> DEFINE Stop == {i \in 1..(Len(q) + 1) : i = Len(q) + 1 \/ q[i] \notin F}
<1>1. PICK m \in Stop : \A i \in Stop : m <= i
  <2>1. Stop \subseteq Nat /\ Len(q) + 1 \in Stop
    BY <1>0
  <2> QED BY <2>1, LeastNat
<1>2. m \in 1..(Len(q) + 1) /\ (m = Len(q) + 1 \/ q[m] \notin F)
  BY <1>1
<1>3. \A i \in 1..(Len(q) + 1) : i < m => i \in 1..Len(q) /\ q[i] \in F
  BY <1>0, <1>1, <1>2
<1> HIDE DEF Stop
<1> DEFINE k == m - 1
           old == SubSeq(q, 1, k)
           new == SubSeq(q, k + 1, Len(q))
<1>4. k \in 0..Len(q) /\ m = k + 1
  BY <1>0, <1>2
<1> HIDE DEF k
<1>4a. Len(q) \in Nat /\ k \in Nat /\ (k < Len(q) \/ k = Len(q))
  <2>1. Len(q) \in Nat
    BY <1>0
  <2>2. k \in 0..Len(q)
    BY <1>4
  <2> DEFINE n == Len(q)
  <2> HIDE DEF n
  <2>3. n \in Nat /\ k \in 0..n => k \in Nat /\ (k < n \/ k = n)
    OBVIOUS
  <2> QED BY <2>1, <2>2, <2>3 DEF n
<1>5. \A i \in 1..k : i \in DOMAIN q /\ q[i] \in F
  BY <1>0, <1>3, <1>4
<1>6. ASSUME NEW i \in (k + 1)..Len(q) PROVE i \in DOMAIN q /\ q[i] \in S \ F
  <2>1. i \in DOMAIN q /\ m \in DOMAIN q /\ (m = i \/ m < i) /\ q[m] \notin F
    BY <1>0, <1>2, <1>4, <1>6
  <2>2. m < i => q[m].n < q[i].n
    BY <1>0, <2>1 DEF Ascending
  <2>3. q[m] \in S /\ q[i] \in S
    BY <1>0, <2>1
  <2> QED BY <2>1, <2>2, <2>3
<1>7. /\ old \in Seq(F) /\ DOMAIN old = 1..k
      /\ \A i \in 1..k : old[i] = q[i]
  <2>1. k \in Int /\ 1 \in Int /\ \A i \in 1..k : q[i] \in F
    BY <1>0, <1>4, <1>5
  <2>2. /\ old \in Seq(F) /\ Len(old) = IF 1 <= k THEN k - 1 + 1 ELSE 0
        /\ \A i \in 1..k - 1 + 1 : old[i] = q[1 + i - 1]
    BY <2>1, SubSeqProperties
  <2>3. Len(old) = k /\ DOMAIN old = 1..Len(old)
    BY <1>0, <1>4, <2>2
  <2>4. \A i \in 1..k : i \in 1..k - 1 + 1 /\ 1 + i - 1 = i
    BY <1>0, <1>4
  <2> QED BY <2>2, <2>3, <2>4
<1>8. /\ new \in Seq(S \ F) /\ DOMAIN new = 1..(Len(q) - k)
      /\ \A i \in 1..(Len(q) - k) : new[i] = q[k + i]
  <2>1. k + 1 \in Int /\ Len(q) \in Int /\ \A i \in (k + 1)..Len(q) : q[i] \in S \ F
    BY <1>0, <1>4, <1>6
  <2>2. /\ new \in Seq(S \ F)
        /\ Len(new) = IF k + 1 <= Len(q) THEN Len(q) - (k + 1) + 1 ELSE 0
        /\ \A i \in 1..Len(q) - (k + 1) + 1 : new[i] = q[k + 1 + i - 1]
    BY <2>1, SubSeqProperties
  <2>3. Len(new) = Len(q) - k
    <3>1. k \in Nat /\ Len(q) \in Nat /\ (k < Len(q) \/ k = Len(q))
      BY <1>4a
    <3>2. CASE k < Len(q)
      BY <2>2, <3>1, <3>2
    <3>3. CASE k = Len(q)
      <4>1. ~(k + 1 <= Len(q))
        BY <3>1, <3>3
      <4>2. Len(new) = 0
        BY <2>2, <4>1
      <4> QED BY <3>1, <3>3, <4>2
    <3> QED BY <3>1, <3>2, <3>3
  <2>4. DOMAIN new = 1..Len(new)
    BY <2>2
  <2>5. \A i \in 1..(Len(q) - k) : i \in 1..Len(q) - (k + 1) + 1 /\ k + 1 + i - 1 = k + i
    BY <1>0, <1>4
  <2> QED BY <2>2, <2>3, <2>4, <2>5
<1> HIDE DEF old, new
<1>9. Lists(old, F)
  <2>1. Ascending(old)
    BY <1>0, <1>5, <1>7 DEF Ascending
  <2>2. ASSUME NEW e \in F PROVE \E i \in DOMAIN old : old[i] = e
    <3>1. PICK i \in DOMAIN q : q[i] = e
      BY <1>0
    <3>2. i \notin (k + 1)..Len(q)
      BY <1>6, <3>1
    <3>3. i \in 1..k
      BY <1>0, <1>4, <3>2
    <3> QED BY <1>7, <3>1, <3>3
  <2> QED BY <1>7, <2>1, <2>2 DEF Lists
<1>10. Lists(new, S \ F)
  <2>1. ASSUME NEW i \in 1..(Len(q) - k)
        PROVE  k + i \in DOMAIN q /\ k + i \in (k + 1)..Len(q)
    BY <1>0, <1>4
  <2>2. Ascending(new)
    <3>1. ASSUME NEW i \in 1..(Len(q) - k), NEW j \in 1..(Len(q) - k), i < j
          PROVE  new[i].n < new[j].n
      <4>1. k + i < k + j
        BY <1>4, <3>1
      <4> QED BY <1>0, <1>8, <2>1, <4>1 DEF Ascending
    <3> QED BY <1>8, <3>1 DEF Ascending
  <2>3. ASSUME NEW e \in S \ F PROVE \E i \in DOMAIN new : new[i] = e
    <3>1. PICK i \in DOMAIN q : q[i] = e
      BY <1>0
    <3>2. i \notin 1..k
      BY <1>5, <3>1
    <3>3. i - k \in 1..(Len(q) - k) /\ k + (i - k) = i
      BY <1>0, <1>4, <3>2
    <3> QED BY <1>8, <3>1, <3>3
  <2> QED BY <1>8, <2>2, <2>3 DEF Lists
<1> QED BY <1>4, <1>9, <1>10 DEF old, new

LEMMA EmptyList == Lists(<<>>, {})
BY DEF Lists, Ascending

-----------------------------------------------------------------------------
(* What a request would add is stored or given up as a whole *)

\* What a sink would give up on if it stopped now: the batch it awaits, or its queue.
InHand(s) == IF waiting[s] = NoConn THEN queue[s] ELSE Awaited(s)

\* The agent's events that a request would add to the log.
Unstored(req) == (Elems(req.batch) \ Stored) \ {Plain}

\* What sinks that live still hold, and all that is of sinks that crashed.
Held == {e \in AgentEvent : status[e.sink] = "crashed" \/ e \in Elems(InHand(e.sink))}

\* What a request would add was given up as a whole or not at all; while its sink lives,
\* the sink holds all of it in one hand.
OneFate(req) ==
  \/ Unstored(req) \subseteq dropped
  \/ Unstored(req) \cap dropped = {} /\ Unstored(req) \subseteq Held

\* A transaction uses up at most one seq for each event it has passed.
SeqsUsed(req) == req.pos <= Len(req.batch) + 1 /\ req.next <= LastSeq + req.pos

FatesInv ==
  \A c \in Conns :
    /\ conn[c].stage \in {"sent", "locked"} => OneFate(conn[c])
    /\ conn[c].stage = "locked" => SeqsUsed(conn[c])

\* What a step may do to a sink's hand: what is in it and not stored stays in it, unless
\* the sink crashes or gives it up.
Steady(t) ==
  \/ /\ \A e \in dropped' : e.sink = t => e \in dropped
     /\ \/ status'[t] = "crashed"
        \/ /\ status[t] # "crashed"
           /\ \A e \in Elems(InHand(t)) : e \in Stored \/ e \in Elems(InHand(t))'
  \/ status[t] # "crashed" /\ Elems(InHand(t)) \subseteq dropped'

LEMMA HeldNext ==
  ASSUME NEW s \in Sinks, NEW e \in AgentEvent, e.sink = s,
         status'[s] = "crashed" \/ e \in Elems(InHand(s))'
  PROVE  e \in Held'
BY DEF Held, InHand, Awaited, Elems

LEMMA FateFrame ==
  ASSUME NEW c \in Conns, OwnBatch(conn[c]), OneFate(conn[c]),
         conn'[c].batch = conn[c].batch, Onward, \A t \in Sinks : Steady(t)
  PROVE  OneFate(conn[c])'
<1> DEFINE req == conn[c]
           U == (Elems(req.batch) \ Stored') \ {Plain}
<1> SUFFICES U \subseteq dropped' \/ (U \cap dropped' = {} /\ U \subseteq Held')
  BY DEF OneFate, Unstored
<1>1. U \subseteq Unstored(req)
  BY DEF Unstored, Onward
<1>2. CASE Unstored(req) \subseteq dropped
  BY <1>1, <1>2 DEF Onward
<1>3. CASE req.batch = <<Plain>>
  <2>1. U = {}
    BY <1>3 DEF Elems
  <2> QED BY <2>1
<1>4. ASSUME NEW s \in Sinks, \A i \in DOMAIN req.batch : req.batch[i] \in Emitted
                                                          /\ req.batch[i].sink = s,
             Unstored(req) \cap dropped = {}, Unstored(req) \subseteq Held
      PROVE  U \subseteq dropped' \/ (U \cap dropped' = {} /\ U \subseteq Held')
  <2>1. ASSUME NEW e \in U
        PROVE  /\ e.sink = s /\ e \notin dropped /\ e \notin Stored /\ e \in AgentEvent
               /\ status[s] = "crashed" \/ e \in Elems(InHand(s))
    <3>1. e.sink = s /\ e \notin dropped /\ e \notin Stored /\ e \in Held
      BY <1>1, <1>4 DEF Elems, Unstored
    <3> QED BY <3>1 DEF Held
  <2> HIDE DEF U
  <2>2. CASE status[s] # "crashed" /\ Elems(InHand(s)) \subseteq dropped'
    BY <2>1, <2>2
  <2>3. CASE /\ \A e \in dropped' : e.sink = s => e \in dropped
             /\ status'[s] = "crashed"
    BY <2>1, <2>3, HeldNext
  <2>4. CASE /\ \A e \in dropped' : e.sink = s => e \in dropped
             /\ status[s] # "crashed"
             /\ \A e \in Elems(InHand(s)) : e \in Stored \/ e \in Elems(InHand(s))'
    BY <2>1, <2>4, HeldNext
  <2> QED BY <2>2, <2>3, <2>4 DEF Steady
<1>5. OwnBatch(req) /\ OneFate(req)
  OBVIOUS
<1> HIDE DEF U, req
<1>6. CASE \E s \in Sinks : \A i \in DOMAIN req.batch : req.batch[i] \in Emitted
                                                        /\ req.batch[i].sink = s
  <2>1. PICK s \in Sinks : \A i \in DOMAIN req.batch : req.batch[i] \in Emitted
                                                        /\ req.batch[i].sink = s
    BY <1>6
  <2>2. CASE Unstored(req) \cap dropped = {} /\ Unstored(req) \subseteq Held
    BY <1>4, <2>1, <2>2
  <2> QED BY <1>2, <1>5, <2>2 DEF OneFate
<1> QED BY <1>3, <1>5, <1>6 DEF OwnBatch

LEMMA SteadyFrame ==
  ASSUME NEW t \in Sinks, status'[t] = status[t], queue'[t] = queue[t],
         waiting'[t] = waiting[t], Awaited(t)' = Awaited(t),
         \A e \in dropped' : e.sink = t => e \in dropped
  PROVE  Steady(t)
<1>1. InHand(t)' = InHand(t)
  BY DEF InHand
<1>2. Elems(InHand(t))' = Elems(InHand(t))
  BY <1>1 DEF Elems
<1> QED BY <1>2 DEF Steady

FateOK(c) ==
  /\ conn[c].stage \in {"sent", "locked"} => OneFate(conn[c])
  /\ conn[c].stage = "locked" => SeqsUsed(conn[c])

LEMMA FatesFrame ==
  ASSUME DeliveryInv, FatesInv, Onward, \A t \in Sinks : Steady(t),
         \A c \in Conns : \/ Settled(c) /\ (UNCHANGED rows \/ conn'[c].stage # "locked")
                          \/ FateOK(c)'
  PROVE  FatesInv'
<1> SUFFICES ASSUME NEW c \in Conns, Settled(c), conn'[c].stage \in {"sent", "locked"},
                    UNCHANGED rows \/ conn'[c].stage # "locked"
             PROVE  FateOK(c)'
  BY DEF FatesInv, FateOK
<1>1. /\ conn[c].stage = conn'[c].stage /\ conn'[c].batch = conn[c].batch
      /\ conn'[c].pos = conn[c].pos /\ conn'[c].next = conn[c].next
  BY DEF Settled
<1>2. OwnBatch(conn[c]) /\ OneFate(conn[c])
  BY <1>1 DEF DeliveryInv, ConnOK, FatesInv
<1>3. OneFate(conn[c])'
  BY <1>1, <1>2, FateFrame
<1>4. conn'[c].stage = "locked" => SeqsUsed(conn[c])'
  BY <1>1 DEF FatesInv, SeqsUsed, LastSeq
<1> QED BY <1>3, <1>4 DEF FateOK

-----------------------------------------------------------------------------
(* The log and the lists of live events as the abstract specification sees them *)

ListInv == \A s \in Sinks : Lists(PendingSeq(s), Live(s))

LEMMA LogFacts ==
  ASSUME IInv
  PROVE  /\ LastSeq \in Nat \cup {-1}
         /\ LogSeq \in Seq(Event) /\ Len(LogSeq) = LastSeq + 1
         /\ \A r \in rows : r.seq \in 0..LastSeq /\ r.ev = LogSeq[r.seq + 1]
         /\ \A i \in 1..(LastSeq + 1) : \E r \in rows : r.seq = i - 1
<1>1. LastSeq \in Nat \cup {-1} /\ SeqsOf(rows) = 0..LastSeq /\ rows \subseteq Row
  BY DEF IInv, RowsInv, TypeOK
<1>2. \A i \in 1..(LastSeq + 1) : \E r \in rows : r.seq = i - 1
  <2> SUFFICES ASSUME NEW i \in 1..(LastSeq + 1) PROVE \E r \in rows : r.seq = i - 1
    OBVIOUS
  <2>1. i - 1 \in SeqsOf(rows)
    BY <1>1
  <2> QED BY <2>1 DEF SeqsOf
<1> DEFINE At(i) == CHOOSE r \in rows : r.seq = i - 1
<1>3. \A i \in 1..(LastSeq + 1) : At(i) \in rows /\ At(i).seq = i - 1
  BY <1>2
<1>4. LogSeq = [i \in 1..(LastSeq + 1) |-> At(i).ev]
  BY RowCount DEF LogSeq
<1>5. LastSeq + 1 \in Nat
  BY <1>1
<1>6. \A r \in rows : r.seq \in 0..LastSeq /\ r.seq + 1 \in 1..(LastSeq + 1)
                      /\ (r.seq + 1) - 1 = r.seq
  <2>1. \A r \in rows : r.seq \in 0..LastSeq
    BY <1>1 DEF SeqsOf
  <2> QED BY <1>1, <2>1
<1>7. \A r \in rows : At(r.seq + 1) = r
  BY <1>3, <1>6 DEF IInv, RowsInv
<1>8. \A i \in 1..(LastSeq + 1) : At(i).ev \in Event
  BY <1>1, <1>3 DEF Row
<1> HIDE DEF At
<1>9. LogSeq \in Seq(Event) /\ Len(LogSeq) = LastSeq + 1
  BY <1>4, <1>5, <1>8
<1> QED BY <1>1, <1>2, <1>4, <1>6, <1>7, <1>9

LEMMA LogFactsNext ==
  ASSUME IInv'
  PROVE  /\ LastSeq' \in Nat \cup {-1}
         /\ LogSeq' \in Seq(Event) /\ Len(LogSeq') = LastSeq' + 1
         /\ \A r \in rows' : r.seq \in 0..LastSeq' /\ r.ev = LogSeq'[r.seq + 1]
         /\ \A i \in 1..(LastSeq' + 1) : \E r \in rows' : r.seq = i - 1
<1>1. (IInv =>
         /\ LastSeq \in Nat \cup {-1}
         /\ LogSeq \in Seq(Event) /\ Len(LogSeq) = LastSeq + 1
         /\ \A r \in rows : r.seq \in 0..LastSeq /\ r.ev = LogSeq[r.seq + 1]
         /\ \A i \in 1..(LastSeq + 1) : \E r \in rows : r.seq = i - 1)'
  BY LogFacts, PTL
<1> QED BY <1>1

\* New rows behind the last one are appended to the log.
LEMMA LogGrows ==
  ASSUME IInv, IInv', NEW R, rows' = rows \cup R, NEW q \in Seq(Event),
         LastSeq' = LastSeq + Len(q),
         \A r \in R : r.seq > LastSeq /\ r.ev = q[r.seq - LastSeq]
  PROVE  LogSeq' = LogSeq \o q
<1> DEFINE log == LogSeq
           log2 == LogSeq'
           m == LastSeq
<1>1. /\ m \in Nat \cup {-1} /\ log \in Seq(Event) /\ Len(log) = m + 1
      /\ \A r \in rows : r.seq \in 0..m /\ r.ev = log[r.seq + 1]
  BY LogFacts
<1>2. /\ log2 \in Seq(Event) /\ Len(log2) = m + Len(q) + 1
      /\ \A r \in rows' : r.ev = log2[r.seq + 1]
      /\ \A i \in 1..(m + Len(q) + 1) : \E r \in rows' : r.seq = i - 1
  BY LogFactsNext
<1>3. /\ log \o q \in Seq(Event) /\ Len(log \o q) = Len(log) + Len(q)
      /\ \A i \in 1..Len(log) + Len(q) :
           (log \o q)[i] = IF i <= Len(log) THEN log[i] ELSE q[i - Len(log)]
  BY <1>1, ConcatProperties
<1>4. Len(q) \in Nat /\ rows' = rows \cup R
  OBVIOUS
<1>5. \A r \in R : r.seq > m /\ r.ev = q[r.seq - m]
  OBVIOUS
<1> HIDE DEF log, log2, m
<1>6. ASSUME NEW i \in 1..(m + Len(q) + 1) PROVE log2[i] = (log \o q)[i]
  <2>1. PICK r \in rows' : r.seq = i - 1
    BY <1>2
  <2>2. r.seq + 1 = i /\ log2[i] = r.ev /\ i \in 1..Len(log) + Len(q)
    <3>1. m \in Int /\ Len(q) \in Nat /\ Len(log) = m + 1
      BY <1>1, <1>4
    <3>2. i \in 1..Len(log) + Len(q) /\ (i - 1) + 1 = i
      BY <3>1
    <3>3. log2[r.seq + 1] = r.ev
      BY <1>2
    <3> QED BY <2>1, <3>2, <3>3
  <2>3. CASE r \in rows
    <3>1. i <= Len(log) /\ log[i] = r.ev
      BY <1>1, <2>2, <2>3
    <3> QED BY <1>3, <2>2, <3>1
  <2>4. CASE r \in R
    <3>1. i - 1 > m /\ r.ev = q[i - 1 - m]
      BY <1>5, <2>1, <2>4
    <3>2. ~(i <= Len(log)) /\ i - Len(log) = i - 1 - m
      BY <1>1, <3>1
    <3> QED BY <1>3, <2>2, <3>1, <3>2
  <2> QED BY <1>4, <2>1, <2>3, <2>4
<1>7. Len(log2) = Len(log \o q) /\ Len(log2) = m + Len(q) + 1
  BY <1>1, <1>2, <1>3, <1>4
<1>8. log2 = log \o q
  BY <1>2, <1>3, <1>6, <1>7, SeqEqual
<1> QED BY <1>8 DEF log, log2

LEMMA LiveOneSink == ASSUME NEW s \in Sinks PROVE OneSink(Live(s)) /\ OneSink(Live(s))'
BY DEF OneSink, Live, Emitted

LEMMA PendingNext ==
  ASSUME NEW s \in Sinks, NEW q, Lists(q, Live(s)')
  PROVE  PendingSeq(s)' = q
<1>1. OneSink(Live(s)')
  BY LiveOneSink DEF OneSink
<1> QED BY <1>1, ListIs DEF PendingSeq

\* What is live of a sink that a step does not give anything up for, or store of.
LEMMA PendingFrame ==
  ASSUME ListInv, NEW s \in Sinks, Live(s)' = Live(s)
  PROVE  PendingSeq(s)' = PendingSeq(s) /\ Lists(PendingSeq(s), Live(s))'
<1>1. Lists(PendingSeq(s), Live(s))
  BY DEF ListInv
<1>2. PendingSeq(s)' = PendingSeq(s)
  BY <1>1, PendingNext
<1> QED BY <1>1, <1>2 DEF Lists, Ascending

\* The log and what was given up, as long as no rows and no new drops appear.
LEMMA Stutters ==
  ASSUME DeliveryInv, ListInv, UNCHANGED <<rows, emitted>>, dropped \subseteq dropped',
         \A e \in dropped' : e \in dropped \/ e \in Stored
  PROVE  ListInv' /\ UNCHANGED Delivery!absVars
<1>1. Stored' = Stored /\ Emitted' = Emitted
  BY SameRows, SameEmitted
<1>2. \A s \in Sinks : Live(s)' = Live(s)
  BY <1>1 DEF Live
<1>3. \A s \in Sinks : PendingSeq(s)' = PendingSeq(s) /\ Lists(PendingSeq(s), Live(s))'
  BY <1>2, PendingFrame
<1>4. LogSeq' = LogSeq
  BY DEF LogSeq
<1>5. (dropped \ Stored)' = dropped \ Stored
  BY <1>1
<1>6. [s \in Sinks |-> PendingSeq(s)]' = [s \in Sinks |-> PendingSeq(s)]
  BY <1>3
<1> QED BY <1>3, <1>4, <1>5, <1>6 DEF ListInv, Delivery!absVars

-----------------------------------------------------------------------------
(* Every step is a step of EventDelivery, or none *)

RefInv == DeliveryInv /\ FatesInv /\ ListInv

\* What a step has to be.
Simulates == Delivery!AbsNext \/ UNCHANGED Delivery!absVars

\* What a sink awaits is older than what it has queued.
LEMMA AwaitedFirst ==
  ASSUME IInv, NEW s \in Sinks, NEW x \in Elems(Awaited(s)), NEW y \in Elems(queue[s])
  PROVE  x.n < y.n
<1> DEFINE p == Awaited(s)
           q == queue[s]
<1>1. p \in Seq(AgentEvent) /\ q \in Seq(AgentEvent) /\ Ascending(p \o q)
  BY InHands DEF IInv, QueueInv, Unsettled
<1>2. PICK i \in DOMAIN p : p[i] = x
  BY DEF Elems
<1>3. PICK j \in DOMAIN q : q[j] = y
  BY DEF Elems
<1> HIDE DEF p, q
<1>4. /\ i \in DOMAIN (p \o q) /\ (p \o q)[i] = x
      /\ Len(p) + j \in DOMAIN (p \o q) /\ (p \o q)[Len(p) + j] = y
      /\ i < Len(p) + j
  BY <1>1, <1>2, <1>3
<1> QED BY <1>1, <1>4 DEF Ascending

\* A living sink that stops gives up on the oldest of its live events, or on none.
LEMMA GivesUp ==
  ASSUME DeliveryInv, ListInv, NEW s \in Sinks, status[s] \in {"open", "closing"},
         UNCHANGED <<rows, emitted>>, dropped' = dropped \cup Elems(InHand(s))
  PROVE  ListInv' /\ Simulates
<1> DEFINE P == PendingSeq(s)
           F == Elems(InHand(s)) \ Stored
<1>0. IInv /\ SinkOK(s) /\ Lists(P, Live(s)) /\ OneSink(Live(s))
  BY LiveOneSink DEF DeliveryInv, ListInv
<1>1. Stored' = Stored /\ Emitted' = Emitted
  BY SameRows, SameEmitted
<1>2. /\ InHand(s) \in {Awaited(s), queue[s]}
      /\ Elems(InHand(s)) \subseteq Elems(Unsettled(s))
      /\ waiting[s] = NoConn => InHand(s) = queue[s] /\ Elems(Awaited(s)) = {}
      /\ waiting[s] # NoConn => InHand(s) = Awaited(s)
  BY <1>0, InHands DEF InHand, Elems
<1>3. F \subseteq Live(s)
  <2>1. \A e \in Elems(Unsettled(s)) : e \in Emitted /\ e.sink = s /\ e \notin dropped
    BY <1>0, InHands DEF SinkOK
  <2> QED BY <1>2, <2>1 DEF Live
<1>4. ASSUME NEW x \in F, NEW y \in Live(s), y.n < x.n PROVE y \in F
  <2>1. y \in Elems(queue[s]) \cup Elems(Awaited(s)) /\ y \notin Stored
    BY <1>0 DEF SinkOK, Live
  <2>2. x.n \in Nat /\ y.n \in Nat
    BY <1>0, <1>3, NumbersOf
  <2>3. CASE waiting[s] = NoConn
    BY <1>2, <2>1, <2>3
  <2>4. CASE waiting[s] # NoConn
    <3>1. y \notin Elems(queue[s])
      BY <1>0, <1>2, <1>4, <2>2, <2>4, AwaitedFirst
    <3> QED BY <1>2, <2>1, <2>4, <3>1
  <2> QED BY <2>3, <2>4
<1> HIDE DEF F
<1>5. PICK k \in 0..Len(P) : /\ Lists(SubSeq(P, 1, k), F)
                             /\ Lists(SubSeq(P, k + 1, Len(P)), Live(s) \ F)
  BY <1>0, <1>3, <1>4, ListCut
<1>6. Live(s)' = Live(s) \ F
  BY <1>1 DEF Live, F
<1>7. ASSUME NEW t \in Sinks, t # s PROVE Live(t)' = Live(t)
  <2>1. \A e \in Elems(InHand(s)) : e.sink = s
    BY <1>0, <1>2, InHands
  <2> QED BY <1>1, <1>7, <2>1 DEF Live
<1>8. PendingSeq(s)' = SubSeq(P, k + 1, Len(P))
  BY <1>5, <1>6, PendingNext
<1>9. \A t \in Sinks : t # s => PendingSeq(t)' = PendingSeq(t)
                                /\ Lists(PendingSeq(t), Live(t))'
  BY <1>7, PendingFrame
<1>10. ListInv'
  <2>1. Lists(PendingSeq(s), Live(s))'
    BY <1>5, <1>6, <1>8 DEF Lists, Ascending
  <2> QED BY <1>9, <2>1 DEF ListInv
<1>11. CASE F = {}
  <2>1. \A e \in dropped' : e \in dropped \/ e \in Stored
    BY <1>11 DEF F
  <2> QED BY <2>1, Stutters DEF Simulates
<1>12. CASE F # {}
  <2>1. k \in 1..Len(P)
    <3>1. k # 0
      <4>1. SUFFICES ASSUME k = 0 PROVE FALSE
        OBVIOUS
      <4>2. SubSeq(P, 1, k) \in Seq(F) /\ Len(SubSeq(P, 1, k)) = 0
        BY <1>0, <1>5, <4>1 DEF Lists
      <4>3. DOMAIN SubSeq(P, 1, k) = {}
        BY <4>2
      <4> QED BY <1>5, <1>12, <4>3 DEF Lists
    <3> QED BY <1>0, <3>1 DEF Lists
  <2>2. Delivery!Ran(SubSeq(P, 1, k)) = F
    BY <1>5 DEF Lists, Delivery!Ran
  <2>3. (dropped \ Stored)' = (dropped \ Stored) \cup F
    BY <1>1 DEF F
  <2>4. LogSeq' = LogSeq
    BY DEF LogSeq
  <2>5. [t \in Sinks |-> PendingSeq(t)]'
         = [[t \in Sinks |-> PendingSeq(t)] EXCEPT ![s] = Delivery!Drop(P, k)]
    BY <1>8, <1>9 DEF Delivery!Drop
  <2>6. Delivery!GiveUp(s)
    BY <2>1, <2>2, <2>3, <2>4, <2>5 DEF Delivery!GiveUp
  <2> QED BY <1>10, <2>6 DEF Simulates, Delivery!AbsNext
<1> QED BY <1>11, <1>12

LEMMA LoggedKnown ==
  ASSUME DeliveryInv, ListInv, NEW s \in Sinks,
         NEW x \in Delivery!Ran(LogSeq) \cup Delivery!Ran(PendingSeq(s)) \cup (dropped \ Stored)
  PROVE  x \in Emitted \cup {Plain}
<1>1. ASSUME NEW i \in DOMAIN LogSeq PROVE LogSeq[i] \in Stored
  <2>1. IInv
    BY DEF DeliveryInv
  <2>2. /\ LogSeq \in Seq(Event) /\ Len(LogSeq) = LastSeq + 1
        /\ \A r \in rows : r.ev = LogSeq[r.seq + 1] /\ r.seq \in 0..LastSeq
        /\ \A k \in 1..(LastSeq + 1) : \E r \in rows : r.seq = k - 1
    BY <2>1, LogFacts
  <2>3. DOMAIN LogSeq = 1..(LastSeq + 1) /\ LastSeq \in Nat \cup {-1}
    BY <2>1, <2>2 DEF IInv, RowsInv
  <2>4. PICK r \in rows : r.seq = i - 1
    BY <1>1, <2>2, <2>3
  <2>5. r.seq + 1 = i
    BY <1>1, <2>3, <2>4
  <2> QED BY <2>2, <2>5 DEF Stored
<1>2. \A i \in DOMAIN PendingSeq(s) : PendingSeq(s)[i] \in Emitted
  <2>1. PendingSeq(s) \in Seq(Live(s)) /\ Live(s) \subseteq Emitted
    BY DEF ListInv, Lists, Live
  <2> QED BY <2>1
<1> QED BY <1>1, <1>2 DEF Delivery!Ran, DeliveryInv, KnownEvents

LEMMA EmitSimulates ==
  ASSUME DeliveryInv, ListInv, NEW s \in Sinks, NEW bad \in BOOLEAN, Emit(s, bad)
  PROVE  ListInv' /\ Simulates
<1> DEFINE e == [sink |-> s, n |-> emitted[s] + 1]
           P == PendingSeq(s)
<1>0. /\ emitted[s] \in Nat /\ e \in AgentEvent
      /\ UNCHANGED <<status, waiting, conn, lock, rows, plains, dropped>>
      /\ Emitted' = Emitted \cup {e} /\ e \notin Emitted
  BY EmitFacts
<1>1. e.sink = s /\ e.n = emitted[s] + 1
  OBVIOUS
<1>2. Stored' = Stored /\ e \notin Stored /\ e \notin dropped
  BY <1>0, SameRows, PlainIsForeign DEF DeliveryInv, KnownEvents
<1> HIDE DEF e
<1>3. Live(s)' = Live(s) \cup {e}
  BY <1>0, <1>1, <1>2 DEF Live
<1>4. \A t \in Sinks : t # s => Live(t)' = Live(t)
  BY <1>0, <1>1, <1>2 DEF Live
<1>5. \A x \in Emitted : x.sink = s => x.n < e.n
  <2>1. \A x \in Emitted : x.n \in Nat /\ (x.sink = s => x.n <= emitted[s])
    BY DEF Emitted, AgentEvent
  <2> QED BY <1>0, <1>1, <2>1
<1>6. Lists(Append(P, e), Live(s)')
  <2>1. Lists(P, Live(s)) /\ OneSink(Live(s) \cup {e})
    BY <1>3, LiveOneSink DEF ListInv, OneSink
  <2>2. \A x \in Live(s) : x.n < e.n
    BY <1>5 DEF Live
  <2> QED BY <1>3, <2>1, <2>2, ListAppend
<1>7. PendingSeq(s)' = Append(P, e)
  BY <1>6, PendingNext
<1>8. \A t \in Sinks : t # s => PendingSeq(t)' = PendingSeq(t)
                                /\ Lists(PendingSeq(t), Live(t))'
  BY <1>4, PendingFrame
<1>9. ListInv'
  BY <1>6, <1>7, <1>8 DEF ListInv
<1>10. Delivery!Accept(s)
  <2>1. e.n \in 1..MaxEmit /\ e = Delivery!Ev(s, e.n)
    BY <1>0, <1>1 DEF AgentEvent, Delivery!Ev
  <2>2. \A x \in Delivery!Ran(LogSeq) \cup Delivery!Ran(P) \cup (dropped \ Stored) :
           x.sink = s => x.n < e.n
    <3>1. Plain.sink # s
      BY SinkAssumption DEF Plain
    <3> QED BY <1>5, <3>1, LoggedKnown
  <2>3. [t \in Sinks |-> PendingSeq(t)]'
         = [[t \in Sinks |-> PendingSeq(t)] EXCEPT ![s] = Append(P, e)]
    BY <1>7, <1>8
  <2>4. LogSeq' = LogSeq /\ (dropped \ Stored)' = dropped \ Stored
    BY <1>0, <1>2 DEF LogSeq
  <2> QED BY <2>1, <2>2, <2>3, <2>4 DEF Delivery!Accept
<1> QED BY <1>9, <1>10 DEF Simulates, Delivery!AbsNext

\* An event of the browser or of server code enters the log.
LEMMA ForeignSimulates ==
  ASSUME DeliveryInv, IInv', ListInv, UNCHANGED <<emitted, dropped>>, NEW row,
         rows' = rows \cup {row}, row.seq = LastSeq + 1, row.ev = Plain,
         LastSeq' = LastSeq + 1
  PROVE  ListInv' /\ Simulates
<1>1. row.seq = LastSeq + 1 /\ row.ev = Plain /\ rows' = rows \cup {row}
  OBVIOUS
<1>2. Stored' = Stored \cup {Plain}
  BY <1>1 DEF Stored
<1>3. Emitted' = Emitted
  BY SameEmitted
<1>4. \A e \in Emitted : e # Plain
  BY PlainIsForeign DEF Emitted
<1>5. \A s \in Sinks : Live(s)' = Live(s)
  BY <1>2, <1>3, <1>4 DEF Live
<1>6. \A s \in Sinks : PendingSeq(s)' = PendingSeq(s) /\ Lists(PendingSeq(s), Live(s))'
  BY <1>5, PendingFrame
<1>7. (dropped \ Stored)' = dropped \ Stored
  BY <1>2, <1>4 DEF DeliveryInv, KnownEvents
<1>8. [s \in Sinks |-> PendingSeq(s)]' = [s \in Sinks |-> PendingSeq(s)]
  BY <1>6
<1>9. LogSeq' = Append(LogSeq, Plain)
  <2> DEFINE q == <<Plain>>
  <2>1. q \in Seq(Event) /\ Len(q) = 1 /\ q[1] = Plain /\ Plain \in Event
    BY DEF Event
  <2>2. IInv /\ LogSeq \in Seq(Event) /\ LastSeq \in Int
    BY LogFacts DEF DeliveryInv, IInv, RowsInv
  <2> HIDE DEF q
  <2>3. \A r \in {row} : r.seq > LastSeq /\ r.ev = q[r.seq - LastSeq]
    BY <1>1, <2>1, <2>2
  <2>4. LastSeq' = LastSeq + Len(q)
    BY <2>1
  <2>5. LogSeq' = LogSeq \o q
    <3> DEFINE R == {row}
    <3>1. rows' = rows \cup R /\ \A r \in R : r.seq > LastSeq /\ r.ev = q[r.seq - LastSeq]
      BY <1>1, <2>3
    <3> HIDE DEF R
    <3> QED BY <2>1, <2>2, <2>4, <3>1, LogGrows
  <2> QED BY <2>1, <2>2, <2>5, AppendIsConcat DEF q
<1>10. Delivery!PublishForeign
  BY <1>7, <1>8, <1>9 DEF Delivery!PublishForeign
<1> QED BY <1>6, <1>10 DEF ListInv, Simulates, Delivery!AbsNext

\* What a commit adds, and where.
LEMMA CommitFacts ==
  ASSUME DeliveryInv, IInv', NEW c \in Conns, Commit(c)
  PROVE  LET req == conn[c] IN
         /\ req.stage = "locked" /\ req \in Request /\ TxnOK(req)
         /\ req.pos > Len(req.batch)
         /\ OwnBatch(req) /\ BatchPrefix(req) /\ TxnDone(req)
         /\ UNCHANGED sinkVars
         /\ LastSeq \in Nat \cup {-1} /\ LastSeq' = req.next - 1
         /\ req.next \in Int /\ req.next >= LastSeq + 1
         /\ SeqsOf(req.staged) = (LastSeq + 1)..(req.next - 1)
         /\ rows' = rows \cup req.staged
         /\ conn'[c] = Answer(req, "committed")
         /\ \A d \in Conns : d # c => conn'[d] = conn[d]
<1> DEFINE req == conn[c]
<1>0. /\ req.stage = "locked" /\ req \in Request /\ TxnOK(req)
      /\ req.pos > Len(req.batch)
      /\ OwnBatch(req) /\ BatchPrefix(req) /\ TxnDone(req)
      /\ UNCHANGED sinkVars
  BY DEF DeliveryInv, IInv, TypeOK, Commit, TxnInv, ConnOK
<1>1. /\ LastSeq \in Nat \cup {-1} /\ SeqsOf(rows) = 0..LastSeq
      /\ req.next \in Int /\ req.next >= LastSeq + 1
      /\ SeqsOf(req.staged) = (LastSeq + 1)..(req.next - 1)
  BY <1>0 DEF DeliveryInv, IInv, RowsInv, TxnOK, Request
<1>2. SeqsOf(req.staged) \cap SeqsOf(rows) = {}
  BY <1>1
<1>3. rows' = rows \cup req.staged /\ conn' = [conn EXCEPT ![c] = Answer(req, "committed")]
  BY <1>2 DEF Commit
<1>4. /\ conn'[c] = Answer(req, "committed")
      /\ \A d \in Conns : d # c => conn'[d] = conn[d]
  BY <1>3 DEF DeliveryInv, IInv, TypeOK
<1>5. LastSeq' = req.next - 1
  <2>1. SeqsOf(rows') = SeqsOf(rows) \cup SeqsOf(req.staged)
    BY <1>3, SeqsOfUnion
  <2>2. SeqsOf(rows') = 0..(req.next - 1) /\ req.next - 1 \in Nat \cup {-1}
    BY <1>1, <2>1
  <2> QED BY <2>2, LastOfInterval DEF LastSeq
<1> QED BY <1>0, <1>1, <1>3, <1>4, <1>5

\* The events a commit adds, in the order of their seq numbers.
Added(c) == [j \in 1..(conn[c].next - 1 - LastSeq) |->
               (CHOOSE r \in conn[c].staged : r.seq = LastSeq + j).ev]

LEMMA AddedFacts ==
  ASSUME DeliveryInv, IInv', NEW c \in Conns, Commit(c)
  PROVE  /\ Len(Added(c)) = conn[c].next - 1 - LastSeq
         /\ Added(c) \in [1..(conn[c].next - 1 - LastSeq) -> Event]
         /\ \A r \in conn[c].staged : r.seq - LastSeq \in DOMAIN Added(c)
                                      /\ r.ev = Added(c)[r.seq - LastSeq]
         /\ \A j \in DOMAIN Added(c) : \E r \in conn[c].staged :
              r.seq = LastSeq + j /\ r.ev = Added(c)[j]
<1> DEFINE req == conn[c]
           N == req.next - 1 - LastSeq
           At(j) == CHOOSE r \in req.staged : r.seq = LastSeq + j
<1>0. /\ LastSeq \in Int /\ req.next \in Int /\ req.next >= LastSeq + 1
      /\ SeqsOf(req.staged) = (LastSeq + 1)..(req.next - 1)
      /\ req.staged \subseteq Row /\ TxnOK(req)
  BY CommitFacts DEF Request
<1>1. N \in Nat
  BY <1>0
<1>2. \A j \in 1..N : At(j) \in req.staged /\ At(j).seq = LastSeq + j
  <2> SUFFICES ASSUME NEW j \in 1..N PROVE \E r \in req.staged : r.seq = LastSeq + j
    OBVIOUS
  <2>1. LastSeq + j \in SeqsOf(req.staged)
    BY <1>0
  <2> QED BY <2>1 DEF SeqsOf
<1>3. \A r \in req.staged : r.seq - LastSeq \in 1..N /\ LastSeq + (r.seq - LastSeq) = r.seq
  <2>1. \A r \in req.staged : r.seq \in (LastSeq + 1)..(req.next - 1)
    BY <1>0 DEF SeqsOf
  <2> QED BY <1>0, <2>1
<1>4. \A r \in req.staged : At(r.seq - LastSeq) = r
  BY <1>0, <1>2, <1>3 DEF TxnOK
<1>5. Added(c) = [j \in 1..N |-> At(j).ev]
  BY DEF Added
<1>6. \A j \in 1..N : At(j).ev \in Event
  BY <1>0, <1>2 DEF Row
<1> HIDE DEF At, N
<1>7. Added(c) \in [1..N -> Event] /\ Len(Added(c)) = N /\ DOMAIN Added(c) = 1..N
  BY <1>1, <1>5, <1>6
<1>8. \A r \in req.staged : r.seq - LastSeq \in DOMAIN Added(c)
                             /\ r.ev = Added(c)[r.seq - LastSeq]
  BY <1>3, <1>4, <1>5, <1>7
<1>9. \A j \in DOMAIN Added(c) : \E r \in req.staged :
        r.seq = LastSeq + j /\ r.ev = Added(c)[j]
  BY <1>2, <1>5, <1>7
<1> QED BY <1>7, <1>8, <1>9 DEF N

\* EventDelivery counts as this module does.
LEMMA SameSize == ASSUME NEW S PROVE Delivery!Cardinality(S) = Cardinality(S)
BY DEF Delivery!Cardinality, Cardinality

\* The unstored events of an agent's batch are added in the order of their emission.
LEMMA AddedLists ==
  ASSUME DeliveryInv, IInv', NEW c \in Conns, Commit(c), NEW s \in Sinks,
         Ascending(conn[c].batch),
         \A i \in DOMAIN conn[c].batch : conn[c].batch[i] \in Emitted /\ conn[c].batch[i].sink = s
  PROVE  Lists(Added(c), Unstored(conn[c])) /\ OneSink(Unstored(conn[c]))
<1> DEFINE req == conn[c]
           q == Added(c)
           U == Unstored(req)
<1>0. /\ req \in Request /\ TxnOK(req) /\ TxnDone(req) /\ req.pos > Len(req.batch)
      /\ LastSeq \in Int
  BY CommitFacts
<1>1. /\ \A r \in req.staged : r.seq - LastSeq \in DOMAIN q /\ r.ev = q[r.seq - LastSeq]
      /\ \A j \in DOMAIN q : \E r \in req.staged : r.seq = LastSeq + j /\ r.ev = q[j]
      /\ DOMAIN q = 1..Len(q) /\ Len(q) \in Nat /\ q \in [1..Len(q) -> Event]
  <2>1. conn[c].next - 1 - LastSeq \in Nat
    BY CommitFacts
  <2> QED BY <2>1, AddedFacts
<1>2. /\ DOMAIN req.batch = 1..Len(req.batch) /\ Len(req.batch) \in Nat /\ req.pos \in Nat
      /\ \A r \in req.staged : r.seq \in Nat
  BY <1>0 DEF Request, Row
<1>3. \A i \in DOMAIN req.batch : /\ req.batch[i] \in AgentEvent /\ req.batch[i] # Plain
                                  /\ req.batch[i].sink = s /\ req.batch[i].n \in Nat
  BY PlainIsForeign DEF Emitted, AgentEvent
<1>4. \A i \in DOMAIN req.batch : req.batch[i] \in req.seen <=> req.batch[i] \in Stored
  BY <1>0, <1>3 DEF TxnOK, Seen, Elems
<1>5. OneSink(U)
  <2>1. \A e \in U : e \in AgentEvent /\ e.sink = s
    BY <1>3 DEF Unstored, Elems
  <2> QED BY <2>1 DEF OneSink
<1>6. \A r \in req.staged : /\ r.ev \in U /\ r.ev # Plain
                            /\ \E i \in DOMAIN req.batch : r.ev = req.batch[i]
  <2> SUFFICES ASSUME NEW r \in req.staged
               PROVE  /\ r.ev \in U /\ r.ev # Plain
                      /\ \E i \in DOMAIN req.batch : r.ev = req.batch[i]
    OBVIOUS
  <2>1. PICK i \in DOMAIN req.batch : r.ev = req.batch[i] /\ r.ev \notin req.seen
    BY <1>0 DEF TxnOK
  <2>2. r.ev \in Elems(req.batch) /\ r.ev \notin Stored /\ r.ev # Plain
    BY <1>3, <1>4, <2>1 DEF Elems
  <2> QED BY <2>1, <2>2 DEF Unstored
<1>7. \A r1, r2 \in req.staged : r1.ev = r2.ev => r1 = r2
  BY <1>0, <1>6 DEF TxnOK
<1>8. ASSUME NEW i \in DOMAIN req.batch, NEW m, Dealt(req, i, m), req.batch[i] \notin Stored
      PROVE  \E r \in req.staged : r.ev = req.batch[i] /\ r.seq < m
  BY <1>4, <1>8 DEF Dealt
\* A row staged earlier is of an earlier event.
<1>9. ASSUME NEW r1 \in req.staged, NEW r2 \in req.staged, r1.seq < r2.seq
      PROVE  r1.ev.n < r2.ev.n
  <2>1. PICK i1 \in DOMAIN req.batch :
               r1.ev = req.batch[i1] /\ \A j \in 1..i1 - 1 : Dealt(req, j, r1.seq)
    BY <1>0 DEF TxnDone
  <2>2. PICK i2 \in DOMAIN req.batch :
               r2.ev = req.batch[i2] /\ \A j \in 1..i2 - 1 : Dealt(req, j, r2.seq)
    BY <1>0 DEF TxnDone
  <2>3. CASE i1 < i2
    BY <2>1, <2>2, <2>3 DEF Ascending
  <2>4. CASE i1 = i2
    <3>1. r1 = r2
      BY <1>7, <2>1, <2>2, <2>4
    <3> QED BY <1>2, <1>9, <3>1
  <2>5. CASE i2 < i1
    <3>1. i2 \in 1..i1 - 1
      BY <1>2, <2>5
    <3>2. Dealt(req, i2, r1.seq) /\ req.batch[i2] \notin Stored
      BY <1>6, <2>1, <2>2, <3>1 DEF Unstored
    <3>3. PICK r \in req.staged : r.ev = req.batch[i2] /\ r.seq < r1.seq
      BY <1>8, <3>2
    <3>4. r = r2
      BY <1>7, <2>2, <3>3
    <3> QED BY <1>2, <1>9, <3>3, <3>4
  <2> QED BY <1>2, <2>3, <2>4, <2>5
<1>10. q \in Seq(U)
  <2>1. \A j \in 1..Len(q) : q[j] \in U
    BY <1>1, <1>6
  <2> QED BY <1>1, <2>1
<1>11. Ascending(q)
  <2> SUFFICES ASSUME NEW i \in DOMAIN q, NEW j \in DOMAIN q, i < j PROVE q[i].n < q[j].n
    BY DEF Ascending
  <2>1. PICK r1 \in req.staged : r1.seq = LastSeq + i /\ r1.ev = q[i]
    BY <1>1
  <2>2. PICK r2 \in req.staged : r2.seq = LastSeq + j /\ r2.ev = q[j]
    BY <1>1
  <2>3. r1.seq < r2.seq
    BY <1>0, <1>1, <2>1, <2>2
  <2> QED BY <1>9, <2>1, <2>2, <2>3
<1>12. ASSUME NEW e \in U PROVE \E j \in DOMAIN q : q[j] = e
  <2>1. PICK i \in DOMAIN req.batch : e = req.batch[i] /\ e \notin Stored
    BY DEF Unstored, Elems
  <2>2. Dealt(req, i, req.next)
    BY <1>0, <1>2, <2>1 DEF TxnDone
  <2>3. PICK r \in req.staged : r.ev = e
    BY <1>8, <2>1, <2>2
  <2> QED BY <1>1, <2>3
<1> QED BY <1>5, <1>10, <1>11, <1>12 DEF Lists

\* A commit of an agent's batch publishes the oldest of its sink's live events, or
\* publishes late what the sink had given up, or adds nothing.
LEMMA AgentCommitSimulates ==
  ASSUME RefInv, IInv', NEW c \in Conns, Commit(c), NEW s \in Sinks,
         Ascending(conn[c].batch),
         \A i \in DOMAIN conn[c].batch : conn[c].batch[i] \in Emitted /\ conn[c].batch[i].sink = s
  PROVE  ListInv' /\ Simulates
<1> DEFINE req == conn[c]
           q == Added(c)
           U == Unstored(req)
           P == PendingSeq(s)
<1>0. /\ DeliveryInv /\ FatesInv /\ ListInv /\ IInv
      /\ BatchPrefix(req) /\ OneFate(req) /\ TxnDone(req) /\ TxnOK(req)
      /\ rows' = rows \cup req.staged /\ LastSeq' = req.next - 1
      /\ LastSeq \in Int /\ req.next \in Int
      /\ UNCHANGED <<status, emitted, poison, queue, waiting, dropped>>
  BY CommitFacts DEF RefInv, FatesInv, DeliveryInv, sinkVars
<1>1. Lists(q, U) /\ OneSink(U)
  BY <1>0, AddedLists
<1>2. /\ \A r \in req.staged : r.seq - LastSeq \in DOMAIN q /\ r.ev = q[r.seq - LastSeq]
      /\ \A j \in DOMAIN q : \E r \in req.staged : r.ev = q[j]
      /\ Len(q) = req.next - 1 - LastSeq
  BY <1>0, AddedFacts
<1>3. Emitted' = Emitted /\ U \subseteq Emitted /\ U \cap Stored = {}
      /\ \A e \in U : e.sink = s
  <2>1. Emitted' = Emitted
    BY <1>0, SameEmitted
  <2> QED BY <2>1 DEF Unstored, Elems
<1>4. Stored' = Stored \cup U
  <2>1. \A r \in req.staged : r.ev \in U
    <3>1. q \in Seq(U) /\ \A j \in DOMAIN q : q[j] \in U
      BY <1>1 DEF Lists
    <3> QED BY <1>2, <3>1
  <2>2. \A e \in U : \E r \in req.staged : r.ev = e
    BY <1>1, <1>2 DEF Lists
  <2>3. Stored' = Stored \cup {r.ev : r \in req.staged}
    BY <1>0 DEF Stored
  <2> HIDE DEF U
  <2>4. {r.ev : r \in req.staged} = U
    BY <2>1, <2>2
  <2> QED BY <2>3, <2>4
<1> HIDE DEF U, q
<1>5. LogSeq' = LogSeq \o q
  <2>1. q \in Seq(Event)
    <3>1. Emitted \subseteq Event
      BY DEF Emitted, Event
    <3>2. q \in Seq(U) /\ U \subseteq Event
      BY <1>1, <1>3, <3>1 DEF Lists
    <3> QED BY <3>2
  <2>2. LastSeq' = LastSeq + Len(q)
    BY <1>0, <1>2
  <2>3. \A r \in req.staged : r.seq > LastSeq /\ r.ev = q[r.seq - LastSeq]
    <3>1. \A r \in req.staged : r.seq - LastSeq \in 1..Len(q) /\ r.seq \in Nat
      <4>1. req.staged \subseteq Row
        BY CommitFacts, <1>0 DEF Request
      <4>2. DOMAIN q = 1..Len(q)
        BY <2>1
      <4> QED BY <1>2, <4>1, <4>2 DEF Row
    <3>2. LastSeq \in Int
      BY <1>0
    <3>3. \A r \in req.staged : r.seq > LastSeq
      BY <3>1, <3>2
    <3> QED BY <1>2, <3>3
  <2> QED BY <1>0, <2>1, <2>2, <2>3, LogGrows
<1>6. \A t \in Sinks : t # s => Live(t)' = Live(t)
  BY <1>0, <1>3, <1>4 DEF Live
<1>7. \A t \in Sinks : t # s => PendingSeq(t)' = PendingSeq(t)
                                /\ Lists(PendingSeq(t), Live(t))'
  BY <1>0, <1>6, PendingFrame
<1>8. Live(s)' = Live(s) \ U
  BY <1>0, <1>3, <1>4 DEF Live
<1>9. CASE U \subseteq dropped
  <2>1. Live(s)' = Live(s)
    BY <1>8, <1>9 DEF Live
  <2>2. PendingSeq(s)' = PendingSeq(s) /\ Lists(PendingSeq(s), Live(s))'
    BY <1>0, <2>1, PendingFrame
  <2>3. [t \in Sinks |-> PendingSeq(t)]' = [t \in Sinks |-> PendingSeq(t)]
    BY <1>7, <2>2
  <2>4. ListInv'
    BY <1>7, <2>2 DEF ListInv
  <2>5. CASE U = {}
    <3>1. Stored' = Stored /\ LogSeq' = LogSeq
      <4>1. q \in Seq({}) /\ Len(q) = 0
        BY <1>1, <2>5 DEF Lists
      <4>2. q = <<>>
        BY <4>1
      <4>3. LogSeq \in Seq(Event)
        BY <1>0, LogFacts
      <4> QED BY <1>4, <1>5, <2>5, <4>2, <4>3, EmptyConcat
    <3>2. UNCHANGED Delivery!absVars
      BY <1>0, <2>3, <3>1 DEF Delivery!absVars
    <3> QED BY <2>4, <3>2 DEF Simulates
  <2>6. CASE U # {}
    <3>1. U \in (SUBSET (dropped \ Stored)) \ {{}}
      BY <1>3, <1>9, <2>6
    <3>2. q \in Delivery!InOrder(U)
      <4>1. Cardinality(U) = Len(q) /\ q \in [1..Len(q) -> U] /\ Ascending(q)
        BY <1>1, ListSize DEF Lists
      <4>2. \A i, j \in DOMAIN q : q[i].sink = q[j].sink
        BY <1>3, <4>1
      <4>3. \A i, j \in DOMAIN q : i < j => q[i].sink = q[j].sink /\ q[i].n < q[j].n
        BY <4>1, <4>2 DEF Ascending
      <4>4. q \in [1..Cardinality(U) -> U]
        BY <4>1
      <4> QED BY <4>3, <4>4, SameSize DEF Delivery!InOrder
    <3>3. (dropped \ Stored)' = (dropped \ Stored) \ U
      BY <1>0, <1>4
    <3>4. Delivery!PublishLate
      BY <1>5, <2>3, <3>1, <3>2, <3>3 DEF Delivery!PublishLate
    <3> QED BY <2>4, <3>4 DEF Simulates, Delivery!AbsNext
  <2> QED BY <2>5, <2>6
<1>10. CASE U \cap dropped = {} /\ U # {}
  <2>1. U \subseteq Live(s)
    BY <1>3, <1>10 DEF Live
  <2>2. ASSUME NEW x \in U, NEW y \in Live(s), y.n < x.n PROVE y \in U
    <3>1. PICK i \in DOMAIN req.batch : req.batch[i] = x
      BY DEF U, Unstored, Elems
    <3>2. /\ x \in AgentEvent /\ x.sink = s /\ x # Plain
          /\ y \in AgentEvent /\ y.sink = s /\ y # Plain
          /\ y \notin dropped /\ y \notin Stored
      BY <1>3, PlainIsForeign DEF Live, Emitted
    <3>3. y \in Earlier(x)
      <4>1. y.n \in 1..(x.n - 1) /\ y = [sink |-> s, n |-> y.n]
        <5>1. x.n \in Nat /\ y.n \in Nat /\ y.n >= 1
          BY <3>2 DEF AgentEvent
        <5>2. y = [sink |-> s, n |-> y.n]
          BY <3>2 DEF AgentEvent
        <5> QED BY <2>2, <5>1, <5>2
      <4> QED BY <3>2, <4>1 DEF Earlier
    <3>4. PICK j \in 1..i - 1 : req.batch[j] = y
      BY <1>0, <3>1, <3>2, <3>3 DEF BatchPrefix
    <3>5. j \in DOMAIN req.batch
      <4>1. req \in Request
        BY <1>0 DEF IInv, TypeOK
      <4>2. DOMAIN req.batch = 1..Len(req.batch) /\ Len(req.batch) \in Nat
        BY <4>1 DEF Request
      <4> QED BY <4>2
    <3> QED BY <3>2, <3>4, <3>5 DEF U, Unstored, Elems
  <2>3. Lists(P, Live(s)) /\ OneSink(Live(s)) /\ P \in Seq(Live(s)) /\ Len(P) \in Nat
    BY <1>0, LiveOneSink DEF ListInv, Lists
  <2>4. PICK k \in 0..Len(P) : /\ Lists(SubSeq(P, 1, k), U)
                               /\ Lists(SubSeq(P, k + 1, Len(P)), Live(s) \ U)
    BY <2>1, <2>2, <2>3, ListCut
  <2>5. q = SubSeq(P, 1, k)
    BY <1>1, <2>4, ListUnique
  <2>6. k \in 1..Len(P)
    <3>1. k # 0
      <4>1. SUFFICES ASSUME k = 0 PROVE FALSE
        OBVIOUS
      <4>2. SubSeq(P, 1, k) \in Seq(U) /\ Len(SubSeq(P, 1, k)) = 0
        BY <2>3, <2>4, <4>1 DEF Lists
      <4>3. DOMAIN SubSeq(P, 1, k) = {}
        BY <4>2
      <4> QED BY <1>10, <2>4, <4>3 DEF Lists
    <3> QED BY <2>3, <3>1
  <2>7. PendingSeq(s)' = SubSeq(P, k + 1, Len(P))
    BY <1>8, <2>4, PendingNext
  <2>8. ListInv'
    <3>1. Lists(PendingSeq(s), Live(s))'
      BY <1>8, <2>4, <2>7 DEF Lists, Ascending
    <3> QED BY <1>7, <3>1 DEF ListInv
  <2>9. [t \in Sinks |-> PendingSeq(t)]'
         = [[t \in Sinks |-> PendingSeq(t)] EXCEPT ![s] = Delivery!Drop(P, k)]
    BY <1>7, <2>7 DEF Delivery!Drop
  <2>10. (dropped \ Stored)' = dropped \ Stored
    BY <1>0, <1>4, <1>10
  <2>11. Delivery!Publish(s)
    BY <1>5, <2>5, <2>6, <2>9, <2>10 DEF Delivery!Publish
  <2> QED BY <2>8, <2>11 DEF Simulates, Delivery!AbsNext
<1>11. U \subseteq dropped \/ U \cap dropped = {}
  BY <1>0 DEF OneFate, U
<1> QED BY <1>9, <1>10, <1>11

\* A commit of a beacon adds one row, or none.
LEMMA BeaconCommitSimulates ==
  ASSUME RefInv, IInv', NEW c \in Conns, Commit(c), conn[c].batch = <<Plain>>
  PROVE  ListInv' /\ Simulates
<1> DEFINE req == conn[c]
<1>0. /\ DeliveryInv /\ ListInv /\ TxnOK(req) /\ SeqsUsed(req) /\ req \in Request
      /\ rows' = rows \cup req.staged /\ LastSeq' = req.next - 1
      /\ LastSeq \in Int /\ req.next \in Int /\ req.next >= LastSeq + 1
      /\ SeqsOf(req.staged) = (LastSeq + 1)..(req.next - 1)
      /\ UNCHANGED <<emitted, dropped>>
  BY CommitFacts DEF RefInv, FatesInv, sinkVars
<1>1. Len(req.batch) = 1 /\ \A i \in DOMAIN req.batch : req.batch[i] = Plain
  OBVIOUS
<1>2. req.next = LastSeq + 1 \/ req.next = LastSeq + 2
  <2>1. req.pos \in Nat
    BY <1>0 DEF Request
  <2>2. req.pos <= 2 /\ req.next <= LastSeq + req.pos
    BY <1>0, <1>1 DEF SeqsUsed
  <2> QED BY <1>0, <2>1, <2>2
<1>3. \A r \in req.staged : r.seq \in (LastSeq + 1)..(req.next - 1) /\ r.ev = Plain
  BY <1>0, <1>1 DEF SeqsOf, TxnOK
<1>4. CASE req.next = LastSeq + 1
  <2>1. req.staged = {}
    BY <1>0, <1>3, <1>4
  <2> QED BY <1>0, <2>1, Stutters DEF Simulates
<1>5. CASE req.next = LastSeq + 2
  <2>1. LastSeq + 1 \in SeqsOf(req.staged)
    BY <1>0, <1>5
  <2>2. PICK row \in req.staged : row.seq = LastSeq + 1
    BY <2>1 DEF SeqsOf
  <2>3. \A r \in req.staged : r.seq = row.seq
    BY <1>0, <1>3, <1>5, <2>2
  <2>4. req.staged = {row}
    BY <1>0, <2>2, <2>3 DEF TxnOK
  <2>5. rows' = rows \cup {row} /\ row.ev = Plain /\ LastSeq' = LastSeq + 1
    BY <1>0, <1>3, <1>5, <2>4
  <2> QED BY <1>0, <2>2, <2>5, ForeignSimulates
<1> QED BY <1>2, <1>4, <1>5

LEMMA CommitSimulates ==
  ASSUME RefInv, IInv', NEW c \in Conns, Commit(c)
  PROVE  ListInv' /\ Simulates
<1>1. OwnBatch(conn[c])
  BY CommitFacts DEF RefInv
<1> QED BY <1>1, AgentCommitSimulates, BeaconCommitSimulates DEF OwnBatch

-----------------------------------------------------------------------------
(* Every step keeps what the refinement rests on *)

\* The frame of a sink's step.
OthersSame(s) ==
  \A t \in Sinks : t # s => /\ status'[t] = status[t] /\ queue'[t] = queue[t]
                            /\ waiting'[t] = waiting[t] /\ Awaited(t)' = Awaited(t)

LEMMA SinkFates ==
  ASSUME DeliveryInv, FatesInv, NEW s \in Sinks, UNCHANGED rows, Onward, OthersSame(s),
         Steady(s), \A e \in dropped' : e \in dropped \/ e \in Elems(InHand(s)),
         \A c \in Conns : Settled(c) \/ FateOK(c)'
  PROVE  FatesInv'
<1>1. \A e \in Elems(InHand(s)) : e.sink = s
  <2>1. IInv
    BY DEF DeliveryInv
  <2> QED BY <2>1, InHands DEF InHand
<1>2. \A t \in Sinks : t # s => Steady(t)
  BY <1>1, SteadyFrame DEF OthersSame
<1> QED BY <1>2, FatesFrame

\* A step in which a living sink gives up what it has in hand.
LEMMA GiveUpStep ==
  ASSUME RefInv, NEW s \in Sinks, status[s] \in {"open", "closing"},
         UNCHANGED <<rows, emitted>>, dropped' = dropped \cup Elems(InHand(s)),
         OthersSame(s), \A c \in Conns : Settled(c)
  PROVE  FatesInv' /\ ListInv' /\ Simulates
<1>1. ListInv' /\ Simulates
  BY GivesUp DEF RefInv
<1>2. Onward
  BY SameRows, SameEmitted DEF Onward
<1>3. Steady(s)
  BY DEF Steady
<1>4. FatesInv'
  BY <1>2, <1>3, SinkFates DEF RefInv
<1> QED BY <1>1, <1>4

\* A step in which a sink neither emits nor gives up anything.
LEMMA QuietFates ==
  ASSUME RefInv, NEW s \in Sinks, UNCHANGED <<rows, emitted, dropped>>, OthersSame(s),
         Steady(s), \A c \in Conns : Settled(c) \/ FateOK(c)'
  PROVE  FatesInv' /\ ListInv' /\ Simulates
<1>1. ListInv' /\ Simulates
  BY Stutters DEF RefInv, Simulates
<1>2. Onward
  BY SameRows, SameEmitted DEF Onward
<1>3. FatesInv'
  BY <1>2, SinkFates DEF RefInv
<1> QED BY <1>1, <1>3

LEMMA EmitRefines ==
  ASSUME RefInv, NEW s \in Sinks, NEW bad \in BOOLEAN, Emit(s, bad)
  PROVE  FatesInv' /\ ListInv' /\ Simulates
<1> DEFINE e == [sink |-> s, n |-> emitted[s] + 1]
<1>0. /\ IInv /\ e \in AgentEvent
      /\ UNCHANGED <<status, waiting, conn, lock, rows, plains, dropped>>
      /\ queue'[s] = Append(queue[s], e)
      /\ \A t \in Sinks : t # s => queue'[t] = queue[t]
      /\ Emitted' = Emitted \cup {e}
  BY EmitFacts DEF RefInv
<1> HIDE DEF e
<1>1. ListInv' /\ Simulates
  BY EmitSimulates DEF RefInv
<1>2. \A t \in Sinks : Awaited(t)' = Awaited(t)
  BY <1>0 DEF Awaited
<1>3. Onward /\ OthersSame(s) /\ dropped' = dropped
  BY <1>0, <1>2, SameRows DEF Onward, OthersSame
<1>4. Steady(s)
  <2>1. status[s] # "crashed" /\ queue[s] \in Seq(AgentEvent)
    BY <1>0, InHands DEF Emit
  <2>2. \A x \in Elems(queue[s]) : x \in Elems(queue'[s])
    <3>1. \A i \in DOMAIN queue[s] : i \in DOMAIN queue'[s] /\ queue'[s][i] = queue[s][i]
      BY <1>0, <2>1
    <3> QED BY <3>1 DEF Elems
  <2>3. CASE waiting[s] = NoConn
    <3>1. InHand(s) = queue[s] /\ InHand(s)' = queue'[s]
      BY <1>0, <2>3 DEF InHand
    <3>2. Elems(InHand(s))' = Elems(queue'[s])
      BY <3>1 DEF Elems
    <3> QED BY <1>3, <2>1, <2>2, <3>1, <3>2 DEF Steady
  <2>4. CASE waiting[s] # NoConn
    <3>1. InHand(s) = Awaited(s) /\ InHand(s)' = Awaited(s)
      BY <1>0, <1>2, <2>4 DEF InHand
    <3>2. Elems(InHand(s))' = Elems(InHand(s))
      BY <3>1 DEF Elems
    <3> QED BY <1>3, <2>1, <3>2 DEF Steady
  <2> QED BY <2>3, <2>4
<1>5. \A c \in Conns : Settled(c)
  BY <1>0, UntouchedSettled
<1>6. FatesInv'
  BY <1>0, <1>3, <1>4, <1>5, SinkFates DEF RefInv
<1> QED BY <1>1, <1>6

LEMMA PostRefines ==
  ASSUME RefInv, NEW s \in Sinks, NEW c \in Conns, Post(s, c)
  PROVE  FatesInv' /\ ListInv' /\ Simulates
<1> DEFINE q == queue[s]
<1>0. /\ IInv /\ SinkOK(s) /\ waiting[s] = NoConn /\ status[s] \in {"open", "closing"}
      /\ UNCHANGED <<status, emitted, poison, lock, rows, plains, dropped>>
      /\ waiting'[s] = c
      /\ \A t \in Sinks : t # s => queue'[t] = queue[t] /\ waiting'[t] = waiting[t]
      /\ conn'[c] = [Free EXCEPT !.stage = "sent", !.client = s, !.batch = q]
      /\ \A d \in Conns : d # c => conn'[d] = conn[d]
      /\ conn[c].stage = "free"
  BY DEF RefInv, DeliveryInv, IInv, TypeOK, Post
<1>1. conn'[c].stage = "sent" /\ conn'[c].batch = q
  BY <1>0 DEF Free
<1>2. /\ q \in Seq(AgentEvent) /\ Unsettled(s) = q
      /\ \A e \in Elems(q) : e.sink = s
  BY <1>0, InHands
<1>3. /\ \A t \in Sinks : t # s => Awaited(t)' = Awaited(t)
      /\ Awaited(s)' = q
  <2>1. Awaited(s)' = q
    BY <1>0, <1>1, ConnAssumption DEF Awaited
  <2>2. ASSUME NEW t \in Sinks, t # s PROVE Awaited(t)' = Awaited(t)
    <3>1. waiting[t] # c
      BY <1>0, ConnAssumption DEF IInv, WaitInv
    <3>2. waiting[t] \in Conns \cup {NoConn}
      BY <1>0 DEF IInv, TypeOK
    <3> QED BY <1>0, <2>2, <3>1, <3>2 DEF Awaited
  <2> QED BY <2>1, <2>2
<1>4. OthersSame(s)
  BY <1>0, <1>3 DEF OthersSame
<1>5. InHand(s) = q /\ Elems(InHand(s))' = Elems(q)
  <2>1. InHand(s)' = q
    BY <1>0, <1>3, ConnAssumption DEF InHand
  <2> QED BY <1>0, <2>1 DEF InHand, Elems
<1>6. Steady(s)
  BY <1>0, <1>5 DEF Steady
<1>7. FateOK(c)'
  <2>1. \A e \in Elems(q) : e \in AgentEvent /\ e \notin dropped /\ e.sink = s
    BY <1>0, <1>2 DEF SinkOK, Elems
  <2>2. \A e \in Elems(q) : e \in Held'
    BY <1>5, <2>1, HeldNext
  <2>3. Unstored(conn[c])' \subseteq Elems(q)
    BY <1>1 DEF Unstored, Elems
  <2>4. OneFate(conn[c])'
    BY <1>0, <2>1, <2>2, <2>3 DEF OneFate
  <2> QED BY <1>1, <2>4 DEF FateOK
<1>8. \A d \in Conns : d # c => Settled(d)
  BY <1>0, UntouchedSettled
<1> QED BY <1>0, <1>4, <1>6, <1>7, <1>8, QuietFates

LEMMA DropPoisonRefines ==
  ASSUME RefInv, NEW s \in Sinks, DropPoison(s)
  PROVE  FatesInv' /\ ListInv' /\ Simulates
<1>1. /\ status[s] \in {"open", "closing"} /\ waiting[s] = NoConn
      /\ UNCHANGED <<status, emitted, poison, waiting, conn, lock, rows, plains>>
      /\ dropped' = dropped \cup Elems(queue[s])
      /\ \A t \in Sinks : t # s => queue'[t] = queue[t]
  BY DEF RefInv, DeliveryInv, IInv, TypeOK, DropPoison
<1>2. InHand(s) = queue[s]
  BY <1>1 DEF InHand
<1>3. OthersSame(s)
  BY <1>1 DEF OthersSame, Awaited
<1>4. \A c \in Conns : Settled(c)
  BY <1>1, UntouchedSettled
<1> QED BY <1>1, <1>2, <1>3, <1>4, GiveUpStep

\* A step in which a sink stops waiting, as the other sinks and the requests see it.
LEMMA StopFates ==
  ASSUME RefInv, NEW s \in Sinks, waiting[s] # NoConn, UNCHANGED <<lock, rows, emitted>>,
         waiting' = [waiting EXCEPT ![s] = NoConn],
         NEW d, conn' = [conn EXCEPT ![waiting[s]] = d],
         d \in {Orphan(conn[waiting[s]]), Free},
         d = Free => conn[waiting[s]].stage # "locked",
         \A t \in Sinks : t # s => queue'[t] = queue[t] /\ status'[t] = status[t],
         dropped \subseteq dropped', \A e \in dropped' : e \in dropped \/ e \in Elems(Awaited(s))
  PROVE  /\ \A c \in Conns : Settled(c)
         /\ OthersSame(s) /\ waiting'[s] = NoConn
         /\ InHand(s) = Awaited(s) /\ InHand(s)' = queue'[s]
<1>1. IInv /\ DeliveryInv
  BY DEF RefInv, DeliveryInv
<1>2. \A t \in Sinks : t # s => Awaited(t)' = Awaited(t)
  BY <1>1, StopWaiting
<1>3. \A c \in Conns : Settled(c)
  BY <1>1, StopKeeps
<1>4. waiting'[s] = NoConn /\ \A t \in Sinks : t # s => waiting'[t] = waiting[t]
  BY <1>1 DEF IInv, TypeOK
<1>5. InHand(s) = Awaited(s) /\ InHand(s)' = queue'[s]
  BY <1>4 DEF InHand
<1> QED BY <1>2, <1>3, <1>4, <1>5 DEF OthersSame

LEMMA PostOkRefines ==
  ASSUME RefInv, NEW s \in Sinks, PostOk(s)
  PROVE  FatesInv' /\ ListInv' /\ Simulates
<1>0. /\ DeliveryInv /\ IInv /\ waiting[s] \in Conns /\ waiting[s] # NoConn
      /\ conn[waiting[s]].stage = "committed"
      /\ UNCHANGED <<status, emitted, poison, queue, lock, rows, plains, dropped>>
  BY DEF RefInv, DeliveryInv, IInv, TypeOK, PostOk
<1>1. /\ \A c \in Conns : Settled(c)
      /\ OthersSame(s) /\ InHand(s) = Awaited(s)
  BY <1>0, StopFates DEF PostOk
<1>2. Elems(Awaited(s)) \subseteq Stored
  <2>1. AllStored(conn[waiting[s]])
    BY <1>0 DEF DeliveryInv, ConnOK
  <2>2. Awaited(s) = conn[waiting[s]].batch /\ Awaited(s) \in Seq(AgentEvent)
    BY <1>0, InHands DEF Awaited
  <2>3. \A i \in DOMAIN Awaited(s) : Awaited(s)[i] \in Stored
    BY <2>1, <2>2, PlainIsForeign DEF AllStored
  <2> QED BY <2>3 DEF Elems
<1>3. Steady(s)
  BY <1>0, <1>1, <1>2 DEF Steady
<1> QED BY <1>0, <1>1, <1>3, QuietFates

LEMMA RequeueRefines ==
  ASSUME RefInv, NEW s \in Sinks, waiting[s] # NoConn, Requeue(s)
  PROVE  FatesInv' /\ ListInv' /\ Simulates
<1>0. /\ IInv /\ waiting[s] \in Conns
      /\ UNCHANGED <<emitted, poison, lock, rows, plains>>
      /\ queue'[s] = Unsettled(s)
      /\ \A t \in Sinks : t # s => queue'[t] = queue[t] /\ status'[t] = status[t]
      /\ \/ UNCHANGED <<status, dropped>>
         \/ dropped' = dropped \cup Elems(Awaited(s)) /\ status[s] = "closing"
  BY DEF RefInv, DeliveryInv, IInv, TypeOK, Requeue, Requeued, Unsettled
<1>1. Orphan(conn[waiting[s]]) = Free => conn[waiting[s]].stage # "locked"
  BY <1>0 DEF Orphan, Free, IInv, TypeOK, Request
<1>2. /\ \A c \in Conns : Settled(c)
      /\ OthersSame(s) /\ InHand(s) = Awaited(s) /\ InHand(s)' = queue'[s]
  BY <1>0, <1>1, StopFates DEF Requeue
<1>3. CASE UNCHANGED <<status, dropped>>
  <2>1. Elems(InHand(s)) \subseteq Elems(InHand(s))'
    <3>1. Elems(InHand(s))' = Elems(Unsettled(s))
      BY <1>0, <1>2 DEF Elems
    <3> QED BY <1>0, <1>2, <3>1, InHands
  <2>2. Steady(s)
    BY <1>3, <2>1 DEF Steady
  <2> QED BY <1>0, <1>2, <1>3, <2>2, QuietFates
<1>4. CASE dropped' = dropped \cup Elems(Awaited(s)) /\ status[s] = "closing"
  BY <1>0, <1>2, <1>4, GiveUpStep
<1> QED BY <1>0, <1>3, <1>4

LEMMA CloseRefines ==
  ASSUME RefInv, NEW s \in Sinks, Close(s)
  PROVE  FatesInv' /\ ListInv' /\ Simulates
<1>0. /\ IInv /\ status[s] = "open" /\ status'[s] = "closing"
      /\ UNCHANGED <<emitted, poison, queue, lock, rows, plains>>
      /\ \A t \in Sinks : t # s => queue'[t] = queue[t] /\ status'[t] = status[t]
  BY DEF RefInv, DeliveryInv, IInv, TypeOK, Close
<1>1. CASE waiting[s] = NoConn
  <2>1. UNCHANGED <<conn, waiting, dropped>>
    BY <1>1 DEF Close
  <2>2. \A t \in Sinks : Awaited(t)' = Awaited(t)
    BY <2>1 DEF Awaited
  <2>3. OthersSame(s)
    BY <1>0, <2>1, <2>2 DEF OthersSame
  <2>4. InHand(s)' = InHand(s)
    BY <1>0, <2>1, <2>2 DEF InHand
  <2>5. Elems(InHand(s))' = Elems(InHand(s))
    BY <2>4 DEF Elems
  <2>6. Steady(s)
    BY <1>0, <2>1, <2>5 DEF Steady
  <2>7. \A c \in Conns : Settled(c)
    BY <2>1, UntouchedSettled
  <2> QED BY <1>0, <2>1, <2>3, <2>6, <2>7, QuietFates
<1>2. CASE waiting[s] # NoConn
  <2>0. /\ dropped' = dropped \cup Elems(Awaited(s))
        /\ waiting' = [waiting EXCEPT ![s] = NoConn]
        /\ conn' = [conn EXCEPT ![waiting[s]] = Orphan(conn[waiting[s]])]
    BY <1>2 DEF Close
  <2>1. Orphan(conn[waiting[s]]) = Free => conn[waiting[s]].stage # "locked"
    BY <1>0, <1>2 DEF Orphan, Free, IInv, TypeOK, Request
  <2>2. /\ \A c \in Conns : Settled(c)
        /\ OthersSame(s) /\ InHand(s) = Awaited(s)
    BY <1>0, <1>2, <2>0, <2>1, StopFates
  <2> QED BY <1>0, <2>0, <2>2, GiveUpStep
<1> QED BY <1>1, <1>2

LEMMA ClosedRefines ==
  ASSUME RefInv, NEW s \in Sinks, Closed(s)
  PROVE  FatesInv' /\ ListInv' /\ Simulates
<1>1. /\ UNCHANGED <<emitted, poison, queue, waiting, conn, lock, rows, plains, dropped>>
      /\ status[s] # "crashed" /\ \A t \in Sinks : t # s => status'[t] = status[t]
  BY DEF RefInv, DeliveryInv, IInv, TypeOK, Closed
<1>2. \A t \in Sinks : Awaited(t)' = Awaited(t)
  BY <1>1 DEF Awaited
<1>3. OthersSame(s)
  BY <1>1, <1>2 DEF OthersSame
<1>4. InHand(s)' = InHand(s)
  BY <1>1, <1>2 DEF InHand
<1>5. Elems(InHand(s))' = Elems(InHand(s))
  BY <1>4 DEF Elems
<1>6. Steady(s)
  BY <1>1, <1>5 DEF Steady
<1>7. \A c \in Conns : Settled(c)
  BY <1>1, UntouchedSettled
<1> QED BY <1>1, <1>3, <1>6, <1>7, QuietFates

\* What an agent held when it died stays live: a request of its may yet be handled.
LEMMA CrashRefines ==
  ASSUME RefInv, NEW s \in Sinks, Crash(s)
  PROVE  FatesInv' /\ ListInv' /\ Simulates
<1>0. /\ IInv /\ status'[s] = "crashed"
      /\ UNCHANGED <<emitted, poison, lock, rows, plains, dropped>>
      /\ \A t \in Sinks : t # s => queue'[t] = queue[t] /\ status'[t] = status[t]
  BY DEF RefInv, DeliveryInv, IInv, TypeOK, Crash
<1>1. Steady(s)
  BY <1>0 DEF Steady
<1>2. CASE waiting[s] = NoConn
  <2>1. UNCHANGED <<conn, waiting>>
    BY <1>2 DEF Crash, RefInv, DeliveryInv, IInv, TypeOK
  <2>2. \A t \in Sinks : Awaited(t)' = Awaited(t)
    BY <2>1 DEF Awaited
  <2>3. OthersSame(s)
    BY <1>0, <2>1, <2>2 DEF OthersSame
  <2>4. \A c \in Conns : Settled(c)
    BY <2>1, UntouchedSettled
  <2> QED BY <1>0, <1>1, <2>3, <2>4, QuietFates
<1>3. CASE waiting[s] # NoConn
  <2>1. Orphan(conn[waiting[s]]) = Free => conn[waiting[s]].stage # "locked"
    BY <1>0, <1>3 DEF Orphan, Free, IInv, TypeOK, Request
  <2>2. (\A c \in Conns : Settled(c)) /\ OthersSame(s)
    BY <1>0, <1>3, <2>1, StopFates DEF Crash
  <2> QED BY <1>0, <1>1, <2>2, QuietFates
<1> QED BY <1>2, <1>3

\* A step of the server that moves no rows leaves every sink as it was.
LEMMA QuietServer ==
  ASSUME RefInv, UNCHANGED sinkVars, UNCHANGED rows,
         \A c \in Conns : conn[c].client # NoSink /\ conn[c].stage # "free" =>
           conn'[c].batch = conn[c].batch,
         \A c \in Conns : Settled(c) \/ FateOK(c)'
  PROVE  FatesInv' /\ ListInv' /\ Simulates
<1>0. /\ DeliveryInv /\ FatesInv /\ ListInv
      /\ UNCHANGED <<status, emitted, poison, queue, waiting, dropped>>
  BY DEF RefInv, sinkVars
<1>1. Stored' = Stored
  BY SameRows
<1>2. Onward /\ \A s \in Sinks : Awaited(s)' = Awaited(s)
  BY <1>0, <1>1, ServerSinks
<1>3. \A s \in Sinks : Steady(s)
  BY <1>0, <1>2, SteadyFrame
<1>4. FatesInv'
  BY <1>0, <1>2, <1>3, FatesFrame
<1> QED BY <1>0, <1>4, Stutters DEF Simulates

LEMMA BrowserPostRefines ==
  ASSUME RefInv, NEW c \in Conns, BrowserPost(c)
  PROVE  FatesInv' /\ ListInv' /\ Simulates
<1>0. /\ conn'[c].stage = "sent" /\ conn'[c].batch = <<Plain>>
      /\ \A d \in Conns : d # c => conn'[d] = conn[d]
      /\ conn[c].stage = "free" /\ UNCHANGED sinkVars /\ UNCHANGED <<lock, rows>>
  BY DEF RefInv, DeliveryInv, IInv, TypeOK, BrowserPost, Free
<1>1. FateOK(c)'
  <2>1. Unstored(conn[c])' = {}
    BY <1>0 DEF Unstored, Elems
  <2> QED BY <1>0, <2>1 DEF FateOK, OneFate
<1>2. \A d \in Conns : d # c => Settled(d)
  BY <1>0, UntouchedSettled
<1> QED BY <1>0, <1>1, <1>2, QuietServer

\* The fate of a request that a step of the server moves on.
LEMMA FateMoves ==
  ASSUME RefInv, UNCHANGED sinkVars, UNCHANGED rows, NEW c \in Conns,
         \A d \in Conns : d # c => conn'[d] = conn[d],
         conn[c].stage \in {"sent", "locked"}, conn'[c].batch = conn[c].batch,
         conn'[c].stage = "locked" => SeqsUsed(conn[c])'
  PROVE  FatesInv' /\ ListInv' /\ Simulates
<1>0. /\ DeliveryInv /\ OwnBatch(conn[c]) /\ OneFate(conn[c])
      /\ UNCHANGED <<status, emitted, poison, queue, waiting, dropped>>
  BY DEF RefInv, DeliveryInv, ConnOK, FatesInv, sinkVars
<1>1. Stored' = Stored
  BY SameRows
<1>2. Onward /\ \A s \in Sinks : Awaited(s)' = Awaited(s)
  BY <1>0, <1>1, ServerSinks
<1>3. \A s \in Sinks : Steady(s)
  BY <1>0, <1>2, SteadyFrame
<1>4. OneFate(conn[c])'
  BY <1>0, <1>2, <1>3, FateFrame
<1>5. FateOK(c)'
  BY <1>4 DEF FateOK
<1>6. \A d \in Conns : d # c => Settled(d)
  BY UntouchedSettled
<1> QED BY <1>5, <1>6, QuietServer

LEMMA BeginRefines ==
  ASSUME RefInv, NEW c \in Conns, Begin(c)
  PROVE  FatesInv' /\ ListInv' /\ Simulates
<1>0. /\ conn[c].stage = "sent" /\ conn[c].pos = 1
      /\ conn'[c].batch = conn[c].batch /\ conn'[c].pos = conn[c].pos
      /\ conn'[c].next = LastSeq + 1
      /\ \A d \in Conns : d # c => conn'[d] = conn[d]
      /\ UNCHANGED sinkVars /\ UNCHANGED rows
  BY DEF RefInv, DeliveryInv, ConnOK, IInv, TypeOK, Begin, Request
<1>1. SeqsUsed(conn[c])'
  <2>1. Len(conn[c].batch) \in Nat /\ LastSeq \in Int
    BY DEF RefInv, DeliveryInv, IInv, RowsInv, TypeOK, Request
  <2>2. LastSeq' = LastSeq
    BY <1>0 DEF LastSeq
  <2> QED BY <1>0, <2>1, <2>2 DEF SeqsUsed
<1> QED BY <1>0, <1>1, FateMoves

LEMMA StageEventRefines ==
  ASSUME RefInv, NEW c \in Conns, StageEvent(c)
  PROVE  FatesInv' /\ ListInv' /\ Simulates
<1> DEFINE req == conn[c]
<1>0. /\ req.stage = "locked" /\ req \in Request /\ req.pos \in DOMAIN req.batch
      /\ req.next \in Nat
      /\ UNCHANGED <<sinkVars, lock, rows, plains>>
      /\ \A d \in Conns : d # c => conn'[d] = conn[d]
      /\ conn'[c].batch = req.batch /\ conn'[c].pos = req.pos + 1
      /\ conn'[c].next \in {req.next, req.next + 1}
  BY StageEventFacts DEF RefInv, DeliveryInv
<1>1. SeqsUsed(conn[c])'
  <2>1. /\ Len(req.batch) \in Nat /\ LastSeq \in Int /\ req.pos \in Nat
        /\ req.pos <= Len(req.batch)
    BY <1>0 DEF RefInv, DeliveryInv, IInv, RowsInv, Request
  <2>2. req.next <= LastSeq + req.pos
    BY <1>0 DEF RefInv, FatesInv, SeqsUsed
  <2>3. LastSeq' = LastSeq
    BY <1>0 DEF LastSeq
  <2>4. conn'[c].pos <= Len(conn'[c].batch) + 1
    BY <1>0, <2>1
  <2>5. conn'[c].next <= LastSeq + conn'[c].pos
    <3>1. /\ conn'[c].next \in {req.next, req.next + 1} /\ conn'[c].pos = req.pos + 1
          /\ req.next \in Nat
      BY <1>0
    <3> QED BY <2>1, <2>2, <3>1, SMTT(30)
  <2> QED BY <2>3, <2>4, <2>5 DEF SeqsUsed
<1> QED BY <1>0, <1>1, FateMoves

LEMMA ServerFailRefines ==
  ASSUME RefInv, NEW c \in Conns, ServerFail(c)
  PROVE  FatesInv' /\ ListInv' /\ Simulates
<1>0. /\ conn[c].stage \in {"sent", "locked"} /\ conn[c] \in Request
      /\ conn'[c] = Answer(conn[c], "failed")
      /\ \A d \in Conns : d # c => conn'[d] = conn[d]
      /\ UNCHANGED sinkVars /\ UNCHANGED <<rows, plains>>
  BY DEF RefInv, DeliveryInv, IInv, TypeOK, ServerFail
<1>1. conn[c].client # NoSink => conn'[c].batch = conn[c].batch
  BY <1>0, AnswerFacts
<1>2. Settled(c)
  <2>1. CASE conn[c].client = NoSink
    BY <1>0, <2>1 DEF Answer, Free, Settled
  <2>2. CASE conn[c].client # NoSink
    BY <1>0, <2>2 DEF Answer, Request, Settled
  <2> QED BY <2>1, <2>2
<1>3. \A d \in Conns : d # c => Settled(d)
  BY <1>0, UntouchedSettled
<1> QED BY <1>0, <1>1, <1>2, <1>3, QuietServer

\* The fates after a step that adds rows: nothing of it is still under way.
LEMMA RowsFates ==
  ASSUME RefInv, UNCHANGED sinkVars, Stored \subseteq Stored',
         \A c \in Conns : conn[c].client # NoSink /\ conn[c].stage # "free" =>
           conn'[c].batch = conn[c].batch,
         \A c \in Conns : (Settled(c) /\ conn'[c].stage # "locked") \/ FateOK(c)'
  PROVE  FatesInv'
<1>0. /\ DeliveryInv /\ FatesInv
      /\ UNCHANGED <<status, emitted, poison, queue, waiting, dropped>>
  BY DEF RefInv, sinkVars
<1>1. Onward /\ \A s \in Sinks : Awaited(s)' = Awaited(s)
  BY <1>0, ServerSinks
<1>2. \A s \in Sinks : Steady(s)
  BY <1>0, <1>1, SteadyFrame
<1> QED BY <1>0, <1>1, <1>2, FatesFrame

LEMMA CommitRefines ==
  ASSUME RefInv, IInv', NEW c \in Conns, Commit(c)
  PROVE  FatesInv' /\ ListInv' /\ Simulates
<1>1. ListInv' /\ Simulates
  BY CommitSimulates
<1>2. /\ conn[c].stage = "locked" /\ conn[c] \in Request
      /\ UNCHANGED sinkVars
      /\ rows' = rows \cup conn[c].staged
      /\ conn'[c] = Answer(conn[c], "committed")
      /\ \A d \in Conns : d # c => conn'[d] = conn[d]
  BY CommitFacts DEF RefInv
<1>3. Stored \subseteq Stored'
  BY <1>2 DEF Stored
<1>4. conn[c].client # NoSink => conn'[c].batch = conn[c].batch
  BY <1>2, AnswerFacts
<1>5. FateOK(c)'
  <2>1. conn'[c].stage \in {"free", "committed"}
    BY <1>2 DEF Answer, Free, Request
  <2> QED BY <2>1 DEF FateOK
<1>6. \A d \in Conns : d # c => Settled(d) /\ conn'[d].stage # "locked"
  BY <1>2, UntouchedSettled DEF RefInv, DeliveryInv, IInv, LockInv
<1>7. FatesInv'
  BY <1>2, <1>3, <1>4, <1>5, <1>6, RowsFates
<1> QED BY <1>1, <1>7

LEMMA AppendEventRefines ==
  ASSUME RefInv, IInv', AppendEvent
  PROVE  FatesInv' /\ ListInv' /\ Simulates
<1> DEFINE row == [seq |-> LastSeq + 1, ev |-> Plain]
<1>0. /\ DeliveryInv /\ IInv /\ ListInv
      /\ UNCHANGED sinkVars /\ UNCHANGED <<status, emitted, poison, queue, waiting, dropped>>
      /\ UNCHANGED <<conn, lock>>
      /\ \A c \in Conns : conn[c].stage # "locked"
      /\ LastSeq \in Nat \cup {-1} /\ SeqsOf(rows) = 0..LastSeq
  BY ConnAssumption DEF AppendEvent, RefInv, DeliveryInv, IInv, LockInv, RowsInv, sinkVars
<1>1. rows' = rows \cup {row} /\ row.seq = LastSeq + 1 /\ row.ev = Plain
  BY DEF AppendEvent
<1>2. LastSeq' = LastSeq + 1
  <2>1. SeqsOf(rows') = SeqsOf(rows) \cup SeqsOf({row})
    BY <1>1, SeqsOfUnion
  <2>2. SeqsOf({row}) = {LastSeq + 1}
    BY SeqsOfRow
  <2>3. (0..LastSeq) \cup {LastSeq + 1} = 0..(LastSeq + 1)
    BY <1>0
  <2>4. SeqsOf(rows') = 0..(LastSeq + 1)
    BY <1>0, <2>1, <2>2, <2>3
  <2> QED BY <1>0, <2>4, LastOfInterval DEF LastSeq
<1> HIDE DEF row
<1>3. ListInv' /\ Simulates
  BY <1>0, <1>1, <1>2, ForeignSimulates
<1>4. Stored \subseteq Stored'
  BY <1>1 DEF Stored
<1>5. \A c \in Conns : Settled(c) /\ conn'[c].stage # "locked"
  BY <1>0, UntouchedSettled
<1>6. FatesInv'
  BY <1>0, <1>4, <1>5, RowsFates
<1> QED BY <1>3, <1>6

LEMMA RefInit == Init => RefInv /\ Delivery!AbsInit
<1> SUFFICES ASSUME Init PROVE RefInv /\ Delivery!AbsInit
  OBVIOUS
<1>1. DeliveryInv
  BY DeliveryInit
<1>2. Emitted = {} /\ rows = {} /\ dropped = {} /\ \A c \in Conns : conn[c].stage = "free"
  BY DEF Init, Emitted, AgentEvent, Free
<1>3. FatesInv
  BY <1>2 DEF FatesInv
<1>4. \A s \in Sinks : Live(s) = {}
  BY <1>2 DEF Live
<1>5. \A s \in Sinks : OneSink(Live(s))
  BY LiveOneSink
<1>6. \A s \in Sinks : Lists(<<>>, Live(s))
  BY <1>4, EmptyList
<1>7. \A s \in Sinks : PendingSeq(s) = <<>>
  BY <1>5, <1>6, ListIs DEF PendingSeq
<1>8. ListInv
  BY <1>4, <1>7, EmptyList DEF ListInv
<1>9. LogSeq = <<>>
  <2>1. LogSeq \in Seq(Event) /\ Len(LogSeq) = LastSeq + 1
    BY <1>1, LogFacts DEF DeliveryInv
  <2>2. LastSeq = -1
    BY <1>2 DEF LastSeq, LastOf
  <2> QED BY <2>1, <2>2
<1>10. Delivery!AbsInit
  BY <1>2, <1>7, <1>9 DEF Delivery!AbsInit
<1> QED BY <1>1, <1>3, <1>8, <1>10 DEF RefInv

LEMMA RefNext ==
  RefInv /\ [Next]_vars => RefInv' /\ [Delivery!AbsNext]_(Delivery!absVars)
<1> SUFFICES ASSUME RefInv, [Next]_vars
             PROVE  RefInv' /\ [Delivery!AbsNext]_(Delivery!absVars)
  OBVIOUS
<1>0. DeliveryInv' /\ IInv'
  BY DeliveryNext DEF RefInv, DeliveryInv
<1> SUFFICES FatesInv' /\ ListInv' /\ Simulates
  BY <1>0 DEF RefInv, Simulates
<1>1. ASSUME NEW s \in Sinks, SinkStep(s) PROVE FatesInv' /\ ListInv' /\ Simulates
  BY <1>1, EmitRefines, PostRefines, DropPoisonRefines, PostOkRefines, RequeueRefines,
     CloseRefines, ClosedRefines, CrashRefines DEF SinkStep, PostFail, PostTimeout
<1>2. ASSUME NEW c \in Conns, ServerStep(c) PROVE FatesInv' /\ ListInv' /\ Simulates
  BY <1>0, <1>2, BrowserPostRefines, BeginRefines, StageEventRefines, CommitRefines,
     ServerFailRefines DEF ServerStep
<1>3. CASE AppendEvent
  BY <1>0, <1>3, AppendEventRefines
<1>4. CASE UNCHANGED vars
  <2>1. UNCHANGED sinkVars /\ UNCHANGED <<conn, rows>>
    BY <1>4 DEF vars, sinkVars
  <2>2. \A c \in Conns : Settled(c)
    BY <2>1, UntouchedSettled
  <2> QED BY <2>1, <2>2, QuietServer
<1> QED BY <1>1, <1>2, <1>3, <1>4 DEF Next

\* The sink, its unreliable connections and the append handler together implement
\* EventDelivery: whatever is retried, lost, delayed or handled twice at once, every
\* event enters the log at most once and in the order of its sink, and an event that
\* overtakes another is one whose sink gave up on the other.
THEOREM SinkImplementsDelivery == Spec => ImplementsDelivery
BY RefInit, RefNext, PTL DEF Spec, ImplementsDelivery, Delivery!AbsSpec

=============================================================================
