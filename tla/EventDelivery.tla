---------------------------- MODULE EventDelivery ----------------------------
(***************************************************************************)
(* What the sink and the append handler promise together, without queues,  *)
(* requests or locks: every writer's events reach the session's log at     *)
(* most once and in the order of emission.  A writer that gives up on      *)
(* events leaves them in limbo, where they may still turn up late.         *)
(***************************************************************************)
EXTENDS Integers, Sequences, FiniteSets

CONSTANTS
  Writers,    \* the agent jobs' sinks
  Foreign,    \* an event appended by the browser or by server code
  MaxEmit     \* bound: events each writer emits

VARIABLES
  log,        \* the session's events in seq order
  pending,    \* [Writers -> Seq(Event)] accepted, in the order of emission
  limbo       \* given up, and not stored

absVars == <<log, pending, limbo>>

Ev(w, k) == [sink |-> w, n |-> k]
Ran(s) == {s[i] : i \in DOMAIN s}
Drop(s, k) == SubSeq(s, k + 1, Len(s))

\* The sequences that list a set of events of one writer as it emitted them.
InOrder(S) ==
  {q \in [1..Cardinality(S) -> S] :
     \A i, j \in DOMAIN q : i < j => q[i].sink = q[j].sink /\ q[i].n < q[j].n}

AbsInit ==
  /\ log = <<>>
  /\ pending = [w \in Writers |-> <<>>]
  /\ limbo = {}

\* Events are numbered as they are accepted, whatever became of earlier ones.
Accept(w) ==
  \E k \in 1..MaxEmit :
    /\ \A e \in Ran(log) \cup Ran(pending[w]) \cup limbo : e.sink = w => e.n < k
    /\ pending' = [pending EXCEPT ![w] = Append(@, Ev(w, k))]
    /\ UNCHANGED <<log, limbo>>

\* Some of the oldest pending events are stored.
Publish(w) ==
  \E k \in 1..Len(pending[w]) :
    /\ log' = log \o SubSeq(pending[w], 1, k)
    /\ pending' = [pending EXCEPT ![w] = Drop(@, k)]
    /\ UNCHANGED limbo

\* The writer gives up on some of the oldest pending events.
GiveUp(w) ==
  \E k \in 1..Len(pending[w]) :
    /\ limbo' = limbo \cup Ran(SubSeq(pending[w], 1, k))
    /\ pending' = [pending EXCEPT ![w] = Drop(@, k)]
    /\ UNCHANGED log

\* A request the writer no longer waits for is handled after all.
PublishLate ==
  \E S \in (SUBSET limbo) \ {{}} : \E q \in InOrder(S) :
    /\ log' = log \o q
    /\ limbo' = limbo \ S
    /\ UNCHANGED pending

PublishForeign ==
  /\ log' = Append(log, Foreign)
  /\ UNCHANGED <<pending, limbo>>

AbsNext ==
  \/ \E w \in Writers : Accept(w) \/ Publish(w) \/ GiveUp(w)
  \/ PublishLate
  \/ PublishForeign

AbsSpec == AbsInit /\ [][AbsNext]_absVars

=============================================================================
