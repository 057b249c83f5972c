-------------------------- MODULE EventSinkDelivery --------------------------
(***************************************************************************)
(* EventSink implements EventDelivery: the rows in seq order are the log,  *)
(* and an event that is emitted and neither stored nor dropped is pending. *)
(***************************************************************************)
EXTENDS EventSink

LogSeq == [i \in 1..Cardinality(rows) |-> (CHOOSE r \in rows : r.seq = i - 1).ev]
\* The events of a set of one sink's events, as it emitted them.
ListOf(S) ==
  CHOOSE q \in [1..Cardinality(S) -> S] : \A i, j \in DOMAIN q : i < j => q[i].n < q[j].n
Live(s) == {e \in Emitted : e.sink = s} \ (dropped \cup Stored)
PendingSeq(s) == ListOf(Live(s))

Delivery == INSTANCE EventDelivery WITH
  Writers <- Sinks, Foreign <- Plain, log <- LogSeq,
  pending <- [s \in Sinks |-> PendingSeq(s)], limbo <- dropped \ Stored

\* The sink and the handler deliver every event at most once, and a sink's
\* events in order but for those it gave up on.
ImplementsDelivery == Delivery!AbsSpec

=============================================================================
