---------------------------- MODULE Replication ----------------------------
(***************************************************************************)
(* A replica of another service's tables, kept up to date by its events.   *)
(* The event-store middleware of the owner publishes an event after the    *)
(* operation has been committed; requests interleave between the two.  The *)
(* stream (NATS JetStream, pkg/events/nats, pkg/messaging/nats) keeps      *)
(* events for a day.  A durable consumer with MaxAckPending = 1 delivers   *)
(* the first event that is not acknowledged, again and again until it is   *)
(* acknowledged or too old: an error of the handler, a crash, or a lost    *)
(* acknowledgement all leave it unacknowledged.                            *)
(*                                                                         *)
(* The tables are parameters: GroupTable and DomainTable define them.  A   *)
(* fault is a failed publication, a crash of the consumer or the loss of   *)
(* an acknowledgement, or a consumer that is away until an event expires.  *)
(* An error of the database of the replica leaves everything as it is and  *)
(* needs no step.                                                          *)
(***************************************************************************)
EXTENDS Naturals, FiniteSets, SequencesExt

CONSTANTS Initial,            \* tables to start from
          Events(_),          \* events an operation on these tables may publish
          Commit(_, _),       \* tables after the operation that publishes the event
          Handle(_, _),       \* tables after the (first) write of the consumer
          TwoWrites(_),       \* the consumer writes twice
          SecondWrite(_, _),  \* tables after the second write
          Touched(_, _, _),   \* what the operation depends on
          Creates(_), IDs(_), \* fresh IDs an operation draws, IDs in the tables
          Accumulates(_),     \* handling the event again changes the tables again
          Vacuous(_),         \* the operation may have changed nothing
          MaxOps, MaxFaults

VARIABLES source,    \* tables of the owner
          unsent,    \* operations that are committed and not published
          log,       \* events published
          done,      \* how many of them are acknowledged or expired
          replica,   \* tables of the replica
          pc,        \* the consumer: waiting, between two writes, before the acknowledgement
          took,      \* the first event not settled has been handled in full
          refused,   \* it has been refused by the handler
          lost,      \* positions of the expired events
          drawn,     \* IDs handed out so far
          ops, faults,
          disturbed  \* the replica may differ for good (history)

vars == <<source, unsent, log, done, replica, pc, took, refused, lost, drawn, ops, faults,
          disturbed>>

TypeOK ==
  /\ \A u \in unsent : u.at \in 1 .. ops
  /\ ops \in 0 .. MaxOps /\ Cardinality(unsent) + Len(log) <= ops
  /\ done \in 0 .. Len(log) /\ lost \subseteq 1 .. done
  /\ pc \in {"idle", "saved", "handled"}
  /\ pc = "handled" => took
  /\ (took \/ refused \/ pc # "idle") => done < Len(log)
  /\ faults \in 0 .. MaxFaults
  /\ disturbed \in BOOLEAN

\* The replica starts in step with its source.
Init ==
  /\ source \in Initial /\ replica = source
  /\ unsent = {} /\ log = <<>> /\ done = 0 /\ lost = {}
  /\ pc = "idle" /\ took = FALSE /\ refused = FALSE
  /\ drawn = IDs(source)
  /\ ops = 0 /\ faults = 0 /\ disturbed = FALSE

owner    == <<source, unsent, drawn, ops>>
consumer == <<done, replica, pc, took, refused, lost>>

-----------------------------------------------------------------------------
(* The owner. *)

Operate(e) ==
  /\ ops < MaxOps
  /\ Creates(e) \cap drawn = {} /\ drawn' = drawn \cup Creates(e)
  /\ source' \in Commit(source, e)
  /\ ops' = ops + 1
  /\ unsent' = unsent \cup {[at |-> ops', event |-> e, touched |-> Touched(source, source', e)]}
  /\ UNCHANGED <<log, consumer, faults, disturbed>>

\* Commits and publications of two requests need not come in the same order.
Overtakes(u) == \E v \in unsent : v.at < u.at /\ v.touched \cap u.touched # {}

Publish(u) ==
  /\ log' = Append(log, u.event)
  /\ unsent' = unsent \ {u}
  /\ disturbed' = (disturbed \/ Overtakes(u))
  /\ UNCHANGED <<source, consumer, drawn, ops, faults>>

Fault == faults < MaxFaults /\ faults' = faults + 1

\* The caller gets an error; the operation stays committed.
PublishFails(u) ==
  /\ Fault
  /\ unsent' = unsent \ {u}
  /\ disturbed' = TRUE
  /\ UNCHANGED <<source, log, consumer, drawn, ops>>

-----------------------------------------------------------------------------
(* The consumer. *)

Head1 == log[done + 1]
Delivered == pc = "idle" /\ done < Len(log)

HandleEvent ==
  /\ Delivered
  /\ replica' \in Handle(replica, Head1)
  /\ pc' = IF TwoWrites(Head1) THEN "saved" ELSE "handled"
  /\ took' = (took \/ ~TwoWrites(Head1))
  /\ UNCHANGED <<owner, log, done, refused, lost, faults, disturbed>>

HandleRest ==
  /\ pc = "saved"
  /\ IF SecondWrite(replica, Head1) = {}
     THEN pc' = "idle" /\ refused' = TRUE /\ UNCHANGED <<replica, took>>
     ELSE /\ replica' \in SecondWrite(replica, Head1)
          /\ pc' = "handled" /\ took' = TRUE /\ UNCHANGED refused
  /\ UNCHANGED <<owner, log, done, lost, faults, disturbed>>

\* Mutant: the handler's error is acknowledged.
RefuseAcknowledged ==
  /\ Delivered
  /\ Handle(replica, Head1) = {}
  /\ done' = done + 1
  /\ UNCHANGED <<owner, log, replica, pc, took, refused, lost, faults, disturbed>>

\* errAckType: an error is no acknowledgement, the event will be delivered again.
Refuse ==
  /\ Delivered
  /\ Handle(replica, Head1) = {}
  /\ refused' = TRUE
  /\ UNCHANGED <<owner, log, done, replica, pc, took, lost, faults, disturbed>>

Settled == done' = done + 1 /\ took' = FALSE /\ refused' = FALSE /\ pc' = "idle"

Ack ==
  /\ pc = "handled"
  /\ Settled
  /\ UNCHANGED <<owner, log, replica, lost, faults, disturbed>>

\* A crash before the acknowledgement, or its loss.  The replica is off for
\* good after half a creation and after an event that accumulates.
Interrupt ==
  /\ pc # "idle" /\ Fault
  /\ pc' = "idle"
  /\ disturbed' = (disturbed \/ pc = "saved" \/ Accumulates(Head1))
  /\ UNCHANGED <<owner, log, done, replica, took, refused, lost>>

\* Mutant: events have no MaxAge.
ExpireNever ==
  /\ FALSE
  /\ UNCHANGED vars

\* MaxAge: an event that the handler keeps refusing expires in the end.
Expire ==
  /\ Delivered /\ refused
  /\ Settled
  /\ lost' = lost \cup {done + 1}
  /\ UNCHANGED <<owner, log, replica, faults, disturbed>>

\* The consumer is away for longer than MaxAge.
Miss ==
  /\ Delivered /\ ~refused /\ Fault
  /\ Settled
  /\ lost' = lost \cup {done + 1}
  /\ disturbed' = TRUE
  /\ UNCHANGED <<owner, log, replica>>

Next ==
  \/ \E e \in Events(source) : Operate(e)
  \/ \E u \in unsent : Publish(u) \/ PublishFails(u)
  \/ HandleEvent \/ HandleRest \/ Refuse \/ Ack \/ Interrupt \/ Expire \/ Miss
  \/ ops = MaxOps /\ unsent = {} /\ done = Len(log) /\ UNCHANGED vars  \* all done

\* The consumer keeps running, and time passes.
Consume == HandleEvent \/ HandleRest \/ Ack

Fairness == WF_vars(Consume) /\ WF_vars(Refuse) /\ WF_vars(Expire)

Spec == Init /\ [][Next]_vars /\ Fairness

-----------------------------------------------------------------------------
(* Properties. *)

Effects(t, e) == {t} \cup Handle(t, e) \cup (IF TwoWrites(e) THEN SecondWrite(t, e) ELSE {})

L == INSTANCE OrderedLog WITH state <- replica

\* Ordered subscriptions (MaxAckPending = 1 in pkg/messaging/nats/pubsub.go)
\* keep their promise: whatever crashes, acknowledgements and errors happen, the
\* replica is only ever changed by the first event not settled, and an event is
\* settled only after its handler succeeded, or by growing too old.
InOrder == L!Spec

\* When all operations are published and settled, the replica equals the tables
\* of its owner: unless a publication failed, two operations on the same row were
\* published in the other order, the consumer was away for a day, or it stopped
\* between the two writes of a creation or before acknowledging an event that
\* gives a group a parent.  Every other event may be delivered again, and refused
\* until it expires, without harm.
ReplicaFollows ==
  unsent = {} /\ done = Len(log) /\ ~disturbed => replica = source

\* The handler refuses only events that it has handled before, events whose
\* operation changed nothing, and after a disturbance.  So a stream in order is
\* held up by nothing else.
RefusalsExplained == refused => took \/ disturbed \/ Vacuous(Head1)

\* An event that the handler of the replica refuses for ever does not hold up
\* the events behind it for ever: all are settled in the end.
CaughtUp == \A n \in 1 .. MaxOps : Len(log) >= n ~> done >= n
=============================================================================
