----------------------------- MODULE EventStore -----------------------------
(***************************************************************************)
(* The publisher of the Redis event store, which keeps the events it could *)
(* not publish in a bounded channel and flushes them from a goroutine of   *)
(* its own.  An event is the number of the call of Publish that carries it.*)
(***************************************************************************)
EXTENDS Naturals, Sequences, SequencesExt, FiniteSets

CONSTANTS Callers,               \* goroutines that call Publish
          Idle,                  \* no event in a caller's hands, nobody at the lock
          MaxUnpublishedEvents,  \* the capacity of unpublishedEvents
          MaxIssued,             \* bound: calls of Publish
          MaxOutages             \* bound: times the connection goes down

VARIABLES up,          \* the connection to Redis
          stream,      \* the entries of the stream
          unpublished, \* unpublishedEvents, oldest first
          mu,          \* who holds the mutex
          left,        \* entries the running flush still has to publish
          closed,      \* the flusher has returned and closed the channel
          call,        \* call[c]: the event and the place of caller c in Publish
          issued, accepted, dropped,
          outages

streamVars == <<up, stream, outages>>
pubVars    == <<unpublished, mu, left, closed, call, issued, accepted, dropped>>
vars       == <<streamVars, pubVars>>

NoCall == [event |-> 0, at |-> Idle]

TypeOK == /\ up \in BOOLEAN /\ closed \in BOOLEAN
          /\ stream \in Seq(1..MaxIssued)
          /\ unpublished \in Seq(1..MaxIssued) /\ Len(unpublished) <= MaxUnpublishedEvents
          /\ mu \in Callers \cup {Idle, "flusher"}
          /\ left \in 0..MaxUnpublishedEvents
          /\ call \in [Callers -> [event: 0..MaxIssued, at: {Idle, "add", "lock", "send"}]]
          /\ issued \in 0..MaxIssued
          /\ accepted \subseteq 1..issued /\ dropped \subseteq accepted
          /\ outages \in 0..MaxOutages

\* NewPublisher with the channel empty and the flusher waiting for its ticker.
Init == /\ up = TRUE /\ stream = <<>> /\ outages = 0
        /\ unpublished = <<>> /\ mu = Idle /\ left = 0 /\ closed = FALSE
        /\ call = [c \in Callers |-> NoCall]
        /\ issued = 0 /\ accepted = {} /\ dropped = {}

-----------------------------------------------------------------------------
(* Redis. *)

Down == up /\ outages < MaxOutages /\ up' = FALSE /\ outages' = outages + 1

GoDown == Down /\ UNCHANGED <<stream, pubVars>>
ComeUp == ~up /\ up' = TRUE /\ UNCHANGED <<stream, outages, pubVars>>

\* XADD with its reply, with the connection lost before the reply, and not done.
\* stream is the history of what was added: MAXLEN, which trims the oldest
\* entries of a long stream, is left out.
Added(e)   == up /\ stream' = Append(stream, e) /\ UNCHANGED <<up, outages>>
Unheard(e) == Down /\ stream' = Append(stream, e)
NotAdded   == ~up /\ UNCHANGED streamVars

-----------------------------------------------------------------------------
(* Publish: a ping decides between the stream and the channel. *)

At(c, e, p) == call' = [call EXCEPT ![c] = [event |-> e, at |-> p]]
Return(c)   == call' = [call EXCEPT ![c] = NoCall]

Publish(c) == /\ call[c].at = Idle /\ issued < MaxIssued
              /\ issued' = issued + 1
              /\ At(c, issued', IF up THEN "add" ELSE "lock")
              /\ UNCHANGED <<streamVars, unpublished, mu, left, closed, accepted, dropped>>

\* The error of XAdd is the error of Publish: the event is not kept.
XAdd(c) == /\ call[c].at = "add"
           /\ \/ Added(call[c].event) /\ accepted' = accepted \cup {call[c].event}
              \/ (Unheard(call[c].event) \/ NotAdded) /\ UNCHANGED accepted
           /\ Return(c)
           /\ UNCHANGED <<unpublished, mu, left, closed, issued, dropped>>

Full == Len(unpublished) = MaxUnpublishedEvents

\* Mutant: the length of the channel is not checked.
LockUnchecked(c) == /\ call[c].at = "lock" /\ mu = Idle
                    /\ mu' = c /\ At(c, call[c].event, "send")
                    /\ UNCHANGED <<streamVars, unpublished, left, closed, issued,
                                   accepted, dropped>>

\* What is done under the mutex: the event is dropped when the channel is full.
Lock(c) == /\ call[c].at = "lock" /\ mu = Idle
           /\ IF Full
                THEN /\ accepted' = accepted \cup {call[c].event}
                     /\ dropped' = dropped \cup {call[c].event}
                     /\ Return(c) /\ UNCHANGED mu
                ELSE mu' = c /\ At(c, call[c].event, "send") /\ UNCHANGED <<accepted, dropped>>
           /\ UNCHANGED <<streamVars, unpublished, left, closed, issued>>

\* The send waits for room.  On a channel the flusher has closed it panics, and
\* the event goes with the process.
Send(c) == /\ call[c].at = "send"
           /\ \/ /\ ~closed /\ ~Full
                 /\ unpublished' = Append(unpublished, call[c].event)
                 /\ accepted' = accepted \cup {call[c].event}
              \/ closed /\ UNCHANGED <<unpublished, accepted>>
           /\ mu' = Idle /\ Return(c)
           /\ UNCHANGED <<streamVars, left, closed, issued, dropped>>

-----------------------------------------------------------------------------
(* flushUnpublished *)

Tick == /\ ~closed /\ up /\ mu = Idle
        /\ unpublished # <<>>
        /\ mu' = "flusher" /\ left' = Len(unpublished)
        /\ UNCHANGED <<streamVars, unpublished, closed, call, issued, accepted, dropped>>

\* Mutant: a record that could not be added is not put back.
FlushLosing == /\ mu = "flusher" /\ left > 0
               /\ unpublished' = Tail(unpublished)
               /\ \/ Added(Head(unpublished)) /\ left' = left - 1 /\ UNCHANGED mu
                  \/ (Unheard(Head(unpublished)) \/ NotAdded) /\ left' = 0 /\ mu' = Idle
               /\ UNCHANGED <<closed, call, issued, accepted, dropped>>

\* One turn of the loop: a record that could not be added goes to the back of
\* the channel and ends the flush.
Flush == /\ mu = "flusher" /\ left > 0
         /\ \/ /\ Added(Head(unpublished))
               /\ unpublished' = Tail(unpublished) /\ left' = left - 1 /\ UNCHANGED mu
            \/ /\ Unheard(Head(unpublished)) \/ NotAdded
               /\ unpublished' = Append(Tail(unpublished), Head(unpublished))
               /\ left' = 0 /\ mu' = Idle
         /\ UNCHANGED <<closed, call, issued, accepted, dropped>>

Flushed == /\ mu = "flusher" /\ left = 0 /\ mu' = Idle
           /\ UNCHANGED <<streamVars, unpublished, left, closed, call, issued,
                          accepted, dropped>>

\* ctx.Done
Stop == /\ ~closed /\ mu # "flusher" /\ closed' = TRUE
        /\ UNCHANGED <<streamVars, unpublished, mu, left, call, issued, accepted, dropped>>

-----------------------------------------------------------------------------
Step(c) == XAdd(c) \/ Lock(c) \/ Send(c)

Next == \/ GoDown \/ ComeUp
        \/ \E c \in Callers : Publish(c) \/ Step(c)
        \/ Tick \/ Flush \/ Flushed \/ Stop

Spec == Init /\ [][Next]_vars

-----------------------------------------------------------------------------
(* Properties *)

\* An event whose Publish returned nil was added to the stream or waits in the
\* channel, unless it was dropped, and it is dropped only when the channel was
\* full: flushes that fail half way, and calls that overlap them, lose nothing.
AcceptedKept == accepted \subseteq ToSet(stream) \cup ToSet(unpublished) \cup dropped

\* The channel empties and calls of Publish return, again and again: once the
\* connection is back the waiting events are flushed, and no call waits for ever
\* for the mutex or for room.  Only a flusher told to stop leaves events behind.
Drained == []<>(/\ unpublished = <<>> \/ closed
                /\ \A c \in Callers : call[c].at = Idle)
=============================================================================
