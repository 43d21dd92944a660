----------------------------- MODULE WebSockets -----------------------------
(***************************************************************************)
(* A WebSocket session of the HTTP adapter: the goroutine of the request,  *)
(* which subscribes; the goroutine that reads the socket; the goroutine of *)
(* Start, with the pump that writes; and the callback of the broker, which *)
(* hands messages over through a bounded channel.  The broker is the NATS  *)
(* one: a durable consumer of the session's own, which redelivers what is  *)
(* not acknowledged.                                                       *)
(*                                                                         *)
(* A message is the number of its publication on the channel's topic.      *)
(***************************************************************************)
EXTENDS Naturals, Sequences, SequencesExt, FiniteSets

CONSTANTS MaxBuffered,   \* the capacity of Client.msg
          MaxPublished,  \* bound: messages published on the topic
          MaxSlips       \* bound: requests to the broker that fail

VARIABLES sock,         \* the socket, closed by either end
          sub,          \* the request: where Subscribe is
          reader,       \* where readMessage is
          start,        \* where Start is
          handledClose,
          consumer,     \* the durable consumer exists at the broker
          consuming,    \* its callback is registered
          published,
          offered,      \* messages published while the consumer existed
          fresh,        \* messages the consumer has not delivered yet
          due,          \* messages delivered and not acknowledged
          buffered,     \* Client.msg
          written,      \* messages written to the socket
          late,         \* the consumer was created after an Unsubscribe
          stuck,        \* an Unsubscribe failed
          slips

sessionVars == <<sock, sub, reader, start, handledClose, late, stuck>>
brokerVars  == <<consumer, consuming, published, offered, fresh, due>>
vars        == <<sessionVars, brokerVars, buffered, written, slips>>

Closing == {"enter", "unsubscribe", "mark"}

TypeOK == /\ sock \in {"open", "closed"}
          /\ sub \in {"authorize", "create", "consume", "done", "failed"}
          /\ reader \in {"reading", "ended"} \cup Closing
          /\ start \in {"pumps", "done"} \cup Closing
          /\ handledClose \in BOOLEAN /\ consumer \in BOOLEAN /\ consuming \in BOOLEAN
          /\ late \in BOOLEAN /\ stuck \in BOOLEAN
          /\ published \in 0..MaxPublished
          /\ offered \subseteq 1..published
          /\ fresh \in Seq(1..published) /\ due \subseteq 1..published
          /\ buffered \in Seq(1..published) /\ Len(buffered) <= MaxBuffered
          /\ written \in Seq(1..published)
          /\ slips \in 0..MaxSlips

\* handleWebSocket after the upgrade: the close handler is set, Start runs.
Init == /\ sock = "open" /\ sub = "authorize" /\ reader = "reading" /\ start = "pumps"
        /\ handledClose = FALSE /\ consumer = FALSE /\ consuming = FALSE
        /\ published = 0 /\ offered = {} /\ fresh = <<>> /\ due = {}
        /\ buffered = <<>> /\ written = <<>>
        /\ late = FALSE /\ stuck = FALSE /\ slips = 0

Slip == slips < MaxSlips /\ slips' = slips + 1

-----------------------------------------------------------------------------
(* Subscribe, in the goroutine of the request.  An error closes the socket. *)

Fail == sub' = "failed" /\ sock' = "closed"

Authorize == /\ sub = "authorize"
             /\ \/ sub' = "create" /\ UNCHANGED sock
                \/ Fail
             /\ UNCHANGED <<reader, start, handledClose, late, stuck, brokerVars, buffered,
                            written, slips>>

Unsubscribed == handledClose \/ "mark" \in {reader, start}

\* CreateOrUpdateConsumer; when it fails the consumer may exist all the same.
Create == /\ sub = "create"
          /\ \/ sub' = "consume" /\ consumer' = TRUE /\ UNCHANGED <<sock, slips>>
             \/ Fail /\ consumer' \in BOOLEAN /\ Slip
          /\ late' = (consumer' /\ Unsubscribed)
          /\ UNCHANGED <<reader, start, handledClose, stuck, consuming, published, offered, fresh, due,
                         buffered, written>>

Consume == /\ sub = "consume"
           /\ \/ sub' = "done" /\ consuming' = TRUE /\ UNCHANGED <<sock, slips>>
              \/ Fail /\ Slip /\ UNCHANGED consuming
           /\ UNCHANGED <<reader, start, handledClose, late, stuck, consumer, published, offered, fresh,
                          due, buffered, written>>

-----------------------------------------------------------------------------
(* The close handler, run by the reader on a close frame and by Close: it calls
   Unsubscribe unless handledClose is set, and sets handledClose afterwards. *)

CloseHandler(at, end, to) ==
  \/ /\ at = "enter" /\ to = IF handledClose THEN end ELSE "unsubscribe"
     /\ UNCHANGED <<handledClose, consumer, fresh, due, stuck, slips>>
  \/ /\ at = "unsubscribe" /\ to = "mark"
     /\ \/ /\ consumer' = FALSE /\ fresh' = <<>> /\ due' = {}
           /\ UNCHANGED <<stuck, slips>>
        \/ Slip /\ stuck' = TRUE /\ UNCHANGED <<consumer, fresh, due>>
     /\ UNCHANGED handledClose
  \/ /\ at = "mark" /\ to = end /\ handledClose' = TRUE
     /\ UNCHANGED <<consumer, fresh, due, stuck, slips>>

OnCloseFrame == /\ \E to \in {"unsubscribe", "mark", "ended"} :
                     CloseHandler(reader, "ended", to) /\ reader' = to
                /\ UNCHANGED <<sock, sub, start, late, consuming, published, offered, buffered, written>>
OnClose == /\ \E to \in {"unsubscribe", "mark", "done"} :
                CloseHandler(start, "done", to) /\ start' = to
           /\ UNCHANGED <<sock, sub, reader, late, consuming, published, offered, buffered, written>>

-----------------------------------------------------------------------------
(* The ends of the session. *)

\* The peer sends a close frame, or is gone.
Leave == /\ sock = "open" /\ sock' = "closed"
         /\ \/ reader = "reading" /\ reader' = "enter"
            \/ UNCHANGED reader
         /\ UNCHANGED <<sub, start, handledClose, late, stuck, brokerVars, buffered, written, slips>>

\* readMessage: reading a closed socket is an error.
ReadFails == /\ reader = "reading" /\ sock = "closed" /\ reader' = "ended"
             /\ UNCHANGED <<sock, sub, start, handledClose, late, stuck, brokerVars, buffered,
                            written, slips>>

\* Mutant: Start does not call Close.
PumpsEndOnly == /\ start = "pumps"
                /\ reader = "ended" \/ sock = "closed"
                /\ start' = "done" /\ sock' = "closed"
                /\ UNCHANGED <<sub, reader, handledClose, late, stuck, brokerVars, buffered,
                               written, slips>>

\* The reader has ended, or a ping or a message could not be written: both pumps
\* return, and Close closes the socket and runs the close handler.
PumpsEnd == /\ start = "pumps"
            /\ \/ reader = "ended" /\ UNCHANGED buffered
               \/ sock = "closed" /\ UNCHANGED buffered
               \/ sock = "closed" /\ buffered # <<>> /\ buffered' = Tail(buffered)
            /\ start' = "enter" /\ sock' = "closed"
            /\ UNCHANGED <<sub, reader, handledClose, late, stuck, brokerVars, written, slips>>

-----------------------------------------------------------------------------
(* Messages. *)

\* Another client publishes: the consumer delivers what is new to it.
Published == /\ published < MaxPublished /\ published' = published + 1
             /\ IF consumer THEN fresh' = Append(fresh, published') /\ offered' = offered \cup {published'}
                            ELSE UNCHANGED <<fresh, offered>>
             /\ UNCHANGED <<sessionVars, consumer, consuming, due, buffered, written, slips>>

\* Mutant: a message is dropped when the channel is full.
HandleDropping(m) == /\ buffered' = IF Len(buffered) < MaxBuffered THEN Append(buffered, m)
                                                                   ELSE buffered
                     /\ due' = due \ {m} /\ UNCHANGED slips

\* natsHandler: Handle refuses a message when the channel is full, and what is
\* refused is not acknowledged; the acknowledgement itself may be lost.
Handle(m) == \/ /\ Len(buffered) < MaxBuffered /\ buffered' = Append(buffered, m)
                /\ \/ due' = due \ {m} /\ UNCHANGED slips
                   \/ due' = due \cup {m} /\ Slip
             \/ /\ Len(buffered) = MaxBuffered /\ due' = due \cup {m}
                /\ UNCHANGED <<buffered, slips>>

Deliver == /\ consumer /\ consuming /\ fresh # <<>>
           /\ Handle(Head(fresh)) /\ fresh' = Tail(fresh)
           /\ UNCHANGED <<sessionVars, consumer, consuming, published, offered, written>>
Redeliver(m) == /\ consumer /\ consuming /\ m \in due
                /\ Handle(m)
                /\ UNCHANGED <<sessionVars, consumer, consuming, published, offered, fresh, written>>

\* writePump
Write == /\ start = "pumps" /\ sock = "open" /\ buffered # <<>>
         /\ written' = Append(written, Head(buffered)) /\ buffered' = Tail(buffered)
         /\ UNCHANGED <<sessionVars, brokerVars, slips>>

-----------------------------------------------------------------------------
Subscribe == Authorize \/ Create \/ Consume

Next == \/ Subscribe \/ OnCloseFrame \/ OnClose \/ Leave \/ ReadFails \/ PumpsEnd
        \/ Published \/ Deliver \/ Write
        \/ \E m \in due : Redeliver(m)

Spec == Init /\ [][Next]_vars

-----------------------------------------------------------------------------
(* Properties *)

\* A message published while the session's consumer exists is written to the
\* socket, or the session ends: a channel that was full delays a message, and
\* does not lose it.
Delivered == []<>(offered \subseteq ToSet(written) \/ sock = "closed")

\* When a session has ended its consumer is gone for good, with two exceptions:
\* the Unsubscribe of the close handler failed, or it ran before Subscribe had
\* created the consumer.  Nothing removes the consumer in either case.
ConsumerRemoved == (sock = "closed") ~> [](~consumer \/ late \/ stuck)
=============================================================================
