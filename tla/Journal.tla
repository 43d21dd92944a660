------------------------------ MODULE Journal ------------------------------
(***************************************************************************)
(* The journal service: it writes every event of the platform into its     *)
(* journal and keeps, for each client, how many messages went in and out   *)
(* and what it is subscribed to (journal/service.go, journal/postgres).    *)
(* Its consumer is not an ordered one: an event that was not acknowledged, *)
(* because the service stopped or the acknowledgement was lost, comes back *)
(* at any later time.                                                      *)
(*                                                                         *)
(* One channel, one subtopic.  An event is named by its position in the    *)
(* stream; no two have the same time and attributes.                       *)
(***************************************************************************)
EXTENDS Naturals, FiniteSets, SequencesExt

CONSTANTS JClients, Subscribers, None,
          MaxJournal,  \* bound: events in the stream
          MaxJFaults   \* bound: crashes, lost acknowledgements and failing statements

VARIABLES sent,       \* the stream of events
          seen,       \* how many of them have been delivered
          due,        \* events delivered and not acknowledged
          cur,        \* the event in the handler and its place there
          journal,    \* rows of the journal, in the order of their insertion
          telemetry,  \* rows of clients_telemetry
          subs,       \* rows of subscriptions, by the event that made them
          unsaved,    \* events acknowledged although their row could not be written
          torn,       \* the telemetry of an event in the journal was not completed
          jfaults

vars == <<sent, seen, due, cur, journal, telemetry, subs, unsaved, torn, jfaults>>

\* An unsubscribe is a messaging.client_unsubscribe or an mqtt.client_disconnect.
Event(op, c, s) == [op |-> op, client |-> c, subscriber |-> s]

NoRow == [inbound |-> None, outbound |-> None]
NoEvent == [event |-> 0, at |-> "idle"]

(***************************************************************************)
(* What the other services publish.  The consumer takes the events at its  *)
(* own pace, so that it makes no difference when they were published: the  *)
(* stream holds them from the start.                                       *)
(***************************************************************************)
Published ==
  {Event(op, c, None) : op \in {"client.create", "client.remove", "messaging.client_publish"}, c \in JClients}
  \cup {Event(op, c, s) : op \in {"mqtt.client_subscribe", "messaging.client_subscribe"},
                          c \in JClients, s \in Subscribers}
  \cup {Event("unsubscribe", None, s) : s \in Subscribers}

\* A client is created once, and removed after that and once.  A shorter stream is
\* the beginning of one of these.
Streams ==
  {s \in [1 .. MaxJournal -> Published] :
     \A c \in JClients :
       LET created == {i \in DOMAIN s : s[i] = Event("client.create", c, None)}
           removed == {i \in DOMAIN s : s[i] = Event("client.remove", c, None)}
       IN  /\ Cardinality(created) <= 1 /\ Cardinality(removed) <= 1
           /\ \A i \in removed : \E j \in created : j < i}

TypeOK ==
  /\ seen \in 0 .. Len(sent) /\ due \subseteq 1 .. seen
  /\ cur.at \in {"idle", "save", "telemetry", "outbound", "ack"}
  /\ cur.event \in due \cup {0} /\ (cur.event = 0 <=> cur.at = "idle")
  /\ ToSet(journal) \subseteq 1 .. seen /\ unsaved \subseteq 1 .. seen
  /\ telemetry \in [JClients -> {NoRow} \cup [inbound : 0 .. MaxJournal, outbound : Nat]]
  /\ \A r \in subs : telemetry[r.client] # NoRow
  /\ jfaults \in 0 .. MaxJFaults

Init ==
  /\ sent \in Streams /\ seen = 0 /\ due = {} /\ cur = NoEvent
  /\ journal = <<>> /\ telemetry = [c \in JClients |-> NoRow] /\ subs = {}
  /\ unsaved = {} /\ torn = FALSE /\ jfaults = 0

stream == <<sent, seen>>
tables == <<journal, telemetry, subs>>

-----------------------------------------------------------------------------
(* The tables. *)

Has(c) == telemetry[c] # NoRow

SaveClientTelemetry(c) ==
  /\ telemetry' = IF Has(c) THEN telemetry
                  ELSE [telemetry EXCEPT ![c] = [inbound |-> 0, outbound |-> 0]]
  /\ UNCHANGED subs

\* ON DELETE CASCADE.
DeleteClientTelemetry(c) ==
  /\ telemetry' = [telemetry EXCEPT ![c] = NoRow]
  /\ subs' = {r \in subs : r.client # c}

\* A client without telemetry gets no row, which is no error.
AddSubscription(i, e, topic) ==
  /\ subs' = IF Has(e.client)
             THEN subs \cup {[id |-> i, client |-> e.client, subscriber |-> e.subscriber, topic |-> topic]}
             ELSE subs
  /\ UNCHANGED telemetry

RemoveSubscription(s) == subs' = {r \in subs : r.subscriber # s} /\ UNCHANGED telemetry

IncrementInboundMessages(c) ==
  /\ telemetry' = [telemetry EXCEPT ![c] = IF Has(c) THEN [@ EXCEPT !.inbound = @ + 1]
                                           ELSE [inbound |-> 1, outbound |-> 0]]
  /\ UNCHANGED subs

\* The rows on the topic, counted for each of these clients.
IncrementOutboundMessages(C) ==
  /\ telemetry' = [c \in JClients |->
       LET n == Cardinality({r \in subs : r.client = c /\ r.topic = "channel"})
       IN  IF c \in C /\ n > 0 THEN [telemetry[c] EXCEPT !.outbound = @ + n] ELSE telemetry[c]]
  /\ UNCHANGED subs

-----------------------------------------------------------------------------
(* The handler. *)

Deliver(i) ==
  /\ cur = NoEvent /\ i \in due \cup {seen + 1} /\ i <= Len(sent)
  /\ seen' = IF i > seen THEN i ELSE seen
  /\ due' = due \cup {i}
  /\ cur' = [event |-> i, at |-> "save"]
  /\ UNCHANGED <<sent, tables, unsaved, torn, jfaults>>

Goto(p) == cur' = [cur EXCEPT !.at = p]

\* Mutant: ON CONFLICT DO NOTHING.
SaveTwice ==
  /\ cur.at = "save"
  /\ journal' = IF cur.event \in ToSet(journal) THEN journal ELSE Append(journal, cur.event)
  /\ Goto("telemetry")
  /\ UNCHANGED <<stream, due, telemetry, subs, unsaved, torn, jfaults>>

\* UNIQUE (operation, occurred_at, attributes): an event that is there is an error,
\* and its telemetry is not looked at again.
Save ==
  /\ cur.at = "save"
  /\ IF cur.event \in ToSet(journal) THEN Goto("ack") /\ UNCHANGED journal
     ELSE journal' = Append(journal, cur.event) /\ Goto("telemetry")
  /\ UNCHANGED <<stream, due, telemetry, subs, unsaved, torn, jfaults>>

\* addSubscription takes the second and the third label of the topic for the channel
\* and the subtopic.  EncodeTopic (pkg/messaging/topics.go) writes m.<domain>.c.<channel>,
\* so that they are the domain and "c".
addSubscription(i, e) == AddSubscription(i, e, "domain")
addMqttSubscription(i, e) == AddSubscription(i, e, "channel")

handleTelemetry ==
  LET i == cur.event
      e == sent[i]
  IN  /\ cur.at = "telemetry"
      /\ CASE e.op = "client.create"              -> SaveClientTelemetry(e.client)
           [] e.op = "client.remove"              -> DeleteClientTelemetry(e.client)
           [] e.op = "mqtt.client_subscribe"      -> addMqttSubscription(i, e)
           [] e.op = "messaging.client_subscribe" -> addSubscription(i, e)
           [] e.op = "unsubscribe"                -> RemoveSubscription(e.subscriber)
           [] e.op = "messaging.client_publish"   -> IncrementInboundMessages(e.client)
      /\ Goto(IF e.op = "messaging.client_publish" THEN "outbound" ELSE "ack")
      /\ UNCHANGED <<stream, due, journal, unsaved, torn, jfaults>>

updateMessageCount ==
  /\ cur.at = "outbound"
  /\ IncrementOutboundMessages(JClients)
  /\ Goto("ack")
  /\ UNCHANGED <<stream, due, journal, unsaved, torn, jfaults>>

\* Whatever service.Save answered, the event is acknowledged.
Handled ==
  /\ cur.at = "ack"
  /\ due' = due \ {cur.event} /\ cur' = NoEvent
  /\ UNCHANGED <<stream, tables, unsaved, torn, jfaults>>

Fault == jfaults < MaxJFaults /\ jfaults' = jfaults + 1

\* A statement fails.  The updates of outbound_messages are not part of the
\* transaction around them: those before the failure stay.
Fail ==
  /\ cur.at \in {"save", "telemetry", "outbound"} /\ Fault
  /\ unsaved' = IF cur.at = "save" THEN unsaved \cup ({cur.event} \ ToSet(journal)) ELSE unsaved
  /\ torn' = (torn \/ cur.at # "save")
  /\ IF cur.at = "outbound" THEN \E C \in SUBSET JClients : IncrementOutboundMessages(C)
                            ELSE UNCHANGED <<telemetry, subs>>
  /\ Goto("ack")
  /\ UNCHANGED <<stream, due, journal>>

\* The service stops, or the acknowledgement is lost.
Interrupt ==
  /\ cur # NoEvent /\ Fault
  /\ torn' = (torn \/ cur.at \in {"telemetry", "outbound"})
  /\ cur' = NoEvent
  /\ UNCHANGED <<stream, due, tables, unsaved>>

Next == \/ \E i \in 1 .. MaxJournal : Deliver(i)
        \/ Save \/ handleTelemetry \/ updateMessageCount \/ Handled \/ Fail \/ Interrupt

Spec == Init /\ [][Next]_vars

-----------------------------------------------------------------------------
(* Properties. *)

\* What the telemetry should be by the journal, for the events in the order of
\* their rows.  Since the last removal of the client: it has a row from the first
\* creation or message on.
Rows == DOMAIN journal
Row(n) == sent[journal[n]]
Removed(c, n) == \E m \in Rows : m > n /\ Row(m) = Event("client.remove", c, None)
Appears(c, n) == Row(n).client = c /\ Row(n).op \in {"client.create", "messaging.client_publish"}
Kept(c, n) == \E m \in Rows : m < n /\ Appears(c, m) /\ ~\E k \in m .. n : Row(k) = Event("client.remove", c, None)
Messages == {n \in Rows : Row(n).op = "messaging.client_publish"}

\* Row n made a subscription of c that is still there at row m.
Subscribed(c, n, m, ops) ==
  /\ n < m /\ Row(n).client = c /\ Row(n).op \in ops /\ Kept(c, n)
  /\ \A k \in n .. m : k \in Rows => /\ Row(k) # Event("client.remove", c, None)
                                     /\ Row(k) # Event("unsubscribe", None, Row(n).subscriber)

SubscribeOps == {"mqtt.client_subscribe", "messaging.client_subscribe"}

\* Each event is counted once and in the order of the journal, however often it is
\* delivered: an acknowledged event has its row, unless the database failed, and
\* between two events the counters and subscriptions are those the journal implies,
\* unless the service stopped or the database failed after a row was written.  A
\* client gets a message for each of its MQTT subscriptions; those of the other
\* adapters are kept and never counted, for their row names the domain where the
\* channel belongs.
TelemetryFollows ==
  /\ 1 .. seen \subseteq ToSet(journal) \cup unsaved \cup due
  /\ cur = NoEvent /\ ~torn =>
       \A c \in JClients :
         LET live == {n \in Messages : ~Removed(c, n)}
         IN  /\ Has(c) <=> \E n \in Rows : Appears(c, n) /\ ~Removed(c, n)
             /\ Has(c) =>
                  /\ telemetry[c].inbound = Cardinality({n \in live : Row(n).client = c})
                  /\ telemetry[c].outbound =
                       Cardinality({<<n, m>> \in Rows \X live : Subscribed(c, n, m, {"mqtt.client_subscribe"})})
             /\ {r.id : r \in {r \in subs : r.client = c}} =
                  {journal[n] : n \in {n \in Rows : Subscribed(c, n, Len(journal) + 1, SubscribeOps)}}
=============================================================================
