---------------------------- MODULE MCDelivery ----------------------------
(***************************************************************************)
(* What reaches its destination in the end: the events that keep replicas  *)
(* of groups and of domains; the effect of an operation on the caches that *)
(* decide about messages; the events of the Redis event store; and the     *)
(* messages of a WebSocket session.  A behaviour runs one of these parts,  *)
(* and the tables are those of groups or those of domains, from the        *)
(* initial state on.                                                       *)
(***************************************************************************)
EXTENDS Naturals, SequencesExt, FiniteSets

CONSTANTS Groups, Domains, Names, Routes, MaxPathLength, BuiltInRoleAdmin, RoleIDs, RoleNames,
          Actions, Members, None, MaxOps, MaxFaults,
          g1, g2, d1, r1, m1, n1, x1,
          Secrets, Senders, Admins, MaxEvents,
          Callers, Consumers, Idle, MaxUnpublishedEvents, MaxIssued, MaxOutages,
          eventCount, MaxEntries, MaxBuffered, MaxPublished, MaxSlips

VARIABLES part,
          source, unsent, log, done, replica, pc, took, refused, lost, drawn, ops, faults, disturbed,
          client, connected, domain, keys, lastKey, cached, session, msg, adm, events,
          staleKeys, staleStatus,
          up, stream, unpublished, mu, left, closed, call, issued, accepted, dropped, outages,
          entries, group, cursor, batch, running, handled,
          sock, sub, reader, start, handledClose, consumer, consuming, published, offered, fresh, due,
          buffered, written, late, stuck, slips

GT == INSTANCE GroupTable
DT == INSTANCE DomainTable
A  == INSTANCE Access
E  == INSTANCE EventStore
S  == INSTANCE EventGroup
W  == INSTANCE WebSockets

\* A group, its child and its built-in role; a domain and its built-in role.
Admin(e) == [r \in RoleIDs |-> IF r = r1 THEN [entity |-> e, name |-> BuiltInRoleAdmin,
                                               actions |-> {}, members |-> {m1}] ELSE GT!NoRole]
Row(p, path) == [name |-> n1, status |-> "enabled", parent |-> p, path |-> path]
GroupTables == [rows |-> [g \in Groups |-> IF g = g1 THEN Row(None, <<g1>>)
                                           ELSE IF g = g2 THEN Row(g1, <<g1, g2>>) ELSE GT!NoRow],
                roles |-> Admin(g1)]
DomainTables == [rows |-> [d \in Domains |-> IF d = d1
                             THEN [name |-> n1, status |-> "enabled", route |-> x1] ELSE DT!NoRow],
                 roles |-> Admin(d1)]

OfGroups(t) == DOMAIN t.rows = Groups

Events(t)         == IF OfGroups(t) THEN GT!Events(t) ELSE DT!Events(t)
Commit(t, e)      == IF OfGroups(t) THEN GT!Commit(t, e) ELSE DT!Commit(t, e)
Handle(t, e)      == IF OfGroups(t) THEN GT!Handle(t, e) ELSE DT!Handle(t, e)
SecondWrite(t, e) == IF OfGroups(t) THEN GT!SecondWrite(t, e) ELSE DT!SecondWrite(t, e)
Touched(t, u, e)  == IF OfGroups(t) THEN GT!Touched(t, u, e) ELSE DT!Touched(t, u, e)
IDs(t)            == IF OfGroups(t) THEN GT!IDs(t) ELSE DT!IDs(t)
Tables(t)         == IF OfGroups(t) THEN t \in GT!Tables ELSE t \in DT!Tables

R == INSTANCE Replication WITH
       Initial <- {GroupTables, DomainTables}, Events <- Events, Commit <- Commit,
       Handle <- Handle, SecondWrite <- SecondWrite, Touched <- Touched, IDs <- IDs,
       TwoWrites <- GT!TwoWrites, Creates <- GT!Creates, Accumulates <- GT!Accumulates,
       Vacuous <- GT!Vacuous

rVars == <<source, unsent, log, done, replica, pc, took, refused, lost, drawn, ops, faults,
           disturbed>>
aVars == <<client, connected, domain, keys, lastKey, cached, session, msg, adm, events,
           staleKeys, staleStatus>>
eVars == <<up, stream, unpublished, mu, left, closed, call, issued, accepted, dropped, outages>>
sVars == <<entries, group, cursor, batch, running, handled>>
wVars == <<sock, sub, reader, start, handledClose, consumer, consuming, published, offered, fresh, due,
           buffered, written, late, stuck, slips>>
vars  == <<part, rVars, aVars, eVars, sVars, wVars>>

Init == /\ part \in {"replication", "access", "events", "group", "websocket"}
        /\ A!Init /\ E!Init /\ S!Init /\ W!Init
        /\ R!Init
        /\ part # "replication" => source = GroupTables

OnReplication(B) == part = "replication" /\ B /\ UNCHANGED <<part, aVars, eVars, sVars, wVars>>
OnAccess(B)      == part = "access" /\ B /\ UNCHANGED <<part, rVars, eVars, sVars, wVars>>
OnEvents(B)      == part = "events" /\ B /\ UNCHANGED <<part, rVars, aVars, sVars, wVars>>
OnWebSocket(B)   == part = "websocket" /\ B /\ UNCHANGED <<part, rVars, aVars, eVars, sVars>>

Next == \/ part = "replication" /\ R!Next /\ UNCHANGED <<part, aVars, eVars, sVars, wVars>>
        \/ part = "access" /\ A!Next /\ UNCHANGED <<part, rVars, eVars, sVars, wVars>>
        \/ part = "events" /\ E!Next /\ UNCHANGED <<part, rVars, aVars, sVars, wVars>>
        \/ part = "group" /\ S!Next /\ UNCHANGED <<part, rVars, aVars, eVars, wVars>>
        \/ part = "websocket" /\ W!Next /\ UNCHANGED <<part, rVars, aVars, eVars, sVars>>

\* The consumer keeps running and events grow old; calls return and the keys of
\* caches expire; an outage of Redis ends and the flusher's ticker ticks; the
\* goroutines of a session run, and the broker delivers what is not acknowledged.
Spec == /\ Init /\ [][Next]_vars
        /\ WF_vars(OnReplication(R!Consume))
        /\ WF_vars(OnReplication(R!Refuse))
        /\ WF_vars(OnReplication(R!Expire))
        /\ \A r \in Senders : WF_vars(OnAccess(A!Step(r)))
        /\ \A k \in A!Tokens : WF_vars(OnAccess(A!ExpireKey(k)))
        /\ WF_vars(OnAccess(A!ExpireStatus))
        /\ WF_vars(OnEvents(E!ComeUp))
        /\ \A c \in Callers : WF_vars(OnEvents(E!Step(c)))
        /\ WF_vars(OnEvents(E!Tick \/ E!Flush \/ E!Flushed))
        /\ WF_vars(OnWebSocket(W!Subscribe))
        /\ WF_vars(OnWebSocket(W!PumpsEnd \/ W!Write))
        /\ WF_vars(OnWebSocket(W!OnClose))
        /\ WF_vars(OnWebSocket(W!Deliver))
        /\ \A m \in 1..MaxPublished : WF_vars(OnWebSocket(W!Redeliver(m)))

TypeOK == /\ R!TypeOK /\ A!TypeOK /\ E!TypeOK /\ S!TypeOK /\ W!TypeOK
          /\ Tables(source) /\ Tables(replica)
ReplicaFollows == R!ReplicaFollows
RefusalsExplained == R!RefusalsExplained
CaughtUp == R!CaughtUp
InOrder == R!InOrder
ShutOut == A!ShutOut
AcceptedKept == E!AcceptedKept
HandledOnce == S!HandledOnce
Drained == E!Drained
Delivered == W!Delivered
ConsumerRemoved == W!ConsumerRemoved
=============================================================================
