---------------------------- MODULE Connections ----------------------------
(***************************************************************************)
(* Connections between clients and channels.  The channels service and the *)
(* clients service each keep a table of connections.  The channels table   *)
(* decides whether a client may publish or subscribe (ClientAuthorize in   *)
(* channels/private); the clients table decides whether a client that is   *)
(* deleted has to be disconnected.  Connect and Disconnect                 *)
(* (channels/service.go) write the clients table through gRPC first and    *)
(* their own table second; nothing is compensated.  RemoveChannel and      *)
(* Delete (clients/service.go) clear the other table through gRPC when     *)
(* their own table shows a connection, and lose their own rows with the    *)
(* row of the entity (ON DELETE CASCADE).                                  *)
(*                                                                         *)
(* Each call to a table is one step.  The roles and policies a removal     *)
(* deletes in between are the subject of Roles; here they are the point    *)
(* between "status" and "remove" where the removal may stop.               *)
(***************************************************************************)
EXTENDS FiniteSets

CONSTANTS Channels, Clients,  \* IDs of existing channels and clients
          Types,              \* connection types: publish, subscribe
          Requests            \* handlers that can be in flight

VARIABLES channels,     \* status of the rows of the channels table
          clients,      \* status of the rows of the clients table
          channelConns, \* table connections of the channels service
          clientConns,  \* table connections of the clients service
          req,          \* the handlers in flight
          split         \* connections on which the tables may differ
                        \* (history, see Split)

entities == <<channels, clients>>
tables   == <<channelConns, clientConns>>
vars     == <<entities, tables, req, split>>

Conns  == Channels \X Clients \X Types
Status == {"enabled", "disabled", "deleted", "absent"}
Ops    == {"Connect", "Disconnect", "RemoveChannel", "DeleteClient"}

Idle == [op |-> "idle", pc |-> "done", conns |-> {}, met |-> {}]

\* met: connections that other requests worked on meanwhile.
RequestType ==
  [op : Ops, pc : {"clients", "check", "have", "other", "own", "status", "remove"},
   conns : SUBSET Conns, met : SUBSET Conns]

\* The foreign keys hold: a connection's own entity has a row.
TypeOK ==
  /\ channels \in [Channels -> Status]
  /\ clients \in [Clients -> Status]
  /\ channelConns \subseteq {x \in Conns : channels[x[1]] # "absent"}
  /\ clientConns \subseteq {x \in Conns : clients[x[2]] # "absent"}
  /\ req \in [Requests -> RequestType \cup {Idle}]
  /\ split \subseteq Conns

\* All entities have been created and nothing is connected yet.
Init ==
  /\ channels = [c \in Channels |-> "enabled"]
  /\ clients = [t \in Clients |-> "enabled"]
  /\ channelConns = {} /\ clientConns = {} /\ split = {}
  /\ req = [p \in Requests |-> Idle]

-----------------------------------------------------------------------------
(* Requests and the history variable. *)

\* The tables may differ on a connection only after a Connect overlapped a
\* request that removes it, or a request ended between its two writes.
Split(S) == split' = split \cup S

Overlapped(p, q) ==
  {x \in q.conns : \E o \in Requests \ {p} : /\ x \in req[o].conns
                                             /\ (req[o].op = "Connect") # (q.op = "Connect")}

Begin(p, op, pc, C) ==
  LET q == [op |-> op, pc |-> pc, conns |-> C,
            met |-> {x \in C : \E o \in Requests \ {p} : x \in req[o].conns}]
  IN  /\ req[p] = Idle
      /\ req' = [o \in Requests |-> IF o = p THEN q
                                    ELSE [req[o] EXCEPT !.met = @ \cup (C \cap req[o].conns)]]
      /\ Split(Overlapped(p, q))

Goto(p, pc)  == req' = [req EXCEPT ![p].pc = pc]
Finish(p)    == req' = [req EXCEPT ![p] = Idle]
At(p, O, pc) == req[p].op \in O /\ req[p].pc = pc

\* A request that writes both tables, undisturbed, brings them together again.
Heal(p) == split' = split \ (req[p].conns \ req[p].met)

ChannelsOf(p) == {x[1] : x \in req[p].conns}
ClientsOf(p)  == {x[2] : x \in req[p].conns}

-----------------------------------------------------------------------------
(* Connect and Disconnect, channels/service.go. *)

Connect(p, C, T, Y) ==
  /\ C # {} /\ T # {} /\ Y # {}
  /\ \A c \in C : channels[c] = "enabled"
  /\ Begin(p, "Connect", "clients", C \X T \X Y)
  /\ UNCHANGED <<entities, tables>>

Disconnect(p, C, T, Y) ==
  /\ C # {} /\ T # {} /\ Y # {}
  /\ \A c \in C : channels[c] # "absent"
  /\ Begin(p, "Disconnect", "clients", C \X T \X Y)
  /\ UNCHANGED <<entities, tables>>

\* RetrieveEntity of each client through gRPC; Connect wants them enabled.
CheckClients(p) ==
  /\ req[p].pc = "clients"
  /\ LET ok == \A t \in ClientsOf(p) : IF req[p].op = "Connect" THEN clients[t] = "enabled"
                                                                ELSE clients[t] # "absent"
     IN  IF ok THEN Goto(p, IF req[p].op = "Connect" THEN "check" ELSE "other") ELSE Finish(p)
  /\ UNCHANGED <<entities, tables, split>>

\* CheckConnection of each connection in the own table.
CheckConnection(p) ==
  /\ At(p, {"Connect"}, "check")
  /\ IF req[p].conns \cap channelConns = {} THEN Goto(p, "other") ELSE Finish(p)
  /\ UNCHANGED <<entities, tables, split>>

\* AddConnections of the clients service: one INSERT, all rows or none, under
\* the primary key and the foreign key.
AddClientConns(p) ==
  /\ At(p, {"Connect"}, "other")
  /\ IF /\ req[p].conns \cap clientConns = {}
        /\ \A t \in ClientsOf(p) : clients[t] # "absent"
     THEN clientConns' = clientConns \cup req[p].conns /\ Goto(p, "own")
     ELSE Finish(p) /\ UNCHANGED clientConns
  /\ UNCHANGED <<entities, channelConns, split>>

\* AddConnections of the own repository.  If it is refused, the rows of the
\* clients table stay.
AddChannelConns(p) ==
  /\ At(p, {"Connect"}, "own")
  /\ LET ok == /\ req[p].conns \cap channelConns = {}
               /\ \A c \in ChannelsOf(p) : channels[c] # "absent"
     IN  /\ channelConns' = IF ok THEN channelConns \cup req[p].conns ELSE channelConns
         /\ Split(IF ok THEN {} ELSE req[p].conns)
  /\ Finish(p)
  /\ UNCHANGED <<entities, clientConns>>

RemoveClientConns(p) ==
  /\ At(p, {"Disconnect"}, "other")
  /\ clientConns' = clientConns \ req[p].conns
  /\ Goto(p, "own")
  /\ UNCHANGED <<entities, channelConns, split>>

\* Mutant: RemoveConnections stops after the first connection.
RemoveOneChannelConn(p) ==
  /\ At(p, {"Disconnect"}, "own")
  /\ \E x \in req[p].conns : channelConns' = channelConns \ {x}
  /\ Finish(p)
  /\ Heal(p)
  /\ UNCHANGED <<entities, clientConns>>

RemoveChannelConns(p) ==
  /\ At(p, {"Disconnect"}, "own")
  /\ channelConns' = channelConns \ req[p].conns
  /\ Finish(p)
  /\ Heal(p)
  /\ UNCHANGED <<entities, clientConns>>

-----------------------------------------------------------------------------
(* RemoveChannel, channels/service.go, and Delete, clients/service.go. *)

RemoveChannel(p, c) ==
  /\ channels[c] # "absent"
  /\ Begin(p, "RemoveChannel", "have", {c} \X Clients \X Types)
  /\ UNCHANGED <<entities, tables>>

DeleteClient(p, t) ==
  /\ clients[t] # "absent"
  /\ Begin(p, "DeleteClient", "have", Channels \X {t} \X Types)
  /\ UNCHANGED <<entities, tables>>

\* DoesChannelHaveConnections, DoesClientHaveConnections: the own table.
DoesHaveConnections(p) ==
  /\ req[p].pc = "have"
  /\ LET own == IF req[p].op = "RemoveChannel" THEN channelConns ELSE clientConns
     IN  Goto(p, IF own \cap req[p].conns # {} THEN "other" ELSE "status")
  /\ UNCHANGED <<entities, tables, split>>

\* RemoveChannelConnections of the clients service, RemoveClientConnections of
\* the channels service.
RemoveOtherConns(p) ==
  /\ At(p, {"RemoveChannel", "DeleteClient"}, "other")
  /\ IF req[p].op = "RemoveChannel"
     THEN clientConns' = clientConns \ req[p].conns /\ UNCHANGED channelConns
     ELSE channelConns' = channelConns \ req[p].conns /\ UNCHANGED clientConns
  /\ Goto(p, "status")
  /\ UNCHANGED <<entities, split>>

\* The row is marked deleted; it may have gone.
MarkDeleted(p) ==
  /\ req[p].pc = "status"
  /\ LET C == IF req[p].op = "RemoveChannel" THEN ChannelsOf(p) ELSE {}
         T == IF req[p].op = "DeleteClient" THEN ClientsOf(p) ELSE {}
     IN  IF (\E c \in C : channels[c] = "absent") \/ (\E t \in T : clients[t] = "absent")
         THEN Finish(p) /\ UNCHANGED entities
         ELSE /\ channels' = [c \in Channels |-> IF c \in C THEN "deleted" ELSE channels[c]]
              /\ clients' = [t \in Clients |-> IF t \in T THEN "deleted" ELSE clients[t]]
              /\ Goto(p, "remove")
  /\ UNCHANGED <<tables, split>>

\* Mutant: the rows of the connections stay.
RemoveRowOnly(p) ==
  /\ req[p].pc = "remove"
  /\ IF req[p].op = "RemoveChannel"
     THEN /\ channels' = [c \in Channels |-> IF c \in ChannelsOf(p) THEN "absent" ELSE channels[c]]
          /\ UNCHANGED clients
     ELSE /\ clients' = [t \in Clients |-> IF t \in ClientsOf(p) THEN "absent" ELSE clients[t]]
          /\ UNCHANGED channels
  /\ Finish(p)
  /\ UNCHANGED <<tables, split>>

\* repo.Remove, repo.Delete: the row goes, and its connections with it.
RemoveRow(p) ==
  /\ req[p].pc = "remove"
  /\ IF req[p].op = "RemoveChannel"
     THEN /\ channels' = [c \in Channels |-> IF c \in ChannelsOf(p) THEN "absent" ELSE channels[c]]
          /\ channelConns' = channelConns \ req[p].conns
          /\ UNCHANGED <<clients, clientConns>>
     ELSE /\ clients' = [t \in Clients |-> IF t \in ClientsOf(p) THEN "absent" ELSE clients[t]]
          /\ clientConns' = clientConns \ req[p].conns
          /\ UNCHANGED <<channels, channelConns>>
  /\ Finish(p)
  /\ UNCHANGED split

-----------------------------------------------------------------------------
(* Status changes and failures. *)

\* EnableChannel and DisableChannel; their write does not depend on what they
\* read, and it may be late: a row being removed can be enabled again.
ChangeChannelStatus(c, s) ==
  /\ channels[c] \notin {"absent", s}
  /\ channels' = [channels EXCEPT ![c] = s]
  /\ UNCHANGED <<clients, tables, req, split>>

\* Enable and Disable of the clients service.
ChangeClientStatus(t, s) ==
  /\ clients[t] \notin {"absent", s}
  /\ clients' = [clients EXCEPT ![t] = s]
  /\ UNCHANGED <<channels, tables, req, split>>

\* Connections on which the tables differ if the request ends where it is.
HalfDone(p) ==
  IF \/ req[p].pc = "own"
     \/ req[p].op \in {"RemoveChannel", "DeleteClient"} /\ req[p].pc \in {"status", "remove"}
  THEN req[p].conns ELSE {}

\* The next call fails, or the service stops: nothing is compensated, so
\* both end the request where it is.
Stop(p) ==
  /\ req[p] # Idle
  /\ Finish(p)
  /\ Split(HalfDone(p))
  /\ UNCHANGED <<entities, tables>>

-----------------------------------------------------------------------------
Start(p) ==
  \/ \E C \in SUBSET Channels, T \in SUBSET Clients, Y \in SUBSET Types :
        Connect(p, C, T, Y) \/ Disconnect(p, C, T, Y)
  \/ \E c \in Channels : RemoveChannel(p, c)
  \/ \E t \in Clients : DeleteClient(p, t)

Step(p) ==
  \/ CheckClients(p) \/ CheckConnection(p) \/ AddClientConns(p) \/ AddChannelConns(p)
  \/ RemoveClientConns(p) \/ RemoveChannelConns(p)
  \/ DoesHaveConnections(p) \/ RemoveOtherConns(p) \/ MarkDeleted(p) \/ RemoveRow(p)

ChangeStatus ==
  \E s \in {"enabled", "disabled"} : \/ \E c \in Channels : ChangeChannelStatus(c, s)
                                     \/ \E t \in Clients : ChangeClientStatus(t, s)

ReliableNext == (\E p \in Requests : Start(p) \/ Step(p)) \/ ChangeStatus
ReliableSpec == Init /\ [][ReliableNext]_vars

Next == ReliableNext \/ \E p \in Requests : Stop(p)
Spec == Init /\ [][Next]_vars

-----------------------------------------------------------------------------
(* Properties. *)

\* A client may use a channel exactly if the clients service knows that the
\* two are connected, for every connection that no request in flight works
\* on, unless a Connect met a removal on it or a request ended between its two
\* writes.  Connects that race each other are decided by the primary key of the
\* clients table.  And a Disconnect that runs to its end undisturbed repairs
\* whatever was left behind on its connections.
TablesAgree ==
  \A x \in Conns \ split :
    (\A p \in Requests : x \notin req[p].conns) => (x \in channelConns <=> x \in clientConns)

\* "This guarantees that when a client is deleted, all channel connections are
\* automatically removed" (clients/README.md:330), once nothing is in flight.
DeletedClientsDisconnected ==
  (\A p \in Requests : req[p] = Idle) => \A x \in channelConns : clients[x[2]] # "absent"
-----------------------------------------------------------------------------
(* The inductive strengthening of TablesAgree. *)

Removals == {"RemoveChannel", "DeleteClient"}

\* Which operation is at which stage, and that a removal works on the
\* connections of its entity, all of them.
Shape ==
  \A p \in Requests :
    /\ req[p].pc \in {"clients", "own"} => req[p].op \in {"Connect", "Disconnect"}
    /\ req[p].pc \in {"have", "status", "remove"} => req[p].op \in Removals
    /\ \A x \in req[p].conns, y \in Conns :
          /\ req[p].op = "RemoveChannel" => (y \in req[p].conns <=> y[1] = x[1])
          /\ req[p].op = "DeleteClient" => (y \in req[p].conns <=> y[2] = x[2])

\* Requests that work on one connection have met there, and if only one of
\* them connects the tables may differ on it.
Apart ==
  \A p, o \in Requests : p # o =>
    \A x \in req[p].conns \cap req[o].conns :
      /\ x \in req[p].met
      /\ (req[p].op = "Connect") # (req[o].op = "Connect") => x \in split

\* What a request knows of the tables between its two writes.
Knows ==
  \A p \in Requests, x \in Conns :
    /\ At(p, {"Connect"}, "own") /\ x \in req[p].conns \ split => x \in clientConns
    /\ At(p, {"Disconnect"}, "own") /\ x \in req[p].conns \ (split \cap req[p].met)
          => x \notin clientConns
    /\ req[p].pc \in {"status", "remove"} /\ x \in req[p].conns \ split
          => ~(x \in channelConns /\ x \in clientConns)

\* The request may have left x in the clients table only, and in the channels
\* table only.
LeavesClientConn(q, x) ==
  x \in q.conns /\ \/ q.op = "Connect" /\ q.pc = "own"
                   \/ q.op = "DeleteClient" /\ q.pc \in {"status", "remove"}

LeavesChannelConn(q, x) ==
  x \in q.conns /\ \/ q.op = "Disconnect" /\ q.pc = "own"
                   \/ q.op = "RemoveChannel" /\ q.pc \in {"status", "remove"}

\* A connection outside split that only one table has is the business of a
\* request between its two writes.
Explained ==
  \A x \in Conns \ split :
    /\ x \in clientConns \ channelConns => \E p \in Requests : LeavesClientConn(req[p], x)
    /\ x \in channelConns \ clientConns => \E p \in Requests : LeavesChannelConn(req[p], x)

IInv == TypeOK /\ Shape /\ Apart /\ Knows /\ Explained
=============================================================================
