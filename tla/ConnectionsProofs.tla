-------------------------- MODULE ConnectionsProofs -------------------------
(* The tables of connections of the two services agree outside the named      *)
(* overlaps and losses, for any channels, clients, types and any number of     *)
(* handlers in flight.                                                         *)
EXTENDS Connections, TLAPS

\* The provers a leaf is tried with, in this order.
USE SMT, Zenon, SMTT(20), SMTT(30)

\* The stages a request in flight can be at.
Pcs == {"clients", "check", "have", "other", "own", "status", "remove"}

\* A request not in flight works on nothing.
LEMMA IdleFacts ==
  /\ Idle.conns = {} /\ Idle.pc \notin Pcs /\ Idle.op \notin Ops
  /\ Idle \notin RequestType
BY DEF Idle, Ops, Pcs, RequestType

\* A request that is at a stage is in flight.
LEMMA InFlight ==
  ASSUME TypeOK, NEW p \in Requests, req[p].pc \in Pcs \/ req[p] # Idle
  PROVE  /\ req[p] \in RequestType /\ req[p].op \in Ops /\ req[p].pc \in Pcs
         /\ req[p].conns \subseteq Conns /\ req[p].met \subseteq Conns
BY IdleFacts DEF TypeOK, RequestType, Pcs

\* A request goes to another stage: nothing else of it changes, and the
\* operation must fit the stage.
LEMMA GotoMoves ==
  ASSUME IInv, NEW p \in Requests, NEW pc \in Pcs, Goto(p, pc), req[p] \in RequestType,
         pc = "own" => req[p].op \in {"Connect", "Disconnect"},
         pc \in {"status", "remove"} => req[p].op \in Removals,
         pc \notin {"clients", "have"}, split \subseteq split'
  PROVE  /\ req' \in [Requests -> RequestType \cup {Idle}]
         /\ \A o \in Requests \ {p} : req'[o] = req[o]
         /\ req'[p].op = req[p].op /\ req'[p].pc = pc
         /\ req'[p].conns = req[p].conns /\ req'[p].met = req[p].met
         /\ Shape' /\ Apart'
<1>1. /\ req' \in [Requests -> RequestType \cup {Idle}]
      /\ \A o \in Requests \ {p} : req'[o] = req[o]
      /\ req'[p].op = req[p].op /\ req'[p].pc = pc
      /\ req'[p].conns = req[p].conns /\ req'[p].met = req[p].met
  BY DEF IInv, TypeOK, Goto, RequestType, Pcs
<1>2. Shape'
  BY <1>1 DEF IInv, Shape
<1>3. Apart'
  BY <1>1 DEF IInv, Apart
<1> QED BY <1>1, <1>2, <1>3

\* A request ends.  Connections it met nobody on may leave split.
LEMMA FinishMoves ==
  ASSUME IInv, NEW p \in Requests, Finish(p),
         split \ (req[p].conns \ req[p].met) \subseteq split'
  PROVE  /\ req' \in [Requests -> RequestType \cup {Idle}]
         /\ \A o \in Requests \ {p} : req'[o] = req[o]
         /\ req'[p] = Idle /\ req'[p].conns = {}
         /\ Shape' /\ Apart'
<1>1. /\ req' \in [Requests -> RequestType \cup {Idle}]
      /\ \A o \in Requests \ {p} : req'[o] = req[o]
      /\ req'[p] = Idle
  BY DEF IInv, TypeOK, Finish
<1>2. Idle.conns = {} /\ Idle.pc = "done"
  BY DEF Idle
<1>3. Shape'
  BY <1>1, <1>2 DEF IInv, Shape
<1>4. Apart'
  <2> SUFFICES ASSUME NEW o \in Requests, NEW r \in Requests, o # r,
                      NEW x \in req'[o].conns \cap req'[r].conns
               PROVE  /\ x \in req'[o].met
                      /\ (req'[o].op = "Connect") # (req'[r].op = "Connect") => x \in split'
    BY DEF Apart
  <2>1. o # p /\ r # p /\ req'[o] = req[o] /\ req'[r] = req[r]
    BY <1>1, <1>2
  <2>2. x \in req[p].conns => x \in req[p].met
    BY <2>1 DEF IInv, Apart
  <2> QED BY <2>1, <2>2 DEF IInv, Apart
<1> QED BY <1>1, <1>2, <1>3, <1>4

\* A request starts: it knows nothing yet, and what it overlaps is excepted.
LEMMA BeginInv ==
  ASSUME IInv, NEW p \in Requests, NEW op \in Ops, NEW pc \in {"clients", "have"},
         NEW C \in SUBSET Conns, Begin(p, op, pc, C), UNCHANGED <<entities, tables>>,
         pc = "clients" => op \in {"Connect", "Disconnect"},
         pc = "have" => op \in Removals,
         \A x \in C, y \in Conns : /\ op = "RemoveChannel" => (y \in C <=> y[1] = x[1])
                                   /\ op = "DeleteClient" => (y \in C <=> y[2] = x[2])
  PROVE  IInv'
<1> DEFINE M == {x \in C : \E o \in Requests \ {p} : x \in req[o].conns}
           q == [op |-> op, pc |-> pc, conns |-> C, met |-> M]
           grown(o) == [req[o] EXCEPT !.met = @ \cup (C \cap req[o].conns)]
<1>1. /\ req[p] = Idle
      /\ req' = [o \in Requests |-> IF o = p THEN q ELSE grown(o)]
      /\ split' = split \cup Overlapped(p, q)
  BY DEF Begin, Split
<1>2. q \in RequestType
  BY DEF RequestType
<1>3. ASSUME NEW o \in Requests \ {p}
      PROVE  /\ req'[o] \in RequestType \cup {Idle}
             /\ req'[o].op = req[o].op /\ req'[o].pc = req[o].pc
             /\ req'[o].conns = req[o].conns
             /\ req'[o].met = req[o].met \cup (C \cap req[o].conns)
  <2>1. req'[o] = grown(o)
    BY <1>1
  <2>2. CASE req[o] = Idle
    <3>1. req[o].met \cup (C \cap req[o].conns) = {}
      BY <2>2 DEF Idle
    <3>2. req'[o] = [op |-> "idle", pc |-> "done", conns |-> {},
                     met |-> req[o].met \cup (C \cap req[o].conns)]
      BY <2>1, <2>2 DEF Idle
    <3> QED BY <2>2, <3>1, <3>2 DEF Idle
  <2>3. CASE req[o] \in RequestType
    <3>1. req'[o] = [op |-> req[o].op, pc |-> req[o].pc, conns |-> req[o].conns,
                     met |-> req[o].met \cup (C \cap req[o].conns)]
      BY <2>1, <2>3 DEF RequestType
    <3>2. req[o].met \cup (C \cap req[o].conns) \in SUBSET Conns
      BY <2>3 DEF RequestType
    <3> QED BY <2>3, <3>1, <3>2 DEF RequestType
  <2> QED BY <2>2, <2>3 DEF IInv, TypeOK
<1>4. req'[p] = q /\ req'[p].op = op /\ req'[p].pc = pc /\ req'[p].conns = C /\ req'[p].met = M
  BY <1>1
<1>5. split \subseteq split' /\ split' \subseteq Conns
  BY <1>1 DEF Overlapped, IInv, TypeOK
<1>6. req' \in [Requests -> RequestType \cup {Idle}]
  <2>1. \A o \in Requests : req'[o] \in RequestType \cup {Idle}
    BY <1>2, <1>3, <1>4
  <2> QED BY <1>1, <2>1
<1>7. TypeOK'
  BY <1>5, <1>6 DEF IInv, TypeOK, entities, tables
<1>8. Shape'
  <2> DEFINE Fits(r) ==
         /\ r.pc \in {"clients", "own"} => r.op \in {"Connect", "Disconnect"}
         /\ r.pc \in {"have", "status", "remove"} => r.op \in Removals
         /\ \A x \in r.conns, y \in Conns :
               /\ r.op = "RemoveChannel" => (y \in r.conns <=> y[1] = x[1])
               /\ r.op = "DeleteClient" => (y \in r.conns <=> y[2] = x[2])
  <2>1. \A o \in Requests : Fits(req[o])
    BY DEF IInv, Shape
  <2>2. Fits(req'[p])
    BY <1>4
  <2>3. \A o \in Requests \ {p} : Fits(req'[o])
    BY <1>3, <2>1
  <2> QED BY <2>2, <2>3 DEF Shape
<1>9. Apart'
  <2>1. ASSUME NEW o \in Requests \ {p}, NEW x \in C \cap req[o].conns
        PROVE  (req[o].op = "Connect") # (op = "Connect") => x \in split'
    BY <1>1, <2>1 DEF Overlapped
  <2> HIDE DEF q, grown
  <2> QED BY <1>3, <1>4, <1>5, <2>1 DEF IInv, Apart
<1> HIDE DEF q, grown, M
<1>10. Knows'
  BY <1>3, <1>4, <1>5 DEF IInv, Knows, At, tables
<1>11. Explained'
  <2> SUFFICES ASSUME NEW x \in Conns \ split'
               PROVE  /\ x \in clientConns \ channelConns =>
                            \E o \in Requests : LeavesClientConn(req'[o], x)
                      /\ x \in channelConns \ clientConns =>
                            \E o \in Requests : LeavesChannelConn(req'[o], x)
    BY DEF Explained, tables
  <2>1. \A o \in Requests : req[o] # Idle => o # p
    BY <1>1
  <2>2. \A o \in Requests : /\ LeavesClientConn(req[o], x) => LeavesClientConn(req'[o], x)
                            /\ LeavesChannelConn(req[o], x) => LeavesChannelConn(req'[o], x)
    BY <1>1, <1>3, IdleFacts DEF LeavesClientConn, LeavesChannelConn
  <2> QED BY <1>5, <2>2 DEF IInv, Explained
<1> QED BY <1>7, <1>8, <1>9, <1>10, <1>11 DEF IInv

\* Every operation starts that way.
LEMMA StartInv ==
  ASSUME IInv, NEW p \in Requests, Start(p)
  PROVE  IInv'
<1>1. ASSUME NEW C \in SUBSET Channels, NEW T \in SUBSET Clients, NEW Y \in SUBSET Types,
             Connect(p, C, T, Y) \/ Disconnect(p, C, T, Y)
      PROVE  IInv'
  <2>1. C \X T \X Y \in SUBSET Conns
    BY DEF Conns
  <2> QED BY <1>1, <2>1, BeginInv DEF Connect, Disconnect, Ops
<1>2. ASSUME NEW c \in Channels, RemoveChannel(p, c)
      PROVE  IInv'
  <2>1. /\ {c} \X Clients \X Types \in SUBSET Conns
        /\ \A x \in {c} \X Clients \X Types, y \in Conns :
              y \in {c} \X Clients \X Types <=> y[1] = x[1]
    BY DEF Conns
  <2> QED BY <1>2, <2>1, BeginInv DEF RemoveChannel, Ops, Removals
<1>3. ASSUME NEW t \in Clients, DeleteClient(p, t)
      PROVE  IInv'
  <2>1. /\ Channels \X {t} \X Types \in SUBSET Conns
        /\ \A x \in Channels \X {t} \X Types, y \in Conns :
              y \in Channels \X {t} \X Types <=> y[2] = x[2]
    BY DEF Conns
  <2> QED BY <1>3, <2>1, BeginInv DEF DeleteClient, Ops, Removals
<1> QED BY <1>1, <1>2, <1>3 DEF Start

-----------------------------------------------------------------------------
\* A step that writes neither table of connections, changes no status to
\* absent and leaves every request between two writes where it is.
LEMMA QuietInv ==
  ASSUME IInv, NEW p \in Requests, UNCHANGED <<tables, split>>,
         Shape', Apart', req' \in [Requests -> RequestType \cup {Idle}],
         \A o \in Requests \ {p} : req'[o] = req[o],
         /\ channels' \in [Channels -> Status] /\ clients' \in [Clients -> Status]
         /\ \A c \in Channels : channels[c] # "absent" => channels'[c] # "absent"
         /\ \A t \in Clients : clients[t] # "absent" => clients'[t] # "absent",
         \A x \in Conns :
           /\ LeavesClientConn(req[p], x) => LeavesClientConn(req'[p], x) \/ x \notin clientConns
           /\ LeavesChannelConn(req[p], x) => LeavesChannelConn(req'[p], x) \/ x \notin channelConns,
         req'[p].pc # "own",
         req'[p].pc \in {"status", "remove"} =>
            \A x \in req'[p].conns \ split : ~(x \in channelConns /\ x \in clientConns)
  PROVE  IInv'
<1>1. UNCHANGED <<channelConns, clientConns, split>>
  BY DEF tables
<1>2. TypeOK'
  <2>1. \A x \in Conns : x[1] \in Channels /\ x[2] \in Clients
    BY DEF Conns
  <2> QED BY <1>1, <2>1 DEF IInv, TypeOK
<1>3. Knows'
  BY <1>1 DEF IInv, Knows, At
<1>4. Explained'
  <2> SUFFICES ASSUME NEW x \in Conns \ split
               PROVE  /\ x \in clientConns \ channelConns =>
                            \E o \in Requests : LeavesClientConn(req'[o], x)
                      /\ x \in channelConns \ clientConns =>
                            \E o \in Requests : LeavesChannelConn(req'[o], x)
    BY <1>1 DEF Explained
  <2>1. \A o \in Requests :
           /\ LeavesClientConn(req[o], x) => LeavesClientConn(req'[o], x) \/ x \notin clientConns
           /\ LeavesChannelConn(req[o], x) => LeavesChannelConn(req'[o], x) \/ x \notin channelConns
    OBVIOUS
  <2> QED BY <2>1 DEF IInv, Explained
<1> QED BY <1>2, <1>3, <1>4 DEF IInv

\* The checks of Connect and Disconnect.
LEMMA ChecksInv ==
  ASSUME IInv, NEW p \in Requests, CheckClients(p) \/ CheckConnection(p)
  PROVE  IInv'
<1>1. /\ req[p].pc \in {"clients", "check"} /\ UNCHANGED <<entities, tables, split>>
      /\ Goto(p, "check") \/ Goto(p, "other") \/ Finish(p)
  BY DEF CheckClients, CheckConnection, At
<1>2. req[p] \in RequestType
  BY <1>1, InFlight DEF Pcs, IInv
<1>3. /\ req' \in [Requests -> RequestType \cup {Idle}] /\ Shape' /\ Apart'
      /\ \A o \in Requests \ {p} : req'[o] = req[o]
      /\ req'[p].pc \in {"check", "other", "done"}
  <2>1. CASE Goto(p, "check") \/ Goto(p, "other")
    BY <1>1, <1>2, <2>1, GotoMoves DEF Pcs
  <2>2. CASE Finish(p)
    BY <1>1, <2>2, FinishMoves DEF Idle
  <2> QED BY <1>1, <2>1, <2>2
<1>4. \A x : ~LeavesClientConn(req[p], x) /\ ~LeavesChannelConn(req[p], x)
  BY <1>1 DEF LeavesClientConn, LeavesChannelConn
<1> QED BY <1>1, <1>3, <1>4, QuietInv DEF IInv, TypeOK, entities

\* A removal looks at its own table: if it goes on at once, that table has
\* none of its connections.
LEMMA DoesHaveConnectionsInv ==
  ASSUME IInv, NEW p \in Requests, DoesHaveConnections(p)
  PROVE  IInv'
<1>1. /\ req[p].pc = "have" /\ UNCHANGED <<entities, tables, split>>
      /\ \/ Goto(p, "other")
         \/ Goto(p, "status") /\ \A x \in req[p].conns : ~(x \in channelConns /\ x \in clientConns)
  BY DEF DoesHaveConnections
<1>2. req[p] \in RequestType /\ req[p].op \in Removals
  BY <1>1, InFlight DEF Pcs, IInv, Shape
<1>3. \A x : ~LeavesClientConn(req[p], x) /\ ~LeavesChannelConn(req[p], x)
  BY <1>1 DEF LeavesClientConn, LeavesChannelConn
<1>4. CASE Goto(p, "other")
  <2>1. /\ req' \in [Requests -> RequestType \cup {Idle}] /\ Shape' /\ Apart'
        /\ \A o \in Requests \ {p} : req'[o] = req[o]
        /\ req'[p].pc = "other"
    BY <1>1, <1>2, <1>4, GotoMoves DEF Pcs
  <2> QED BY <1>1, <1>3, <2>1, QuietInv DEF IInv, TypeOK, entities
<1>5. CASE Goto(p, "status") /\ \A x \in req[p].conns : ~(x \in channelConns /\ x \in clientConns)
  <2>1. /\ req' \in [Requests -> RequestType \cup {Idle}] /\ Shape' /\ Apart'
        /\ \A o \in Requests \ {p} : req'[o] = req[o]
        /\ req'[p].pc = "status" /\ req'[p].conns = req[p].conns
    BY <1>1, <1>2, <1>5, GotoMoves DEF Pcs
  <2> QED BY <1>1, <1>3, <1>5, <2>1, QuietInv DEF IInv, TypeOK, entities
<1> QED BY <1>1, <1>4, <1>5

\* The row is marked; if it has gone, its connections have gone with it.
LEMMA MarkDeletedInv ==
  ASSUME IInv, NEW p \in Requests, MarkDeleted(p)
  PROVE  IInv'
<1> DEFINE C == IF req[p].op = "RemoveChannel" THEN ChannelsOf(p) ELSE {}
           T == IF req[p].op = "DeleteClient" THEN ClientsOf(p) ELSE {}
<1>1. /\ req[p].pc = "status" /\ UNCHANGED <<tables, split>>
      /\ \/ /\ (\E c \in C : channels[c] = "absent") \/ (\E t \in T : clients[t] = "absent")
            /\ Finish(p) /\ UNCHANGED entities
         \/ /\ channels' = [c \in Channels |-> IF c \in C THEN "deleted" ELSE channels[c]]
            /\ clients' = [t \in Clients |-> IF t \in T THEN "deleted" ELSE clients[t]]
            /\ Goto(p, "remove")
  BY DEF MarkDeleted
<1>2. /\ req[p] \in RequestType /\ req[p].op \in Removals /\ req[p].conns \subseteq Conns
  BY <1>1, InFlight DEF Pcs, IInv, Shape
<1>3. CASE /\ (\E c \in C : channels[c] = "absent") \/ (\E t \in T : clients[t] = "absent")
           /\ Finish(p) /\ UNCHANGED entities
  <2>1. /\ req' \in [Requests -> RequestType \cup {Idle}] /\ Shape' /\ Apart'
        /\ \A o \in Requests \ {p} : req'[o] = req[o]
        /\ req'[p].pc = "done"
    BY <1>1, <1>3, FinishMoves DEF Idle
  <2>2. ASSUME NEW x \in Conns, LeavesClientConn(req[p], x) PROVE x \notin clientConns
    <3>1. req[p].op = "DeleteClient" /\ x \in req[p].conns
      BY <1>1, <2>2 DEF LeavesClientConn
    <3>2. PICK y \in req[p].conns : clients[y[2]] = "absent"
      BY <1>3, <3>1 DEF ClientsOf
    <3>3. x[2] = y[2]
      BY <3>1, <3>2 DEF IInv, Shape
    <3> QED BY <3>1, <3>2, <3>3 DEF IInv, TypeOK
  <2>3. ASSUME NEW x \in Conns, LeavesChannelConn(req[p], x) PROVE x \notin channelConns
    <3>1. req[p].op = "RemoveChannel" /\ x \in req[p].conns
      BY <1>1, <2>3 DEF LeavesChannelConn
    <3>2. PICK y \in req[p].conns : channels[y[1]] = "absent"
      BY <1>3, <3>1 DEF ChannelsOf
    <3>3. x[1] = y[1]
      BY <3>1, <3>2 DEF IInv, Shape
    <3> QED BY <3>1, <3>2, <3>3 DEF IInv, TypeOK
  <2> QED BY <1>1, <1>3, <2>1, <2>2, <2>3, QuietInv DEF IInv, TypeOK, entities
<1>4. CASE /\ channels' = [c \in Channels |-> IF c \in C THEN "deleted" ELSE channels[c]]
           /\ clients' = [t \in Clients |-> IF t \in T THEN "deleted" ELSE clients[t]]
           /\ Goto(p, "remove")
  <2>1. /\ req' \in [Requests -> RequestType \cup {Idle}] /\ Shape' /\ Apart'
        /\ \A o \in Requests \ {p} : req'[o] = req[o]
        /\ req'[p].pc = "remove" /\ req'[p].conns = req[p].conns /\ req'[p].op = req[p].op
    BY <1>1, <1>2, <1>4, GotoMoves DEF Pcs
  <2>2. /\ channels' \in [Channels -> Status] /\ clients' \in [Clients -> Status]
        /\ \A c \in Channels : channels[c] # "absent" => channels'[c] # "absent"
        /\ \A t \in Clients : clients[t] # "absent" => clients'[t] # "absent"
    BY <1>4 DEF IInv, TypeOK, Status
  <2>3. \A x \in req[p].conns \ split : ~(x \in channelConns /\ x \in clientConns)
    BY <1>1, <1>2 DEF IInv, Knows
  <2>4. \A x \in Conns : /\ LeavesClientConn(req[p], x) => LeavesClientConn(req'[p], x)
                         /\ LeavesChannelConn(req[p], x) => LeavesChannelConn(req'[p], x)
    BY <1>1, <2>1 DEF LeavesClientConn, LeavesChannelConn
  <2> QED BY <1>1, <2>1, <2>2, <2>3, <2>4, QuietInv
<1> QED BY <1>1, <1>3, <1>4

-----------------------------------------------------------------------------
\* Requests that remove a connection cannot be between their writes on a
\* connection outside split while a Connect works on it, and conversely.
LEMMA OpposedSplit ==
  ASSUME IInv, NEW p \in Requests, NEW o \in Requests, NEW x \in req[p].conns,
         x \in req[o].conns, req[p].op = "Connect", req[o].op # "Connect"
  PROVE  x \in split /\ x \in req[o].met
BY DEF IInv, Apart

\* Connect writes the clients table.
LEMMA AddClientConnsInv ==
  ASSUME IInv, NEW p \in Requests, AddClientConns(p)
  PROVE  IInv'
<1>1. /\ req[p].op = "Connect" /\ req[p].pc = "other" /\ UNCHANGED <<entities, channelConns, split>>
      /\ \/ /\ \A t \in ClientsOf(p) : clients[t] # "absent"
            /\ clientConns' = clientConns \cup req[p].conns /\ Goto(p, "own")
         \/ Finish(p) /\ UNCHANGED clientConns
  BY DEF AddClientConns, At
<1>2. req[p] \in RequestType /\ req[p].conns \subseteq Conns
  BY <1>1, InFlight DEF Pcs, IInv
<1>3. \A x : ~LeavesClientConn(req[p], x) /\ ~LeavesChannelConn(req[p], x)
  BY <1>1 DEF LeavesClientConn, LeavesChannelConn
<1>4. CASE Finish(p) /\ UNCHANGED clientConns
  <2>1. /\ req' \in [Requests -> RequestType \cup {Idle}] /\ Shape' /\ Apart'
        /\ \A o \in Requests \ {p} : req'[o] = req[o]
        /\ req'[p].pc = "done"
    BY <1>1, <1>4, FinishMoves DEF Idle
  <2> QED BY <1>1, <1>3, <1>4, <2>1, QuietInv DEF IInv, TypeOK, entities, tables
<1>5. CASE /\ \A t \in ClientsOf(p) : clients[t] # "absent"
           /\ clientConns' = clientConns \cup req[p].conns /\ Goto(p, "own")
  <2>1. /\ req' \in [Requests -> RequestType \cup {Idle}] /\ Shape' /\ Apart'
        /\ \A o \in Requests \ {p} : req'[o] = req[o]
        /\ req'[p].pc = "own" /\ req'[p].op = "Connect" /\ req'[p].conns = req[p].conns
    BY <1>1, <1>2, <1>5, GotoMoves DEF Pcs
  <2>2. TypeOK'
    <3>1. \A x \in req[p].conns : clients[x[2]] # "absent"
      BY <1>5 DEF ClientsOf
    <3> QED BY <1>1, <1>2, <1>5, <2>1, <3>1 DEF IInv, TypeOK, entities
  <2>3. Knows'
    <3> SUFFICES ASSUME NEW o \in Requests, NEW x \in Conns
                 PROVE  /\ req'[o].op = "Connect" /\ req'[o].pc = "own" /\ x \in req'[o].conns \ split
                              => x \in clientConns'
                        /\ req'[o].op = "Disconnect" /\ req'[o].pc = "own"
                              /\ x \in req'[o].conns \ (split \cap req'[o].met)
                              => x \notin clientConns'
                        /\ req'[o].pc \in {"status", "remove"} /\ x \in req'[o].conns \ split
                              => ~(x \in channelConns /\ x \in clientConns')
      BY <1>1 DEF Knows, At
    <3>1. CASE o = p
      BY <1>5, <2>1, <3>1
    <3>2. CASE o # p /\ x \notin req[p].conns
      BY <1>5, <2>1, <3>2 DEF IInv, Knows, At
    <3>3. CASE o # p /\ x \in req[p].conns /\ x \in req[o].conns
      <4>1. req[o].op # "Connect" => x \in split /\ x \in req[o].met
        BY <1>1, <3>3, OpposedSplit
      <4>2. req[o].pc \in {"status", "remove"} => req[o].op # "Connect"
        BY DEF IInv, Shape, Removals
      <4> QED BY <1>5, <2>1, <3>3, <4>1, <4>2
    <3> QED BY <2>1, <3>1, <3>2, <3>3
  <2>4. Explained'
    <3> SUFFICES ASSUME NEW x \in Conns \ split
                 PROVE  /\ x \in clientConns' \ channelConns =>
                              \E o \in Requests : LeavesClientConn(req'[o], x)
                        /\ x \in channelConns \ clientConns' =>
                              \E o \in Requests : LeavesChannelConn(req'[o], x)
      BY <1>1 DEF Explained
    <3>1. \A o \in Requests : /\ LeavesClientConn(req[o], x) => LeavesClientConn(req'[o], x)
                              /\ LeavesChannelConn(req[o], x) => LeavesChannelConn(req'[o], x)
      BY <1>3, <2>1
    <3>2. x \in req[p].conns => LeavesClientConn(req'[p], x)
      BY <2>1 DEF LeavesClientConn
    <3> QED BY <1>5, <3>1, <3>2 DEF IInv, Explained
  <2> QED BY <2>1, <2>2, <2>3, <2>4 DEF IInv
<1> QED BY <1>1, <1>4, <1>5

\* A step that deletes connections or ends a request, without a new one: what
\* the other requests know is kept, and every connection in one table only
\* needs a request that explains it.
LEMMA FewerConnsInv ==
  ASSUME IInv, NEW p \in Requests, TypeOK', Shape', Apart',
         channelConns' \subseteq channelConns, clientConns' \subseteq clientConns,
         \A x \in Conns : x \in clientConns \ clientConns' => x \in req[p].conns,
         clientConns' # clientConns => req[p].op # "Connect",
         split \ (req[p].conns \ req[p].met) \subseteq split',
         \A o \in Requests \ {p} : req'[o] = req[o],
         req'[p] = Idle \/ /\ req'[p].op = req[p].op /\ req'[p].conns = req[p].conns
                           /\ req'[p].op # "Connect" /\ req[p].pc = "other"
                           /\ req'[p].pc = "own" => req[p].conns \cap clientConns' = {}
                           /\ req'[p].pc \in {"status", "remove"} =>
                                 \A x \in req[p].conns : x \notin channelConns' \/ x \notin clientConns',
         \A x \in Conns \ split' :
           /\ x \in clientConns' \ channelConns' =>
                 \/ LeavesClientConn(req'[p], x)
                 \/ x \in clientConns \ channelConns /\ x \notin split /\ ~LeavesClientConn(req[p], x)
           /\ x \in channelConns' \ clientConns' =>
                 \/ LeavesChannelConn(req'[p], x)
                 \/ x \in channelConns \ clientConns /\ x \notin split /\ ~LeavesChannelConn(req[p], x)
  PROVE  IInv'
<1>1. Knows'
  <2> SUFFICES ASSUME NEW o \in Requests, NEW x \in Conns
               PROVE  /\ req'[o].op = "Connect" /\ req'[o].pc = "own" /\ x \in req'[o].conns \ split'
                            => x \in clientConns'
                      /\ req'[o].op = "Disconnect" /\ req'[o].pc = "own"
                            /\ x \in req'[o].conns \ (split' \cap req'[o].met)
                            => x \notin clientConns'
                      /\ req'[o].pc \in {"status", "remove"} /\ x \in req'[o].conns \ split'
                            => ~(x \in channelConns' /\ x \in clientConns')
    BY DEF Knows, At
  <2>1. CASE o = p
    BY <2>1 DEF Idle
  <2>2. CASE o # p /\ x \in req[o].conns
    <3>1. req'[o] = req[o]
      BY <2>2
    <3>2. x \in split => x \in split'
      BY <2>2 DEF IInv, Apart
    <3>3. x \in clientConns \ clientConns' /\ req[o].op = "Connect" => x \in split
      BY <2>2, OpposedSplit
    <3> QED BY <2>2, <3>1, <3>2, <3>3 DEF IInv, Knows, At
  <2> QED BY <2>1, <2>2
<1>2. Explained'
  <2> SUFFICES ASSUME NEW x \in Conns \ split'
               PROVE  /\ x \in clientConns' \ channelConns' =>
                            \E o \in Requests : LeavesClientConn(req'[o], x)
                      /\ x \in channelConns' \ clientConns' =>
                            \E o \in Requests : LeavesChannelConn(req'[o], x)
    BY DEF Explained
  <2>1. ASSUME x \in clientConns \ channelConns, x \notin split, ~LeavesClientConn(req[p], x)
        PROVE  \E o \in Requests : LeavesClientConn(req'[o], x)
    BY <2>1 DEF IInv, Explained
  <2>2. ASSUME x \in channelConns \ clientConns, x \notin split, ~LeavesChannelConn(req[p], x)
        PROVE  \E o \in Requests : LeavesChannelConn(req'[o], x)
    BY <2>2 DEF IInv, Explained
  <2> QED BY <2>1, <2>2
<1> QED BY <1>1, <1>2 DEF IInv

\* Connect writes its own table, or leaves the tables split.
LEMMA AddChannelConnsInv ==
  ASSUME IInv, NEW p \in Requests, AddChannelConns(p)
  PROVE  IInv'
<1> DEFINE ok == /\ req[p].conns \cap channelConns = {}
                 /\ \A c \in ChannelsOf(p) : channels[c] # "absent"
<1>1. /\ req[p].op = "Connect" /\ req[p].pc = "own" /\ UNCHANGED <<entities, clientConns>>
      /\ channelConns' = IF ok THEN channelConns \cup req[p].conns ELSE channelConns
      /\ split' = split \cup (IF ok THEN {} ELSE req[p].conns)
      /\ Finish(p)
  BY DEF AddChannelConns, At, Split
<1>2. req[p].conns \subseteq Conns
  BY <1>1, InFlight DEF Pcs, IInv
<1>3. /\ req' \in [Requests -> RequestType \cup {Idle}] /\ Shape' /\ Apart'
      /\ \A o \in Requests \ {p} : req'[o] = req[o]
      /\ req'[p] = Idle /\ req'[p].conns = {}
  BY <1>1, FinishMoves
<1>4. CASE ~ok
  <2>1. UNCHANGED <<channelConns, clientConns>> /\ split' = split \cup req[p].conns
    BY <1>1, <1>4
  <2>2. TypeOK'
    BY <1>1, <1>2, <1>3, <2>1 DEF IInv, TypeOK, entities
  <2> HIDE DEF ok
  <2>3. \A x \in Conns \ split' : ~LeavesClientConn(req[p], x) /\ ~LeavesChannelConn(req[p], x)
    BY <2>1 DEF LeavesClientConn, LeavesChannelConn
  <2> QED BY <1>3, <2>1, <2>2, <2>3, FewerConnsInv
<1>5. CASE ok
  <2>1. channelConns' = channelConns \cup req[p].conns /\ split' = split
    BY <1>1, <1>5
  <2>2. TypeOK'
    <3>1. \A x \in req[p].conns : channels[x[1]] # "absent"
      BY <1>5 DEF ChannelsOf
    <3> QED BY <1>1, <1>2, <1>3, <2>1, <3>1 DEF IInv, TypeOK, entities
  <2> HIDE DEF ok
  <2>3. Knows'
    <3> SUFFICES ASSUME NEW o \in Requests, NEW x \in Conns
                 PROVE  /\ req'[o].op = "Connect" /\ req'[o].pc = "own" /\ x \in req'[o].conns \ split
                              => x \in clientConns
                        /\ req'[o].op = "Disconnect" /\ req'[o].pc = "own"
                              /\ x \in req'[o].conns \ (split \cap req'[o].met)
                              => x \notin clientConns
                        /\ req'[o].pc \in {"status", "remove"} /\ x \in req'[o].conns \ split
                              => ~(x \in channelConns' /\ x \in clientConns)
      BY <1>1, <2>1 DEF Knows, At
    <3>1. CASE o = p
      BY <1>3, <3>1
    <3>2. CASE o # p
      <4>1. req'[o] = req[o]
        BY <1>3, <3>2
      <4>2. req[o].pc \in {"status", "remove"} => req[o].op # "Connect"
        BY DEF IInv, Shape, Removals
      <4>3. req[o].op # "Connect" /\ x \in req[o].conns \ split => x \notin req[p].conns
        BY <1>1, OpposedSplit
      <4> QED BY <2>1, <4>1, <4>2, <4>3 DEF IInv, Knows, At
    <3> QED BY <3>1, <3>2
  <2>4. Explained'
    <3> SUFFICES ASSUME NEW x \in Conns \ split
                 PROVE  /\ x \in clientConns \ channelConns' =>
                              \E o \in Requests : LeavesClientConn(req'[o], x)
                        /\ x \in channelConns' \ clientConns =>
                              \E o \in Requests : LeavesChannelConn(req'[o], x)
      BY <1>1, <2>1 DEF Explained
    <3>1. x \in req[p].conns => x \in channelConns' /\ x \in clientConns
      BY <1>1, <2>1 DEF IInv, Knows, At
    <3>2. x \notin req[p].conns =>
             ~LeavesClientConn(req[p], x) /\ ~LeavesChannelConn(req[p], x)
      BY DEF LeavesClientConn, LeavesChannelConn
    <3> QED BY <1>3, <2>1, <3>1, <3>2 DEF IInv, Explained
  <2> QED BY <1>3, <2>2, <2>3, <2>4 DEF IInv
<1> QED BY <1>4, <1>5

\* Disconnect clears the clients table.
LEMMA RemoveClientConnsInv ==
  ASSUME IInv, NEW p \in Requests, RemoveClientConns(p)
  PROVE  IInv'
<1>1. /\ req[p].op = "Disconnect" /\ req[p].pc = "other" /\ UNCHANGED <<entities, channelConns, split>>
      /\ clientConns' = clientConns \ req[p].conns /\ Goto(p, "own")
  BY DEF RemoveClientConns, At
<1>2. req[p] \in RequestType
  BY <1>1, InFlight DEF Pcs, IInv
<1>3. /\ req' \in [Requests -> RequestType \cup {Idle}] /\ Shape' /\ Apart'
      /\ \A o \in Requests \ {p} : req'[o] = req[o]
      /\ req'[p].op = "Disconnect" /\ req'[p].pc = "own" /\ req'[p].conns = req[p].conns
  BY <1>1, <1>2, GotoMoves DEF Pcs
<1>4. TypeOK'
  BY <1>1, <1>3 DEF IInv, TypeOK, entities
<1>5. \A x : /\ ~LeavesClientConn(req[p], x) /\ ~LeavesChannelConn(req[p], x)
             /\ x \in req[p].conns => LeavesChannelConn(req'[p], x)
  BY <1>1, <1>3 DEF LeavesClientConn, LeavesChannelConn
<1> QED BY <1>1, <1>3, <1>4, <1>5, FewerConnsInv

\* Disconnect clears its own table: on its connections both are empty now.
LEMMA RemoveChannelConnsInv ==
  ASSUME IInv, NEW p \in Requests, RemoveChannelConns(p)
  PROVE  IInv'
<1>1. /\ req[p].op = "Disconnect" /\ req[p].pc = "own" /\ UNCHANGED <<entities, clientConns>>
      /\ channelConns' = channelConns \ req[p].conns /\ Finish(p)
      /\ split' = split \ (req[p].conns \ req[p].met)
  BY DEF RemoveChannelConns, At, Heal
<1>2. /\ req' \in [Requests -> RequestType \cup {Idle}] /\ Shape' /\ Apart'
      /\ \A o \in Requests \ {p} : req'[o] = req[o]
      /\ req'[p] = Idle
  BY <1>1, FinishMoves
<1>3. TypeOK'
  BY <1>1, <1>2 DEF IInv, TypeOK, entities
<1>4. \A x \in Conns \ split' : /\ x \in req[p].conns => x \notin clientConns
                                /\ x \notin req[p].conns => x \notin split
  BY <1>1 DEF IInv, Knows, At
<1>5. \A x : x \notin req[p].conns =>
         ~LeavesClientConn(req[p], x) /\ ~LeavesChannelConn(req[p], x)
  BY DEF LeavesClientConn, LeavesChannelConn
<1> QED BY <1>1, <1>2, <1>3, <1>4, <1>5, FewerConnsInv

\* A removal clears the table of the other service.
LEMMA RemoveOtherConnsInv ==
  ASSUME IInv, NEW p \in Requests, RemoveOtherConns(p)
  PROVE  IInv'
<1>1. /\ req[p].op \in Removals /\ req[p].pc = "other" /\ UNCHANGED <<entities, split>>
      /\ \/ /\ req[p].op = "RemoveChannel"
            /\ clientConns' = clientConns \ req[p].conns /\ UNCHANGED channelConns
         \/ /\ req[p].op = "DeleteClient"
            /\ channelConns' = channelConns \ req[p].conns /\ UNCHANGED clientConns
      /\ Goto(p, "status")
  BY DEF RemoveOtherConns, At, Removals
<1>2. req[p] \in RequestType
  BY <1>1, InFlight DEF Pcs, IInv
<1>3. /\ req' \in [Requests -> RequestType \cup {Idle}] /\ Shape' /\ Apart'
      /\ \A o \in Requests \ {p} : req'[o] = req[o]
      /\ req'[p].op = req[p].op /\ req'[p].pc = "status" /\ req'[p].conns = req[p].conns
  BY <1>1, <1>2, GotoMoves DEF Pcs
<1>4. TypeOK'
  BY <1>1, <1>3 DEF IInv, TypeOK, entities
<1>5. \A x : /\ ~LeavesClientConn(req[p], x) /\ ~LeavesChannelConn(req[p], x)
             /\ x \in req[p].conns /\ req[p].op = "RemoveChannel" => LeavesChannelConn(req'[p], x)
             /\ x \in req[p].conns /\ req[p].op = "DeleteClient" => LeavesClientConn(req'[p], x)
  BY <1>1, <1>3 DEF LeavesClientConn, LeavesChannelConn
<1> QED BY <1>1, <1>3, <1>4, <1>5, FewerConnsInv DEF Removals

\* A removal deletes its row and, with it, its own connections.
LEMMA RemoveRowInv ==
  ASSUME IInv, NEW p \in Requests, RemoveRow(p)
  PROVE  IInv'
<1>1. req[p].pc = "remove" /\ Finish(p) /\ UNCHANGED split
  BY DEF RemoveRow
<1>2. req[p].op \in Removals /\ req[p].conns \subseteq Conns
  BY <1>1, InFlight DEF Pcs, IInv, Shape
<1>3. /\ req' \in [Requests -> RequestType \cup {Idle}] /\ Shape' /\ Apart'
      /\ \A o \in Requests \ {p} : req'[o] = req[o]
      /\ req'[p] = Idle
  BY <1>1, FinishMoves
<1>4. \A x \in req[p].conns \ split : ~(x \in channelConns /\ x \in clientConns)
  BY <1>1, <1>2 DEF IInv, Knows
<1>5. CASE req[p].op = "RemoveChannel"
  <2>1. /\ channels' = [c \in Channels |-> IF c \in ChannelsOf(p) THEN "absent" ELSE channels[c]]
        /\ channelConns' = channelConns \ req[p].conns
        /\ UNCHANGED <<clients, clientConns>>
    BY <1>5 DEF RemoveRow
  <2>2. TypeOK'
    <3>1. \A x \in channelConns' : x \in Conns /\ x[1] \in Channels /\ x[1] \notin ChannelsOf(p)
      BY <1>5, <2>1 DEF IInv, TypeOK, Shape, ChannelsOf, Conns
    <3>2. channels' \in [Channels -> Status]
      BY <2>1 DEF IInv, TypeOK, Status
    <3>3. \A x \in channelConns' : channels'[x[1]] # "absent"
      BY <2>1, <3>1 DEF IInv, TypeOK
    <3> QED BY <1>1, <1>3, <2>1, <3>1, <3>2, <3>3 DEF IInv, TypeOK
  <2>3. \A x : /\ ~LeavesClientConn(req[p], x)
               /\ x \notin req[p].conns => ~LeavesChannelConn(req[p], x)
    BY <1>1, <1>5 DEF LeavesClientConn, LeavesChannelConn
  <2> QED BY <1>1, <1>3, <1>4, <2>1, <2>2, <2>3, FewerConnsInv
<1>6. CASE req[p].op = "DeleteClient"
  <2>1. /\ clients' = [t \in Clients |-> IF t \in ClientsOf(p) THEN "absent" ELSE clients[t]]
        /\ clientConns' = clientConns \ req[p].conns
        /\ UNCHANGED <<channels, channelConns>>
    BY <1>6 DEF RemoveRow
  <2>2. TypeOK'
    <3>1. \A x \in clientConns' : x \in Conns /\ x[2] \in Clients /\ x[2] \notin ClientsOf(p)
      BY <1>6, <2>1 DEF IInv, TypeOK, Shape, ClientsOf, Conns
    <3>2. clients' \in [Clients -> Status]
      BY <2>1 DEF IInv, TypeOK, Status
    <3>3. \A x \in clientConns' : clients'[x[2]] # "absent"
      BY <2>1, <3>1 DEF IInv, TypeOK
    <3> QED BY <1>1, <1>3, <2>1, <3>1, <3>2, <3>3 DEF IInv, TypeOK
  <2>3. \A x : /\ ~LeavesChannelConn(req[p], x)
               /\ x \notin req[p].conns => ~LeavesClientConn(req[p], x)
    BY <1>1, <1>6 DEF LeavesClientConn, LeavesChannelConn
  <2> QED BY <1>1, <1>3, <1>4, <1>6, <2>1, <2>2, <2>3, FewerConnsInv
<1> QED BY <1>2, <1>5, <1>6 DEF Removals

\* A request that stops between its writes leaves its connections split.
LEMMA StopInv ==
  ASSUME IInv, NEW p \in Requests, Stop(p)
  PROVE  IInv'
<1>1. req[p] # Idle /\ Finish(p) /\ split' = split \cup HalfDone(p)
      /\ UNCHANGED <<channels, clients, channelConns, clientConns>>
  BY DEF Stop, Split, entities, tables
<1>2. req[p].conns \subseteq Conns
  BY <1>1, InFlight DEF IInv
<1>3. /\ req' \in [Requests -> RequestType \cup {Idle}] /\ Shape' /\ Apart'
      /\ \A o \in Requests \ {p} : req'[o] = req[o]
      /\ req'[p] = Idle
  BY <1>1, FinishMoves
<1>4. TypeOK'
  BY <1>1, <1>2, <1>3 DEF IInv, TypeOK, HalfDone
<1>5. \A x \in Conns \ split' : ~LeavesClientConn(req[p], x) /\ ~LeavesChannelConn(req[p], x)
  BY <1>1 DEF HalfDone, LeavesClientConn, LeavesChannelConn
<1> QED BY <1>1, <1>3, <1>4, <1>5, FewerConnsInv

\* Enabling and disabling touches no connection.
LEMMA ChangeStatusInv ==
  ASSUME IInv, ChangeStatus
  PROVE  IInv'
<1>1. /\ UNCHANGED <<channelConns, clientConns, req, split>>
      /\ channels' \in [Channels -> Status] /\ clients' \in [Clients -> Status]
      /\ \A c \in Channels : channels[c] # "absent" => channels'[c] # "absent"
      /\ \A t \in Clients : clients[t] # "absent" => clients'[t] # "absent"
  <2>1. PICK s \in {"enabled", "disabled"} : \/ \E c \in Channels : ChangeChannelStatus(c, s)
                                             \/ \E t \in Clients : ChangeClientStatus(t, s)
    BY DEF ChangeStatus
  <2>2. ASSUME NEW c \in Channels, ChangeChannelStatus(c, s) PROVE <1>1!:
    BY <2>2 DEF ChangeChannelStatus, IInv, TypeOK, Status, tables
  <2>3. ASSUME NEW t \in Clients, ChangeClientStatus(t, s) PROVE <1>1!:
    BY <2>3 DEF ChangeClientStatus, IInv, TypeOK, Status, tables
  <2> QED BY <2>1, <2>2, <2>3
<1>2. TypeOK'
  <2>1. \A x \in Conns : x[1] \in Channels /\ x[2] \in Clients
    BY DEF Conns
  <2> QED BY <1>1, <2>1 DEF IInv, TypeOK
<1> QED BY <1>1, <1>2 DEF IInv, Shape, Apart, Knows, Explained, At

\* Every step keeps the invariant.
LEMMA NextInv == IInv /\ [Next]_vars => IInv'
<1> SUFFICES ASSUME IInv, [Next]_vars PROVE IInv'
  OBVIOUS
<1>1. ASSUME NEW p \in Requests, Start(p) PROVE IInv'
  BY <1>1, StartInv
<1>2. ASSUME NEW p \in Requests, Step(p) PROVE IInv'
  BY <1>2, ChecksInv, AddClientConnsInv, AddChannelConnsInv, RemoveClientConnsInv,
     RemoveChannelConnsInv, DoesHaveConnectionsInv, RemoveOtherConnsInv, MarkDeletedInv,
     RemoveRowInv DEF Step
<1>3. CASE UNCHANGED vars
  BY <1>3 DEF vars, entities, tables, IInv, TypeOK, Shape, Apart, Knows, Explained, At
<1> QED BY <1>1, <1>2, <1>3, StopInv, ChangeStatusInv DEF Next, ReliableNext

-----------------------------------------------------------------------------
\* The inductive invariant: in every state a connection outside split that only
\* one of the two tables has is the business of a Connect, Disconnect,
\* RemoveChannel or Delete between its two writes.
THEOREM Inductive == Spec => []IInv
<1>1. Init => IInv
  <2> SUFFICES ASSUME Init PROVE IInv
    OBVIOUS
  <2>1. \A p \in Requests : req[p] = Idle /\ req[p].conns = {} /\ req[p].pc = "done"
    BY DEF Init, Idle
  <2>2. TypeOK
    BY DEF Init, TypeOK, Status
  <2> QED BY <2>1, <2>2 DEF Init, IInv, Shape, Apart, Knows, Explained, At
<1> QED BY <1>1, NextInv, PTL DEF Spec

\* Type correctness; the foreign keys of both tables hold.
THEOREM TypeCorrect == Spec => []TypeOK
<1>1. IInv => TypeOK
  BY DEF IInv
<1> QED BY <1>1, Inductive, PTL

\* The table that decides who may publish and subscribe and the table that
\* decides what the deletion of a client has to disconnect agree on every
\* connection no request works on, outside the named overlaps and losses, for
\* any number of handlers; and an undisturbed Disconnect repairs the rest.
THEOREM Agreement == Spec => []TablesAgree
<1>1. IInv => TablesAgree
  BY DEF IInv, TypeOK, Explained, TablesAgree, LeavesClientConn, LeavesChannelConn
<1> QED BY <1>1, Inductive, PTL
=============================================================================
