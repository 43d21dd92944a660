--------------------------- MODULE RolesRequests ----------------------------
(* What the start of a request, and a step that changes no tuple and no row,  *)
(* do to the inductive invariant of Roles.                                     *)
EXTENDS Roles, TLAPS

\* The provers a leaf is tried with, in this order.
USE SMT, Zenon, SMTT(20), SMTT(30)

\* A request that names its role is well typed.
LEMMA RequestTyped ==
  ASSUME NEW op \in Ops, NEW pc \in Stages, NEW r \in RoleIDs,
         NEW n \in Names \cup {None}, NEW A \in SUBSET Actions, NEW M \in SUBSET Members
  PROVE  Request(op, pc, EntityOf[r], r, n, A, M) \in RequestType
  BY RolesAssumption DEF Request, RequestType

\* The requests Start can put in flight.
Opening(q) ==
  /\ q \in RequestType /\ ShapeOf(q)
  /\ q.op = "RemoveEntity" => q.pc = "status"
  /\ \/ q.op \in Ops /\ q.pc \in {"save", "policy", "status"}
     \/ q.op = "AddRole" /\ q.pc = "db" /\ q.acts = {} /\ q.mems = {}
     \/ q.op = "UpdateRoleName" /\ q.pc = "db"

\* Every operation opens with Begin of an opening request and leaves both
\* stores alone.
LEMMA StartBegins ==
  ASSUME TypeOK, NEW p \in Requests, Start(p)
  PROVE  \E q : /\ Opening(q) /\ Begin(p, q)
                /\ UNCHANGED <<tables, policies>>
                /\ \/ ~Creates(q) /\ UNCHANGED issued
                      /\ (q.op # "RemoveEntity" => roles[q.role] # None)
                   \/ /\ Creates(q) /\ q.role \notin issued /\ issued' = issued \cup {q.role}
                      /\ q.op = "CreateEntity" => \A s \in issued : EntityOf[s] # q.entity
<1> USE RolesAssumption
<1> DEFINE Good(q) ==
       /\ Opening(q) /\ Begin(p, q)
       /\ UNCHANGED <<tables, policies>>
       /\ \/ ~Creates(q) /\ UNCHANGED issued
             /\ (q.op # "RemoveEntity" => roles[q.role] # None)
          \/ /\ Creates(q) /\ q.role \notin issued /\ issued' = issued \cup {q.role}
             /\ q.op = "CreateEntity" => \A s \in issued : EntityOf[s] # q.entity
<1>1. ASSUME NEW r \in RoleIDs, NEW u \in Members, CreateEntity(p, r, u)
      PROVE  \E q : Good(q)
  <2> DEFINE q == Request("CreateEntity", "save", EntityOf[r], r, Admin, Actions, {u})
  <2>1. q \in RequestType
    BY RequestTyped DEF Ops, AddOps, Stages
  <2>2. Opening(q)
    BY <2>1 DEF Opening, ShapeOf, Request, Ops, AddOps, RemoveOps, Creates
  <2>3. Good(q)
    BY <1>1, <2>2 DEF CreateEntity, Creates, Request
  <2> QED BY <2>3
<1>2. ASSUME NEW r \in RoleIDs, NEW n \in Names, NEW A \in SUBSET Actions,
             NEW M \in SUBSET Members, AddRole(p, r, n, A, M)
      PROVE  \E q : Good(q)
  <2> DEFINE q == Request("AddRole", IF A = {} /\ M = {} THEN "db" ELSE "policy",
                          EntityOf[r], r, n, A, M)
  <2>1. q \in RequestType
    BY RequestTyped DEF Ops, AddOps, Stages
  <2>2. Opening(q)
    BY <2>1 DEF Opening, ShapeOf, Request, Ops, AddOps, RemoveOps, Creates
  <2>3. Good(q)
    BY <1>2, <2>2 DEF AddRole, Creates, Request
  <2> QED BY <2>3
<1>3. ASSUME NEW r \in RoleIDs, NEW op \in Ops \ {"CreateEntity", "AddRole", "RemoveEntity"},
             NEW n \in Names \cup {None}, NEW A \in SUBSET Actions, NEW M \in SUBSET Members,
             NEW pc \in {"policy", "db"}, pc = "db" <=> op = "UpdateRoleName",
             op \in {"RemoveRole", "RoleAddMembers", "RoleRemoveMembers",
                     "RoleRemoveAllMembers"} => A = {},
             op \in {"RemoveRole", "RoleAddActions", "RoleRemoveActions",
                     "RoleRemoveAllActions"} => M = {},
             op = "RoleRemoveAllActions" => A = Actions,
             op = "RoleRemoveAllMembers" => M = Members,
             op = "UpdateRoleName" => n \in Names,
             OnRole(p, r, Request(op, pc, EntityOf[r], r, n, A, M))
      PROVE  \E q : Good(q)
  <2> DEFINE q == Request(op, pc, EntityOf[r], r, n, A, M)
  <2>1. q \in RequestType
    BY RequestTyped DEF Ops, Stages
  <2>2. Opening(q)
    BY <1>3, <2>1 DEF Opening, ShapeOf, Request, Ops, AddOps, RemoveOps, Creates
  <2>3. Good(q)
    BY <1>3, <2>2 DEF OnRole, Creates, Request
  <2> QED BY <2>3
<1>4. ASSUME NEW e \in Entities, RemoveEntity(p, e)
      PROVE  \E q : Good(q)
  <2> DEFINE q == [op |-> "RemoveEntity", pc |-> "status", entity |-> e, role |-> None,
                   name |-> None, acts |-> {}, mems |-> {}]
  <2>1. Opening(q)
    BY DEF Opening, RequestType, ShapeOf, Ops, AddOps, RemoveOps, Stages
  <2>2. Good(q)
    BY <1>4, <2>1 DEF RemoveEntity, Creates
  <2> QED BY <2>2
<1> HIDE DEF Good
<1>5. \E q : Good(q)
  <2>1. CASE \E r \in RoleIDs, u \in Members : CreateEntity(p, r, u)
    BY <1>1, <2>1
  <2>2. CASE \E r \in RoleIDs, n \in Names, A \in SUBSET Actions, M \in SUBSET Members :
               AddRole(p, r, n, A, M)
    BY <1>2, <2>2
  <2>3. CASE \E r \in RoleIDs : \/ RemoveRole(p, r) \/ RoleRemoveAllActions(p, r)
                                \/ RoleRemoveAllMembers(p, r)
    BY <1>3, <2>3 DEF RemoveRole, RoleRemoveAllActions, RoleRemoveAllMembers, Ops, AddOps, RemoveOps
  <2>4. CASE \E r \in RoleIDs, n \in Names : UpdateRoleName(p, r, n)
    BY <1>3, <2>4 DEF UpdateRoleName, Ops, AddOps, RemoveOps
  <2>5. CASE \E r \in RoleIDs, A \in SUBSET Actions : \/ RoleAddActions(p, r, A)
                                                      \/ RoleRemoveActions(p, r, A)
    BY <1>3, <2>5 DEF RoleAddActions, RoleRemoveActions, Ops, AddOps, RemoveOps
  <2>6. CASE \E r \in RoleIDs, M \in SUBSET Members : \/ RoleAddMembers(p, r, M)
                                                      \/ RoleRemoveMembers(p, r, M)
    BY <1>3, <2>6 DEF RoleAddMembers, RoleRemoveMembers, Ops, AddOps, RemoveOps
  <2>7. CASE \E e \in Entities : RemoveEntity(p, e)
    BY <1>4, <2>7
  <2> QED BY <2>1, <2>2, <2>3, <2>4, <2>5, <2>6, <2>7 DEF Start
<1> QED BY <1>5 DEF Good

\* A request not in flight touches no role, has nothing pending and dooms nothing.
LEMMA IdleFacts ==
  /\ Idle.op \notin Ops /\ Idle.role \notin RoleIDs
  /\ \A r \in RoleIDs : ~Touches(Idle, r)
  /\ ~Creates(Idle)
  /\ Idle \notin RequestType
  /\ PendingActs(Idle) = {} /\ PendingMems(Idle) = {}
  /\ \A x : ~DoomsAction(Idle, x) /\ ~DoomsMember(Idle, x)
BY RolesAssumption DEF Idle, Ops, AddOps, RemoveOps, Touches, Creates, RequestType,
     PendingActs, PendingMems, AwaitsRows, DoomsAction, DoomsMember, DoomsEntity

\* Pending tuples stay apart when none is added and no row appears.
LEMMA PendingShrinks ==
  ASSUME IInv, split \subseteq split',
         role_actions' \subseteq role_actions, role_members' \subseteq role_members,
         \A o \in Requests : /\ PendingActs(req'[o]) \subseteq PendingActs(req[o])
                             /\ PendingMems(req'[o]) \subseteq PendingMems(req[o])
  PROVE  PendingApart'
<1> SUFFICES ASSUME NEW a \in Requests
             PROVE  /\ \A x \in PendingActs(req'[a]) : x[1] \notin split' =>
                         /\ x \notin role_actions'
                         /\ \A b \in Requests \ {a} : x \notin PendingActs(req'[b])
                    /\ \A x \in PendingMems(req'[a]) : x[1] \notin split' =>
                         /\ x \notin role_members'
                         /\ \A b \in Requests \ {a} : x \notin PendingMems(req'[b])
  BY ZenonT(60) DEF PendingApart
<1>1. ASSUME NEW x \in PendingActs(req'[a]), x[1] \notin split'
      PROVE  x \notin role_actions' /\ \A b \in Requests \ {a} : x \notin PendingActs(req'[b])
  BY <1>1 DEF IInv, PendingApart
<1>2. ASSUME NEW x \in PendingMems(req'[a]), x[1] \notin split'
      PROVE  x \notin role_members' /\ \A b \in Requests \ {a} : x \notin PendingMems(req'[b])
  BY <1>2 DEF IInv, PendingApart
<1> QED BY <1>1, <1>2

\* Putting a request in flight writes neither store and keeps the invariant.
LEMMA BeginInv ==
  ASSUME IInv, NEW p \in Requests, NEW q, Opening(q), Begin(p, q),
         UNCHANGED <<tables, policies>>,
         \/ ~Creates(q) /\ UNCHANGED issued
            /\ (q.op # "RemoveEntity" => roles[q.role] # None)
         \/ /\ Creates(q) /\ q.role \notin issued /\ issued' = issued \cup {q.role}
            /\ q.op = "CreateEntity" => \A s \in issued : EntityOf[s] # q.entity
  PROVE  IInv'
<1> USE RolesAssumption, IdleFacts
<1> DEFINE Others == \A o \in Requests \ {p} : req'[o] = req[o]
<1>1. /\ req[p] = Idle /\ req'[p] = q /\ Others
      /\ split \subseteq split' /\ q \in RequestType /\ ShapeOf(q)
      /\ req' \in [Requests -> RequestType \cup {Idle}]
      /\ split' = split \cup Overlapped(p, q)
  BY DEF IInv, TypeOK, Begin, Split, Opening
<1>2. TypeOK'
  <2>1. issued' \subseteq RoleIDs
    BY <1>1 DEF IInv, TypeOK, ShapeOf, Creates
  <2>2. split' \subseteq RoleIDs
    BY <1>1 DEF IInv, TypeOK, Overlapped
  <2> QED BY <1>1, <2>1, <2>2 DEF IInv, TypeOK, tables, policies
<1>3. Apart'
  <2> SUFFICES ASSUME NEW a \in Requests, NEW b \in Requests, a # b, NEW r \in RoleIDs,
                      Touches(req'[a], r), Touches(req'[b], r), Opposed(req'[a], req'[b])
               PROVE  r \in split'
    BY DEF Apart, Touches, Opposed
  <2>1. CASE a # p /\ b # p
    BY <1>1, <2>1 DEF IInv, Apart
  <2>2. CASE a = p
    BY <1>1, <2>2 DEF Overlapped, Opposed
  <2>3. CASE b = p
    BY <1>1, <2>3 DEF Overlapped, Opposed
  <2> QED BY <2>1, <2>2, <2>3
<1>4. Shape'
  <2> SUFFICES ASSUME NEW a \in Requests, req'[a] # Idle
               PROVE  ShapeOf(req'[a])
    BY ZenonT(60) DEF Shape, ShapeOf, Idle, Creates
  <2> QED BY <1>1 DEF IInv, Shape
<1>5. ForeignKeys'
  BY DEF IInv, ForeignKeys, tables
<1>6. Fresh'
  <2>1. roles' = roles /\ actionPolicies' = actionPolicies /\ memberPolicies' = memberPolicies
    BY DEF tables, policies
  <2>2. ASSUME NEW r \in RoleIDs \ issued'
        PROVE  /\ roles'[r] = None
               /\ \A x \in actionPolicies' \cup memberPolicies' : x[1] # r
               /\ \A a \in Requests : req'[a].role # r
    <3>1. r \in RoleIDs \ issued
      OBVIOUS
    <3>2. q.role # r
      BY <3>1, <1>1, <2>2 DEF IInv, Fresh, Creates, ShapeOf
    <3> QED BY <1>1, <2>1, <3>1, <3>2 DEF IInv, Fresh
  <2>3. ASSUME NEW a \in Requests, Creates(req'[a])
        PROVE  /\ roles'[req'[a].role] = None
               /\ \A b \in Requests \ {a} : req'[b].role # req'[a].role
               /\ req'[a].op = "CreateEntity" =>
                    \A r \in RolesOf(req'[a].entity) \ {req'[a].role} : r \notin issued' \/ r \in split'
    <3>1. CASE a = p
      <4>1. Creates(q) /\ q.role \in RoleIDs \ issued /\ issued' = issued \cup {q.role}
        BY <1>1, <2>3, <3>1 DEF ShapeOf, Creates
      <4> QED BY <1>1, <2>1, <3>1, <4>1 DEF IInv, Fresh, RolesOf
    <3>2. CASE a # p
      <4>1. Creates(req[a]) /\ req[a] \in RequestType /\ ShapeOf(req[a]) /\ req[a].role \in RoleIDs
        <5>1. req'[a] = req[a] /\ Creates(req[a])
          BY <1>1, <2>3, <3>2
        <5>2. req[a] # Idle
          BY <5>1 DEF Creates
        <5>3. req[a] \in RequestType /\ ShapeOf(req[a])
          BY <5>2 DEF IInv, TypeOK, Shape
        <5> QED BY <5>1, <5>3 DEF ShapeOf, Creates
      <4>2. req[a].role \in issued /\ roles[req[a].role] = None
        BY <4>1 DEF IInv, Fresh
      <4>3. q.role # req[a].role
        BY ZenonT(60), <1>1, <4>1, <4>2 DEF ShapeOf, Creates
      <4>4. ASSUME req[a].op = "CreateEntity",
                   NEW r \in RolesOf(req[a].entity) \ {req[a].role}, r \in issued'
            PROVE  r \in split'
        <5>1. CASE r \in issued
          BY <1>1, <4>1, <4>4, <5>1 DEF IInv, Fresh
        <5>2. CASE r \notin issued
          <6>1. Creates(q) /\ r = q.role
            BY <4>4, <5>2
          <6>2. Touches(q, r) /\ Touches(req[a], r) /\ Opposed(req[a], q)
            BY <4>4, <6>1 DEF Touches, Opposed, RolesOf
          <6> QED BY <1>1, <3>2, <6>2 DEF Overlapped, RolesOf
        <5> QED BY <5>1, <5>2
      <4> QED BY <1>1, <2>1, <3>2, <4>1, <4>2, <4>3, <4>4 DEF IInv, Fresh
    <3> QED BY <3>1, <3>2
  <2> QED BY <2>2, <2>3 DEF Fresh, Creates, RolesOf
<1>7. /\ PendingActs(q) = {} /\ PendingMems(q) = {}
      /\ PendingActs(Idle) = {} /\ PendingMems(Idle) = {}
      /\ \A x : ~DoomsAction(q, x) /\ ~DoomsMember(q, x)
      /\ \A x : ~DoomsAction(Idle, x) /\ ~DoomsMember(Idle, x)
  BY ZenonT(60), <1>1 DEF Opening, ShapeOf, PendingActs, PendingMems, AwaitsRows, DoomsAction, DoomsMember,
              DoomsEntity, Ops, AddOps, RemoveOps, Idle
<1>8. \A a \in Requests : /\ PendingActs(req'[a]) = PendingActs(req[a])
                          /\ PendingMems(req'[a]) = PendingMems(req[a])
                          /\ \A x : /\ DoomsAction(req'[a], x) <=> DoomsAction(req[a], x)
                                    /\ DoomsMember(req'[a], x) <=> DoomsMember(req[a], x)
  BY <1>1, <1>7
<1>9. UNCHANGED <<roles, role_actions, role_members, actionPolicies, memberPolicies>>
  BY DEF tables, policies
<1>10. ActionsMatch'
  BY <1>1, <1>8, <1>9 DEF IInv, ActionsMatch
<1>11. MembersMatch'
  <2>1. ASSUME NEW r \in RoleIDs, HasMembers(r)' PROVE HasMembers(r)
    <3>1. CASE Creates(q) /\ q.role = r
      BY <3>1 DEF HasMembers
    <3>2. CASE ~(Creates(q) /\ q.role = r)
      BY <1>1, <1>9, <2>1, <3>2 DEF HasMembers, Creates
    <3> QED BY <3>1, <3>2
  <2> QED BY <1>1, <1>8, <1>9, <2>1 DEF IInv, MembersMatch
<1>12. PendingApart'
  BY <1>1, <1>8, <1>9, PendingShrinks
<1>13. ReadsCover'
  BY <1>1, <1>9 DEF IInv, ReadsCover, Opening
<1>14. RowThere'
  BY <1>1, <1>9 DEF IInv, RowThere, Creates
<1> QED BY <1>2, <1>3, <1>4, <1>5, <1>6, <1>10, <1>11, <1>12, <1>13, <1>14 DEF IInv

\* A request goes on, keeping what it is about, or ends.
Moves(p, s) ==
  /\ req[p] # Idle
  /\ req' = [req EXCEPT ![p] = s]
  /\ \/ s = Idle
     \/ /\ s \in RequestType /\ ShapeOf(s)
        /\ s.op = req[p].op /\ s.role = req[p].role /\ s.entity = req[p].entity
  /\ split \subseteq split' /\ split' \subseteq RoleIDs

\* What a step that moves one request (or ends it) leaves of the other requests.
LEMMA MovesFacts ==
  ASSUME IInv, NEW p \in Requests, NEW s, Moves(p, s)
  PROVE  /\ req[p] \in RequestType /\ ShapeOf(req[p])
         /\ req'[p] = s /\ \A o \in Requests \ {p} : req'[o] = req[o]
         /\ req' \in [Requests -> RequestType \cup {Idle}]
         /\ Apart' /\ Shape'
<1>1. /\ req[p] \in RequestType /\ ShapeOf(req[p])
      /\ req'[p] = s /\ \A o \in Requests \ {p} : req'[o] = req[o]
      /\ req' \in [Requests -> RequestType \cup {Idle}]
  BY DEF IInv, TypeOK, Shape, Moves
<1>2. Shape'
  <2> SUFFICES ASSUME NEW a \in Requests, req'[a] # Idle
               PROVE  ShapeOf(req'[a])
    BY DEF Shape, ShapeOf, Idle, Creates
  <2> QED BY <1>1 DEF IInv, Shape, Moves
<1>3. Apart'
  <2> SUFFICES ASSUME NEW a \in Requests, NEW b \in Requests, a # b, NEW r \in RoleIDs,
                      Touches(req'[a], r), Touches(req'[b], r), Opposed(req'[a], req'[b])
               PROVE  r \in split'
    BY DEF Apart, Touches, Opposed
  <2>1. ASSUME NEW o \in Requests, Touches(req'[o], r)
        PROVE  /\ req'[o] # Idle /\ req'[o].op = req[o].op
               /\ req'[o].role = req[o].role /\ req'[o].entity = req[o].entity
    BY <1>1, <2>1, IdleFacts DEF Moves
  <2>2. Touches(req[a], r) /\ Touches(req[b], r) /\ Opposed(req[a], req[b])
    BY <2>1 DEF Touches, Opposed
  <2> QED BY <2>2 DEF IInv, Apart, Moves
<1> QED BY <1>1, <1>2, <1>3

\* No role ID is drawn twice as long as only the request that drew it writes
\* its row and its first tuples.
LEMMA FreshInv ==
  ASSUME IInv, NEW p \in Requests, NEW s, Moves(p, s), UNCHANGED issued,
         \A r \in RoleIDs : roles[r] = None /\ roles'[r] # None =>
            r = req[p].role /\ Creates(req[p]) /\ s = Idle,
         \A x \in actionPolicies' \cup memberPolicies' :
            x \in actionPolicies \cup memberPolicies \/ x[1] = req[p].role
  PROVE  Fresh'
<1> USE IdleFacts
<1>1. /\ req[p] \in RequestType /\ ShapeOf(req[p])
      /\ req'[p] = s /\ \A o \in Requests \ {p} : req'[o] = req[o]
      /\ split \subseteq split'
  BY ZenonT(60), MovesFacts DEF Moves
<1>2. \A a \in Requests : /\ req'[a].role \in RoleIDs => req[a].role = req'[a].role
                          /\ Creates(req'[a]) => /\ Creates(req[a]) /\ req[a].role = req'[a].role
                                                 /\ req[a].op = req'[a].op /\ req[a].entity = req'[a].entity
  BY <1>1 DEF Moves, Creates
<1>3. ASSUME NEW r \in RoleIDs \ issued
      PROVE  /\ roles'[r] = None
             /\ \A x \in actionPolicies' \cup memberPolicies' : x[1] # r
             /\ \A a \in Requests : req'[a].role # r
  BY <1>2 DEF IInv, Fresh
<1>4. ASSUME NEW a \in Requests, Creates(req'[a])
      PROVE  /\ roles'[req'[a].role] = None
             /\ \A b \in Requests \ {a} : req'[b].role # req'[a].role
             /\ req'[a].op = "CreateEntity" =>
                  \A r \in RolesOf(req'[a].entity) \ {req'[a].role} : r \notin issued' \/ r \in split'
  <2>1. req[a] # Idle /\ ShapeOf(req[a]) /\ req[a].role \in RoleIDs
    BY ZenonT(60), <1>1, <1>2, <1>4 DEF IInv, Shape, ShapeOf, Creates
  <2>2. \A b \in Requests \ {a} : req'[b].role # req'[a].role
    BY <1>2, <1>4, <2>1 DEF IInv, Fresh
  <2>3. roles[req[a].role] = None
    BY <1>2, <1>4 DEF IInv, Fresh
  <2>4. roles'[req'[a].role] = None
    <3>1. CASE a = p
      BY <1>1, <1>2, <1>4, <2>1, <2>3, <3>1
    <3>2. CASE a # p
      <4>1. req[p].role # req[a].role
        BY <1>2, <1>4, <3>2 DEF IInv, Fresh
      <4> QED BY <1>2, <1>4, <2>1, <2>3, <4>1
    <3> QED BY <3>1, <3>2
  <2> QED BY <1>1, <1>2, <1>4, <2>1, <2>2, <2>4 DEF IInv, Fresh
<1> QED BY <1>3, <1>4 DEF Fresh, Creates, RolesOf

\* An addition keeps its role row: a row goes only with a request opposed to
\* every addition on it.
LEMMA RowThereInv ==
  ASSUME IInv, NEW p \in Requests, NEW s, Moves(p, s),
         \A r \in RoleIDs : roles[r] # None /\ roles'[r] = None =>
            r \in split \/ (Touches(req[p], r) /\ req[p].op \in RemoveOps)
  PROVE  RowThere'
<1> USE IdleFacts
<1> SUFFICES ASSUME NEW a \in Requests, req'[a].op \in {"RoleAddActions", "RoleAddMembers"}
             PROVE  roles'[req'[a].role] # None \/ req'[a].role \in split'
  BY DEF RowThere
<1>1. /\ req[p] \in RequestType
      /\ req'[p] = s /\ \A o \in Requests \ {p} : req'[o] = req[o]
      /\ split \subseteq split'
  BY ZenonT(60), MovesFacts DEF Moves
<1>2. req'[a].op = req[a].op /\ req'[a].role = req[a].role /\ req[a] # Idle
  BY <1>1 DEF Moves, Ops, AddOps
<1>3. req[a].role \in RoleIDs
  BY <1>2 DEF IInv, Shape, ShapeOf
<1>4. roles[req[a].role] # None \/ req[a].role \in split
  BY <1>2 DEF IInv, RowThere
<1>5. ASSUME Touches(req[p], req[a].role), req[p].op \in RemoveOps
      PROVE  req[a].role \in split
  <2>1. a # p
    BY <1>2, <1>5 DEF RemoveOps
  <2>2. Touches(req[a], req[a].role) /\ Opposed(req[p], req[a])
    BY <1>2, <1>5 DEF Touches, Opposed, AddOps
  <2> QED BY ZenonT(60), <1>3, <1>5, <2>1, <2>2 DEF IInv, Apart
<1> QED BY <1>1, <1>2, <1>3, <1>4, <1>5

\* On a role that is not split no row is doomed while a tuple is pending, and a
\* pending tuple belongs to the role of its request.
LEMMA PendingFacts ==
  ASSUME IInv, NEW o \in Requests, NEW x, x \in PendingActs(req[o]) \cup PendingMems(req[o])
  PROVE  /\ req[o].op \in AddOps /\ req[o] # Idle /\ x[1] = req[o].role
         /\ x[1] \in RoleIDs /\ Touches(req[o], x[1])
         /\ x \in PendingActs(req[o]) => x \in RoleIDs \X Actions
         /\ x \in PendingMems(req[o]) => x \in RoleIDs \X Members
<1>1. req[o].op \in AddOps /\ x \in req[o].acts \cup req[o].mems
  BY DEF PendingActs, PendingMems, AwaitsRows
<1>2. req[o] # Idle /\ req[o] \in RequestType /\ ShapeOf(req[o]) /\ req[o].op # "RemoveEntity"
  BY <1>1 DEF IInv, TypeOK, Shape, Idle, AddOps
<1> QED BY <1>1, <1>2 DEF ShapeOf, Touches, PendingActs, PendingMems, RequestType

\* A removal dooms only rows of roles it touches.
LEMMA DoomsFacts ==
  ASSUME IInv, NEW o \in Requests, NEW x, x[1] \in RoleIDs,
         DoomsAction(req[o], x) \/ DoomsMember(req[o], x)
  PROVE  req[o].op \in RemoveOps /\ req[o] # Idle /\ Touches(req[o], x[1])
<1>1. req[o].op \in RemoveOps
  BY DEF DoomsAction, DoomsMember, DoomsEntity, RemoveOps
<1>2. req[o] # Idle /\ ShapeOf(req[o])
  BY <1>1 DEF IInv, Shape, Idle, RemoveOps
<1> QED BY <1>1, <1>2 DEF DoomsAction, DoomsMember, DoomsEntity, ShapeOf, Touches

\* A role an addition and a removal in flight both touch is split.
LEMMA OpposedSplit ==
  ASSUME IInv, NEW a \in Requests, NEW b \in Requests, NEW r \in RoleIDs,
         req[a].op \in AddOps, req[b].op \in RemoveOps, Touches(req[a], r), Touches(req[b], r)
  PROVE  r \in split
<1>1. a # b /\ Opposed(req[a], req[b])
  BY DEF AddOps, RemoveOps, Opposed
<1> QED BY <1>1 DEF IInv, Apart

\* A step that writes neither the role tables nor the tuples keeps the
\* invariant if, on roles it does not split, the request pends and dooms what
\* it did before.
LEMMA NeutralInv ==
  ASSUME IInv, NEW p \in Requests, NEW s, Moves(p, s), TypeOK',
         UNCHANGED <<role_actions, role_members, actionPolicies, memberPolicies, issued>>,
         \A r \in RoleIDs : roles'[r] = None <=> roles[r] = None,
         \A x \in RoleIDs \X Actions : x[1] \notin split' =>
            /\ x \in PendingActs(s) <=> x \in PendingActs(req[p])
            /\ DoomsAction(s, x) <=> DoomsAction(req[p], x),
         \A x \in RoleIDs \X Members : x[1] \notin split' =>
            /\ x \in PendingMems(s) <=> x \in PendingMems(req[p])
            /\ DoomsMember(s, x) <=> DoomsMember(req[p], x),
         s.op = "RemoveEntity" =>
           /\ s.pc \in {"readMembers", "policy"} =>
                \A x \in role_actions :
                   EntityOf[x[1]] = s.entity /\ x[1] \notin split => x \in s.acts
           /\ s.pc = "policy" =>
                \A x \in role_members :
                   EntityOf[x[1]] = s.entity /\ x[1] \notin split => x \in s.mems
  PROVE  IInv'
<1> USE RolesAssumption, IdleFacts
<1>1. /\ req[p] \in RequestType /\ ShapeOf(req[p])
      /\ req'[p] = s /\ \A o \in Requests \ {p} : req'[o] = req[o]
      /\ Apart' /\ Shape'
      /\ split \subseteq split'
  BY ZenonT(60), MovesFacts DEF Moves
<1>2. \A a \in Requests, x \in RoleIDs \X Actions : x[1] \notin split' =>
        /\ x \in PendingActs(req'[a]) <=> x \in PendingActs(req[a])
        /\ DoomsAction(req'[a], x) <=> DoomsAction(req[a], x)
  BY <1>1
<1>3. \A a \in Requests, x \in RoleIDs \X Members : x[1] \notin split' =>
        /\ x \in PendingMems(req'[a]) <=> x \in PendingMems(req[a])
        /\ DoomsMember(req'[a], x) <=> DoomsMember(req[a], x)
  BY <1>1
<1>5. ForeignKeys'
  BY DEF IInv, ForeignKeys, TypeOK
<1>6. Fresh' /\ RowThere'
  BY ZenonT(60), FreshInv, RowThereInv
<1>7. ActionsMatch'
  BY <1>1, <1>2 DEF IInv, ActionsMatch
<1>8. MembersMatch'
  <2>1. ASSUME NEW r \in RoleIDs, HasMembers(r)' PROVE HasMembers(r)
    BY <1>1, <2>1 DEF HasMembers, Creates, Moves
  <2> QED BY ZenonT(60), <1>1, <1>3, <2>1 DEF IInv, MembersMatch
<1>9. PendingApart'
  <2>1. \A a \in Requests : /\ PendingActs(req'[a]) \subseteq RoleIDs \X Actions
                            /\ PendingMems(req'[a]) \subseteq RoleIDs \X Members
    BY MovesFacts DEF PendingActs, PendingMems, RequestType, Idle
  <2> QED BY <1>1, <1>2, <1>3, <2>1 DEF IInv, PendingApart
<1>10. ReadsCover'
  BY <1>1 DEF IInv, ReadsCover
<1> QED BY <1>1, <1>5, <1>6, <1>7, <1>8, <1>9, <1>10 DEF IInv

\* A step marks further roles as split, or none.
SplitGrows ==
  UNCHANGED split \/ (split \subseteq split' /\ split' \subseteq RoleIDs)

\* Goto and Finish are moves; the request Goto leaves behind.
LEMMA GotoMoves ==
  ASSUME IInv, NEW p \in Requests, NEW pc, req[p] # Idle, Goto(p, pc), SplitGrows,
         req[p].op = "RemoveEntity" =>
            pc \in {"status", "readActions", "readMembers", "policy", "filter", "db"},
         req[p].op \in RemoveOps \ {"RemoveEntity"} => pc \in {"policy", "db"},
         req[p].op \notin RemoveOps => pc \in {"save", "policy", "db", "undo", "unsave"}
  PROVE  \E s : /\ Moves(p, s)
                /\ s.op = req[p].op /\ s.pc = pc /\ s.entity = req[p].entity
                /\ s.role = req[p].role /\ s.name = req[p].name
                /\ s.acts = req[p].acts /\ s.mems = req[p].mems
<1> DEFINE s == [req[p] EXCEPT !.pc = pc]
<1>1. req[p] \in RequestType /\ ShapeOf(req[p])
  BY DEF IInv, TypeOK, Shape
<1>2. pc \in Stages
  BY DEF Stages, RemoveOps
<1>3. /\ s.op = req[p].op /\ s.pc = pc /\ s.entity = req[p].entity
      /\ s.role = req[p].role /\ s.name = req[p].name
      /\ s.acts = req[p].acts /\ s.mems = req[p].mems
      /\ s \in RequestType
  BY <1>1, <1>2 DEF RequestType
<1>4. ShapeOf(s)
  BY <1>1, <1>3 DEF ShapeOf, Creates, RemoveOps
<1>5. req' = [req EXCEPT ![p] = s]
  BY DEF Goto
<1>6. split \subseteq split' /\ split' \subseteq RoleIDs
  BY DEF SplitGrows, IInv, TypeOK
<1>7. Moves(p, s)
  BY <1>3, <1>4, <1>5, <1>6 DEF Moves
<1> QED BY ZenonT(60), <1>3, <1>7

\* Ending a request moves it and nothing else.
LEMMA FinishMoves ==
  ASSUME IInv, NEW p \in Requests, req[p] # Idle, Finish(p), SplitGrows
  PROVE  Moves(p, Idle)
BY DEF IInv, TypeOK, Moves, Finish, SplitGrows

\* What is known of a request in flight.
LEMMA InFlight ==
  ASSUME IInv, NEW p \in Requests, req[p].op \in Ops
  PROVE  /\ req[p] # Idle /\ req[p] \in RequestType /\ ShapeOf(req[p])
         /\ req[p].entity \in Entities
         /\ req[p].acts \in SUBSET (RoleIDs \X Actions)
         /\ req[p].mems \in SUBSET (RoleIDs \X Members)
         /\ req[p].op # "RemoveEntity" => req[p].role \in RoleIDs
<1>1. req[p] # Idle
  BY IdleFacts
<1>2. req[p] \in RequestType /\ ShapeOf(req[p])
  BY <1>1 DEF IInv, TypeOK, Shape
<1> QED BY <1>1, <1>2 DEF RequestType, ShapeOf
=============================================================================
