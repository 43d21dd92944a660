---------------------------- MODULE RolesRemoval ----------------------------
(* The steps of the removing operations keep the inductive invariant of Roles. *)
EXTENDS RolesRequests

\* The provers a leaf is tried with, in this order.
USE SMT, Zenon, SMTT(20), SMTT(30)

\* First write of a removal: the rows of the deleted tuples become doomed.
LEMMA DeletePoliciesInv ==
  ASSUME IInv, NEW p \in Requests, DeletePolicies(p)
  PROVE  IInv'
<1> USE IdleFacts, RolesAssumption
<1> DEFINE q == req[p]
<1>1. /\ q # Idle /\ q \in RequestType /\ ShapeOf(q) /\ q.op \in RemoveOps /\ q.pc = "policy"
      /\ q.op # "RemoveEntity" /\ q.op \notin AddOps /\ q.role \in RoleIDs
      /\ q.acts \in SUBSET (RoleIDs \X Actions) /\ q.mems \in SUBSET (RoleIDs \X Members)
      /\ UNCHANGED <<status, roles, role_actions, role_members, domainPolicies, issued, split>>
      /\ Goto(p, "db") /\ RemovedPolicies(q)
  <2>1. q.op \in RemoveOps /\ q.op # "RemoveEntity" /\ q.pc = "policy"
        /\ UNCHANGED <<status, roles, role_actions, role_members, domainPolicies, issued, split>>
        /\ Goto(p, "db") /\ RemovedPolicies(q)
    BY DEF DeletePolicies, At, tables
  <2>2. q.op \in Ops /\ q.op \notin AddOps
    BY <2>1 DEF AddOps, RemoveOps, Ops
  <2> QED BY <2>1, <2>2, InFlight
<1>2. PICK s : /\ Moves(p, s) /\ s.op = q.op /\ s.pc = "db" /\ s.role = q.role
               /\ s.acts = q.acts /\ s.mems = q.mems
  BY <1>1, GotoMoves DEF SplitGrows
<1>3. /\ req'[p] = s /\ \A o \in Requests \ {p} : req'[o] = req[o]
      /\ req' \in [Requests -> RequestType \cup {Idle}] /\ Apart' /\ Shape'
  BY <1>2, MovesFacts
<1>4. /\ PendingActs(q) = {} /\ PendingMems(q) = {} /\ PendingActs(s) = {} /\ PendingMems(s) = {}
      /\ \A x : ~DoomsAction(q, x) /\ ~DoomsMember(q, x)
      /\ \A x : DoomsAction(s, x) <=> x \in q.acts \/ (q.op = "RemoveRole" /\ x[1] = q.role)
      /\ \A x : DoomsMember(s, x) <=> x \in q.mems
  BY <1>1, <1>2 DEF PendingActs, PendingMems, AwaitsRows, DoomsAction, DoomsMember, DoomsEntity
<1>5. \A x \in RoleIDs \X Actions :
         x \in actionPolicies' <=> x \in actionPolicies /\ ~DoomsAction(s, x)
  <2>1. CASE q.op \in {"RemoveRole", "RoleRemoveAllActions"}
    BY <1>1, <1>4, <2>1 DEF RemovedPolicies, ShapeOf
  <2>2. CASE q.op \notin {"RemoveRole", "RoleRemoveAllActions"}
    BY <1>1, <1>4, <2>2 DEF RemovedPolicies
  <2> QED BY <2>1, <2>2
<1>6. \A x \in RoleIDs \X Members :
         x \in memberPolicies' <=> x \in memberPolicies /\ ~DoomsMember(s, x)
  <2>1. CASE q.op = "RoleRemoveAllMembers"
    BY <1>1, <1>4, <2>1 DEF RemovedPolicies, ShapeOf
  <2>2. CASE q.op # "RoleRemoveAllMembers"
    BY <1>1, <1>4, <2>2 DEF RemovedPolicies
  <2> QED BY <2>1, <2>2
<1>7. actionPolicies' \subseteq actionPolicies /\ memberPolicies' \subseteq memberPolicies
  BY <1>1 DEF RemovedPolicies
<1>8. TypeOK'
  BY <1>1, <1>3, <1>7 DEF IInv, TypeOK
<1>9. Fresh' /\ RowThere'
  BY <1>1, <1>2, <1>7, FreshInv, RowThereInv
<1>10. ForeignKeys' /\ ReadsCover'
  BY <1>1, <1>2, <1>3 DEF IInv, ForeignKeys, ReadsCover
<1>11. \A x : x[1] \in RoleIDs /\ x[1] \notin split /\ (DoomsAction(s, x) \/ DoomsMember(s, x)) =>
          \A o \in Requests : x \notin PendingActs(req[o]) /\ x \notin PendingMems(req[o])
  <2>1. \A x : DoomsAction(s, x) \/ DoomsMember(s, x) => Touches(q, x[1])
    BY <1>1, <1>4 DEF ShapeOf, Touches
  <2> QED BY <1>1, <2>1, PendingFacts, OpposedSplit
<1>12. ActionsMatch'
  <2> SUFFICES ASSUME NEW x \in RoleIDs \X Actions, x[1] \notin split
               PROVE  x \in actionPolicies' <=>
                        \/ x \in role_actions /\ \A o \in Requests : ~DoomsAction(req'[o], x)
                        \/ \E o \in Requests : x \in PendingActs(req'[o])
    BY <1>1 DEF ActionsMatch
  <2>1. x \in actionPolicies <=>
           \/ x \in role_actions /\ \A o \in Requests : ~DoomsAction(req[o], x)
           \/ \E o \in Requests : x \in PendingActs(req[o])
    BY DEF IInv, ActionsMatch
  <2>2. CASE DoomsAction(s, x)
    BY <1>3, <1>4, <1>5, <1>11, <2>2
  <2>3. CASE ~DoomsAction(s, x)
    BY <1>3, <1>4, <1>5, <2>1, <2>3
  <2> QED BY <2>2, <2>3
<1>13. MembersMatch'
  <2> SUFFICES ASSUME NEW x \in RoleIDs \X Members, x[1] \notin split, HasMembers(x[1])'
               PROVE  x \in memberPolicies' <=>
                        \/ x \in role_members /\ \A o \in Requests : ~DoomsMember(req'[o], x)
                        \/ \E o \in Requests : x \in PendingMems(req'[o])
    BY <1>1 DEF MembersMatch
  <2>0. HasMembers(x[1])
    BY <1>1, <1>2, <1>3 DEF HasMembers, Creates
  <2>1. x \in memberPolicies <=>
           \/ x \in role_members /\ \A o \in Requests : ~DoomsMember(req[o], x)
           \/ \E o \in Requests : x \in PendingMems(req[o])
    BY <2>0 DEF IInv, MembersMatch
  <2>2. CASE DoomsMember(s, x)
    BY <1>3, <1>4, <1>6, <1>11, <2>2
  <2>3. CASE ~DoomsMember(s, x)
    BY <1>3, <1>4, <1>6, <2>1, <2>3
  <2> QED BY <2>2, <2>3
<1>14. PendingApart'
  BY <1>1, <1>3, <1>4 DEF IInv, PendingApart
<1> QED BY <1>3, <1>8, <1>9, <1>10, <1>12, <1>13, <1>14 DEF IInv

\* Second write of a removal: the doomed rows disappear.
LEMMA DeleteRowsInv ==
  ASSUME IInv, NEW p \in Requests, DeleteRows(p)
  PROVE  IInv'
<1> USE IdleFacts, RolesAssumption
<1> DEFINE q == req[p]
<1>1. /\ q # Idle /\ q \in RequestType /\ ShapeOf(q) /\ q.op \in RemoveOps /\ q.pc = "db"
      /\ q.op # "RemoveEntity" /\ q.op \notin AddOps /\ q.role \in RoleIDs
      /\ q.acts \in SUBSET (RoleIDs \X Actions) /\ q.mems \in SUBSET (RoleIDs \X Members)
      /\ UNCHANGED <<status, actionPolicies, memberPolicies, domainPolicies, issued, split>>
      /\ Finish(p)
  <2>1. q.op \in RemoveOps /\ q.op # "RemoveEntity" /\ q.pc = "db"
        /\ UNCHANGED <<status, actionPolicies, memberPolicies, domainPolicies, issued, split>>
        /\ Finish(p)
    BY DEF DeleteRows, At, policies
  <2>2. q.op \in Ops /\ q.op \notin AddOps
    BY <2>1 DEF AddOps, RemoveOps, Ops
  <2> QED BY <2>1, <2>2, InFlight
<1>2. Moves(p, Idle)
  BY <1>1, FinishMoves DEF SplitGrows
<1>3. /\ req'[p] = Idle /\ \A o \in Requests \ {p} : req'[o] = req[o]
      /\ req' \in [Requests -> RequestType \cup {Idle}] /\ Apart' /\ Shape'
  BY <1>2, MovesFacts
<1>4. /\ PendingActs(q) = {} /\ PendingMems(q) = {}
      /\ \A x : DoomsAction(q, x) <=> x \in q.acts \/ (q.op = "RemoveRole" /\ x[1] = q.role)
      /\ \A x : DoomsMember(q, x) <=> x \in q.mems
  BY <1>1 DEF PendingActs, PendingMems, AwaitsRows, DoomsAction, DoomsMember, DoomsEntity
<1>5. /\ roles' \in [RoleIDs -> Names \cup {None}]
      /\ \A r \in RoleIDs : r # q.role => roles'[r] = roles[r]
      /\ roles'[q.role] = IF q.op = "RemoveRole" THEN None ELSE roles[q.role]
      /\ \A x \in RoleIDs \X Actions :
            x \in role_actions' <=> x \in role_actions /\ ~DoomsAction(q, x)
      /\ \A x \in RoleIDs \X Members :
            x \in role_members' <=>
               x \in role_members /\ ~DoomsMember(q, x) /\ ~(q.op = "RemoveRole" /\ x[1] = q.role)
      /\ role_actions' \subseteq role_actions /\ role_members' \subseteq role_members
  <2>1. CASE q.op = "RemoveRole"
    <3>1. q.acts = {} /\ q.mems = {}
      BY <1>1, <2>1 DEF ShapeOf
    <3> QED BY <1>1, <1>4, <2>1, <3>1 DEF DeleteRows, Cascade, IInv, TypeOK
  <2>2. CASE q.op # "RemoveRole"
    BY <1>1, <1>4, <2>2 DEF DeleteRows, IInv, TypeOK
  <2> QED BY <2>1, <2>2
<1>6. Touches(q, q.role)
  BY DEF Touches
<1>7. TypeOK'
  BY <1>1, <1>3, <1>5 DEF IInv, TypeOK
<1>8. Fresh' /\ RowThere'
  BY <1>1, <1>2, <1>5, <1>6, FreshInv, RowThereInv
<1>9. ForeignKeys'
  <2>1. ASSUME NEW x \in role_actions' PROVE roles'[x[1]] # None
    <3>1. x \in role_actions /\ x \in RoleIDs \X Actions /\ roles[x[1]] # None
      BY <1>5 DEF IInv, TypeOK, ForeignKeys
    <3> QED BY <1>4, <1>5, <3>1
  <2>2. ASSUME NEW x \in role_members' PROVE roles'[x[1]] # None
    <3>1. x \in role_members /\ x \in RoleIDs \X Members /\ roles[x[1]] # None
      BY <1>5 DEF IInv, TypeOK, ForeignKeys
    <3> QED BY <1>4, <1>5, <3>1
  <2> QED BY <2>1, <2>2 DEF ForeignKeys
<1>10. ReadsCover'
  <2>1. \A o \in Requests : req'[o].op = "RemoveEntity" => req'[o] = req[o]
    BY <1>3 DEF Ops, RemoveOps
  <2> QED BY <1>1, <1>5, <2>1 DEF IInv, ReadsCover
<1>11. \A x : x[1] \in RoleIDs /\ x[1] \notin split /\ (DoomsAction(q, x) \/ DoomsMember(q, x)) =>
          \A o \in Requests : x \notin PendingActs(req[o]) /\ x \notin PendingMems(req[o])
  BY <1>1, DoomsFacts, PendingFacts, OpposedSplit
<1>12. ActionsMatch'
  <2> SUFFICES ASSUME NEW x \in RoleIDs \X Actions, x[1] \notin split
               PROVE  x \in actionPolicies <=>
                        \/ x \in role_actions' /\ \A o \in Requests : ~DoomsAction(req'[o], x)
                        \/ \E o \in Requests : x \in PendingActs(req'[o])
    BY <1>1 DEF ActionsMatch
  <2>1. x \in actionPolicies <=>
           \/ x \in role_actions /\ \A o \in Requests : ~DoomsAction(req[o], x)
           \/ \E o \in Requests : x \in PendingActs(req[o])
    BY DEF IInv, ActionsMatch
  <2>2. CASE DoomsAction(q, x)
    BY <1>3, <1>4, <1>5, <1>11, <2>1, <2>2
  <2>3. CASE ~DoomsAction(q, x)
    BY <1>3, <1>4, <1>5, <2>1, <2>3
  <2> QED BY <2>2, <2>3
<1>13. MembersMatch'
  <2> SUFFICES ASSUME NEW x \in RoleIDs \X Members, x[1] \notin split, HasMembers(x[1])'
               PROVE  x \in memberPolicies <=>
                        \/ x \in role_members' /\ \A o \in Requests : ~DoomsMember(req'[o], x)
                        \/ \E o \in Requests : x \in PendingMems(req'[o])
    BY <1>1 DEF MembersMatch
  <2>1. q.op = "RemoveRole" => x[1] # q.role
    <3>1. q.role \in issued
      BY <1>1 DEF IInv, Fresh
    <3>2. \A o \in Requests \ {p} : Creates(req[o]) => req[o].role # q.role
      BY DEF IInv, Fresh
    <3> QED BY <1>1, <1>3, <1>5, <3>1, <3>2 DEF HasMembers, Creates
  <2>2. HasMembers(x[1])
    BY <1>1, <1>3, <1>5, <2>1 DEF HasMembers, Creates
  <2>3. x \in memberPolicies <=>
           \/ x \in role_members /\ \A o \in Requests : ~DoomsMember(req[o], x)
           \/ \E o \in Requests : x \in PendingMems(req[o])
    BY <2>2 DEF IInv, MembersMatch
  <2>4. CASE DoomsMember(q, x)
    BY <1>3, <1>4, <1>5, <1>11, <2>1, <2>3, <2>4
  <2>5. CASE ~DoomsMember(q, x)
    BY <1>3, <1>4, <1>5, <2>1, <2>3, <2>5
  <2> QED BY <2>4, <2>5
<1>14. PendingApart'
  BY <1>1, <1>3, <1>5, PendingShrinks
<1> QED BY <1>3, <1>7, <1>8, <1>9, <1>10, <1>12, <1>13, <1>14 DEF IInv

\* What an entity removal past its reads relies on: on roles of the entity that
\* are not split no addition is in flight.
LEMMA RemovalAlone ==
  ASSUME IInv, NEW p \in Requests, req[p].op = "RemoveEntity",
         NEW x, x[1] \in RoleIDs \ split, EntityOf[x[1]] = req[p].entity
  PROVE  \A o \in Requests : x \notin PendingActs(req[o]) /\ x \notin PendingMems(req[o])
<1>1. Touches(req[p], x[1]) /\ req[p].op \in RemoveOps
  BY DEF Touches, RemoveOps
<1> QED BY <1>1, PendingFacts, OpposedSplit

\* RemoveEntitiesRoles deletes tuples of rows that DeleteEntity will delete.
LEMMA RemoveEntitiesRolesInv ==
  ASSUME IInv, NEW p \in Requests, RemoveEntitiesRoles(p)
  PROVE  IInv'
<1> USE IdleFacts, RolesAssumption
<1> DEFINE q == req[p]
<1>1. /\ q # Idle /\ q \in RequestType /\ ShapeOf(q) /\ q.op = "RemoveEntity" /\ q.pc = "policy"
      /\ UNCHANGED <<status, roles, role_actions, role_members, issued, split>>
  <2>1. q.op = "RemoveEntity" /\ q.pc = "policy"
        /\ UNCHANGED <<status, roles, role_actions, role_members, issued, split>>
    BY DEF RemoveEntitiesRoles, At, tables
  <2>2. q.op \in Ops
    BY <2>1 DEF RemoveOps, Ops
  <2> QED BY <2>1, <2>2, InFlight
<1>2. /\ PendingActs(q) = {} /\ PendingMems(q) = {}
      /\ \A x : ~DoomsAction(q, x) /\ ~DoomsMember(q, x)
  BY <1>1 DEF PendingActs, PendingMems, AwaitsRows, DoomsAction, DoomsMember, DoomsEntity, AddOps
<1>3. CASE Finish(p) /\ UNCHANGED policies
  <2>1. Moves(p, Idle)
    BY <1>1, <1>3, FinishMoves DEF SplitGrows
  <2>2. TypeOK'
    BY <1>1, <1>3, <2>1, MovesFacts DEF IInv, TypeOK, policies
  <2> QED BY <1>1, <1>2, <1>3, <2>1, <2>2, NeutralInv DEF policies, Ops, RemoveOps
<1>4. CASE /\ actionPolicies' = actionPolicies \ q.acts
           /\ memberPolicies' = memberPolicies \ q.mems
           /\ Goto(p, "filter")
           /\ UNCHANGED domainPolicies
  <2>1. PICK s : /\ Moves(p, s) /\ s.op = q.op /\ s.pc = "filter" /\ s.entity = q.entity
    BY <1>1, <1>4, GotoMoves DEF RemoveOps, SplitGrows
  <2>2. /\ req'[p] = s /\ \A o \in Requests \ {p} : req'[o] = req[o]
        /\ req' \in [Requests -> RequestType \cup {Idle}] /\ Apart' /\ Shape'
    BY <2>1, MovesFacts
  <2>3. /\ PendingActs(s) = {} /\ PendingMems(s) = {}
        /\ \A x : /\ DoomsAction(s, x) <=> EntityOf[x[1]] = q.entity
                  /\ DoomsMember(s, x) <=> EntityOf[x[1]] = q.entity
    BY <1>1, <2>1 DEF PendingActs, PendingMems, AwaitsRows, DoomsAction, DoomsMember,
                      DoomsEntity, AddOps
  <2>4. TypeOK'
    BY <1>1, <1>4, <2>2 DEF IInv, TypeOK
  <2>5. Fresh' /\ RowThere'
    BY <1>1, <1>4, <2>1, FreshInv, RowThereInv
  <2>6. ForeignKeys' /\ ReadsCover'
    BY <1>1, <2>1, <2>2 DEF IInv, ForeignKeys, ReadsCover
  <2>7. /\ \A x \in q.acts : EntityOf[x[1]] = q.entity
        /\ \A x \in q.mems : EntityOf[x[1]] = q.entity
    BY <1>1 DEF ShapeOf
  <2>8. ActionsMatch'
    <3> SUFFICES ASSUME NEW x \in RoleIDs \X Actions, x[1] \notin split
                 PROVE  x \in actionPolicies' <=>
                          \/ x \in role_actions /\ \A o \in Requests : ~DoomsAction(req'[o], x)
                          \/ \E o \in Requests : x \in PendingActs(req'[o])
      BY <1>1 DEF ActionsMatch
    <3>1. x \in actionPolicies <=>
             \/ x \in role_actions /\ \A o \in Requests : ~DoomsAction(req[o], x)
             \/ \E o \in Requests : x \in PendingActs(req[o])
      BY DEF IInv, ActionsMatch
    <3>2. CASE EntityOf[x[1]] = q.entity
      <4>1. x \in role_actions => x \in q.acts
        BY <1>1, <3>2 DEF IInv, ReadsCover
      <4>2. \A o \in Requests : x \notin PendingActs(req[o])
        BY <1>1, <3>2, RemovalAlone
      <4> QED BY <1>4, <2>2, <2>3, <3>1, <3>2, <4>1, <4>2
    <3>3. CASE EntityOf[x[1]] # q.entity
      BY <1>2, <1>4, <2>2, <2>3, <2>7, <3>1, <3>3
    <3> QED BY <3>2, <3>3
  <2>9. MembersMatch'
    <3> SUFFICES ASSUME NEW x \in RoleIDs \X Members, x[1] \notin split, HasMembers(x[1])'
                 PROVE  x \in memberPolicies' <=>
                          \/ x \in role_members /\ \A o \in Requests : ~DoomsMember(req'[o], x)
                          \/ \E o \in Requests : x \in PendingMems(req'[o])
      BY <1>1 DEF MembersMatch
    <3>0. HasMembers(x[1])
      BY <1>1, <2>1, <2>2 DEF HasMembers, Creates
    <3>1. x \in memberPolicies <=>
             \/ x \in role_members /\ \A o \in Requests : ~DoomsMember(req[o], x)
             \/ \E o \in Requests : x \in PendingMems(req[o])
      BY <3>0 DEF IInv, MembersMatch
    <3>2. CASE EntityOf[x[1]] = q.entity
      <4>1. x \in role_members => x \in q.mems
        BY <1>1, <3>2 DEF IInv, ReadsCover
      <4>2. \A o \in Requests : x \notin PendingMems(req[o])
        BY <1>1, <3>2, RemovalAlone
      <4> QED BY <1>4, <2>2, <2>3, <3>1, <3>2, <4>1, <4>2
    <3>3. CASE EntityOf[x[1]] # q.entity
      BY <1>2, <1>4, <2>2, <2>3, <2>7, <3>1, <3>3
    <3> QED BY <3>2, <3>3
  <2>10. PendingApart'
    BY <1>1, <1>2, <2>2, <2>3 DEF IInv, PendingApart
  <2> QED BY <2>2, <2>4, <2>5, <2>6, <2>8, <2>9, <2>10 DEF IInv
<1> QED BY <1>3, <1>4 DEF RemoveEntitiesRoles

\* The filter on the entity deletes action tuples of doomed rows only.
LEMMA DeletePolicyFilterInv ==
  ASSUME IInv, NEW p \in Requests, DeletePolicyFilter(p)
  PROVE  IInv'
<1> USE IdleFacts, RolesAssumption
<1> DEFINE q == req[p]
<1>1. /\ q # Idle /\ q.op = "RemoveEntity" /\ q.pc = "filter"
      /\ UNCHANGED <<status, roles, role_actions, role_members, memberPolicies, issued, split>>
      /\ actionPolicies' = {x \in actionPolicies : EntityOf[x[1]] # q.entity}
      /\ domainPolicies' = domainPolicies \ {q.entity}
      /\ Goto(p, "db")
  BY DEF DeletePolicyFilter, At, tables, RemoveOps, Ops
<1>2. PICK s : /\ Moves(p, s) /\ s.op = q.op /\ s.pc = "db" /\ s.entity = q.entity
  BY <1>1, GotoMoves DEF RemoveOps, SplitGrows
<1>3. /\ req'[p] = s /\ \A o \in Requests \ {p} : req'[o] = req[o]
      /\ req' \in [Requests -> RequestType \cup {Idle}] /\ Apart' /\ Shape'
  BY <1>2, MovesFacts
<1>4. \A a \in Requests : /\ PendingActs(req'[a]) = PendingActs(req[a])
                          /\ PendingMems(req'[a]) = PendingMems(req[a])
                          /\ \A x : /\ DoomsAction(req'[a], x) <=> DoomsAction(req[a], x)
                                    /\ DoomsMember(req'[a], x) <=> DoomsMember(req[a], x)
  <2>1. /\ PendingActs(s) = {} /\ PendingActs(q) = {}
        /\ PendingMems(s) = {} /\ PendingMems(q) = {}
    BY <1>1, <1>2 DEF PendingActs, PendingMems, AwaitsRows, AddOps
  <2>2. \A x : /\ DoomsAction(s, x) <=> DoomsAction(q, x)
               /\ DoomsMember(s, x) <=> DoomsMember(q, x)
    BY <1>1, <1>2 DEF DoomsAction, DoomsMember, DoomsEntity
  <2> QED BY <1>3, <2>1, <2>2
<1>5. TypeOK'
  BY <1>1, <1>3 DEF IInv, TypeOK
<1>6. Fresh' /\ RowThere'
  BY <1>1, <1>2, FreshInv, RowThereInv
<1>7. ForeignKeys' /\ ReadsCover'
  BY <1>1, <1>2, <1>3 DEF IInv, ForeignKeys, ReadsCover
<1>8. ActionsMatch'
  <2> SUFFICES ASSUME NEW x \in RoleIDs \X Actions, x[1] \notin split
               PROVE  x \in actionPolicies' <=> x \in actionPolicies
    BY <1>1, <1>4 DEF IInv, ActionsMatch
  <2>1. CASE EntityOf[x[1]] = q.entity
    <3>1. DoomsAction(q, x)
      BY <1>1, <2>1 DEF DoomsAction, DoomsEntity
    <3>2. \A o \in Requests : x \notin PendingActs(req[o])
      BY <1>1, <2>1, RemovalAlone
    <3>3. x \notin actionPolicies
      BY <3>1, <3>2 DEF IInv, ActionsMatch
    <3> QED BY <1>1, <3>3
  <2>2. CASE EntityOf[x[1]] # q.entity
    BY <1>1, <2>2
  <2> QED BY <2>1, <2>2
<1>9. MembersMatch'
  <2>1. ASSUME NEW r \in RoleIDs, HasMembers(r)' PROVE HasMembers(r)
    <3>1. ~Creates(req'[p])
      BY <1>1, <1>2, <1>3 DEF Creates
    <3>2. roles' = roles /\ issued' = issued
      BY <1>1
    <3> QED BY ZenonT(60), <1>3, <2>1, <3>1, <3>2 DEF HasMembers, Creates
  <2> QED BY <1>1, <1>4, <2>1 DEF IInv, MembersMatch
<1>10. PendingApart'
  BY <1>1, <1>4, PendingShrinks
<1> QED BY <1>3, <1>5, <1>6, <1>7, <1>8, <1>9, <1>10 DEF IInv

=============================================================================
