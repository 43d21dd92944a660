--------------------------- MODULE RolesAddition ----------------------------
(* The steps of the adding operations, the reads, and the failures keep the   *)
(* inductive invariant of Roles.                                              *)
EXTENDS RolesRequests

\* The provers a leaf is tried with, in this order.
USE SMT, Zenon, SMTT(20), SMTT(30)

\* The steps that write no role row and no tuple.
LEMMA SaveEntityInv ==
  ASSUME IInv, NEW p \in Requests, SaveEntity(p)
  PROVE  IInv'
<1>1. req[p].op = "CreateEntity" /\ req[p].pc = "save" /\ req[p] # Idle
  BY DEF SaveEntity, At, Idle
<1>2. PICK s : /\ Moves(p, s)
               /\ s.op = req[p].op /\ s.pc = "policy" /\ s.entity = req[p].entity
  BY <1>1, GotoMoves DEF SaveEntity, RemoveOps, SplitGrows
<1>3. TypeOK'
  BY ZenonT(60), <1>2, MovesFacts DEF SaveEntity, IInv, TypeOK, policies
<1> QED BY <1>1, <1>2, <1>3, NeutralInv
        DEF SaveEntity, policies, PendingActs, PendingMems, AwaitsRows, DoomsAction, DoomsMember,
            DoomsEntity, RemoveOps

\* UpdateRole changes a name and no other part of the invariant.
LEMMA RenameRowInv ==
  ASSUME IInv, NEW p \in Requests, RenameRow(p)
  PROVE  IInv'
<1> USE RolesAssumption, IdleFacts
<1>1. req[p].op = "UpdateRoleName" /\ req[p] # Idle
  BY DEF RenameRow, At, Idle
<1>2. Moves(p, Idle)
  BY <1>1, FinishMoves DEF RenameRow, SplitGrows
<1>3. req[p].role \in RoleIDs /\ req[p].name \in Names
  BY <1>1 DEF IInv, TypeOK, Shape, ShapeOf, RequestType
<1>4. \A r \in RoleIDs : roles'[r] = None <=> roles[r] = None
  BY <1>3 DEF RenameRow, IInv, TypeOK
<1>5. TypeOK'
  BY <1>2, <1>3, MovesFacts DEF RenameRow, IInv, TypeOK, policies
<1> QED BY <1>1, <1>2, <1>4, <1>5, NeutralInv
        DEF RenameRow, policies, PendingActs, PendingMems, AwaitsRows, DoomsAction, DoomsMember,
            DoomsEntity, AddOps, RemoveOps, Idle

\* ChangeStatus to deleted touches no role.
LEMMA MarkDeletedInv ==
  ASSUME IInv, NEW p \in Requests, MarkDeleted(p)
  PROVE  IInv'
<1> USE IdleFacts
<1>1. req[p].op = "RemoveEntity" /\ req[p].pc = "status" /\ req[p] # Idle
  BY DEF MarkDeleted, At, Idle
<1>2. PICK s : /\ Moves(p, s)
               /\ s = Idle \/ (s.op = req[p].op /\ s.pc = "readActions" /\ s.entity = req[p].entity)
  <2>1. CASE Finish(p)
    BY <1>1, <2>1, FinishMoves DEF MarkDeleted, SplitGrows
  <2>2. CASE Goto(p, "readActions")
    BY <1>1, <2>2, GotoMoves DEF MarkDeleted, RemoveOps, SplitGrows
  <2> QED BY <2>1, <2>2 DEF MarkDeleted
<1>3. TypeOK'
  BY <1>2, MovesFacts DEF MarkDeleted, IInv, TypeOK, policies
<1> QED BY <1>1, <1>2, <1>3, NeutralInv
        DEF MarkDeleted, policies, PendingActs, PendingMems, AwaitsRows, DoomsAction, DoomsMember,
            DoomsEntity, AddOps, RemoveOps, Idle

\* The first query of RetrieveEntitiesRolesActionsMembers covers the action rows.
LEMMA ReadActionsInv ==
  ASSUME IInv, NEW p \in Requests, ReadActions(p)
  PROVE  IInv'
<1> USE IdleFacts
<1> DEFINE A == {x \in role_actions : EntityOf[x[1]] = req[p].entity}
           s == [req[p] EXCEPT !.pc = "readMembers", !.acts = A]
<1>1. /\ req[p].op = "RemoveEntity" /\ req[p].pc = "readActions" /\ req[p] # Idle
      /\ req[p] \in RequestType /\ ShapeOf(req[p])
  BY DEF ReadActions, At, Idle, IInv, TypeOK, Shape
<1>2. A \subseteq RoleIDs \X Actions
  BY DEF IInv, TypeOK
<1>3. /\ s.op = req[p].op /\ s.pc = "readMembers" /\ s.entity = req[p].entity
      /\ s.role = req[p].role /\ s.acts = A /\ s.mems = req[p].mems
      /\ s \in RequestType
  BY ZenonT(60), <1>1, <1>2 DEF RequestType, Stages
<1>4. ShapeOf(s)
  BY <1>1, <1>3 DEF ShapeOf
<1>5. req' = [req EXCEPT ![p] = s]
  BY ZenonT(60) DEF ReadActions
<1> HIDE DEF s
<1>6. Moves(p, s)
  BY ZenonT(60), <1>1, <1>3, <1>4, <1>5 DEF Moves, ReadActions, IInv, TypeOK
<1>7. TypeOK'
  BY ZenonT(60), <1>6, MovesFacts DEF ReadActions, IInv, TypeOK, policies, tables
<1> QED BY <1>1, <1>3, <1>6, <1>7, NeutralInv
        DEF ReadActions, tables, policies, PendingActs, PendingMems, AwaitsRows, DoomsAction,
            DoomsMember, DoomsEntity, AddOps, RemoveOps

\* Its second query covers the member rows.
LEMMA ReadMembersInv ==
  ASSUME IInv, NEW p \in Requests, ReadMembers(p)
  PROVE  IInv'
<1> USE IdleFacts
<1> DEFINE M == {x \in role_members : EntityOf[x[1]] = req[p].entity}
           s == [req[p] EXCEPT !.pc = "policy", !.mems = M]
<1>1. /\ req[p].op = "RemoveEntity" /\ req[p].pc = "readMembers" /\ req[p] # Idle
      /\ req[p] \in RequestType /\ ShapeOf(req[p])
  BY DEF ReadMembers, At, Idle, IInv, TypeOK, Shape
<1>2. M \subseteq RoleIDs \X Members
  BY DEF IInv, TypeOK
<1>3. /\ s.op = req[p].op /\ s.pc = "policy" /\ s.entity = req[p].entity
      /\ s.role = req[p].role /\ s.acts = req[p].acts /\ s.mems = M
      /\ s \in RequestType
  BY ZenonT(60), <1>1, <1>2 DEF RequestType, Stages
<1>4. ShapeOf(s)
  BY <1>1, <1>3 DEF ShapeOf
<1>5. req' = [req EXCEPT ![p] = s]
  BY ZenonT(60) DEF ReadMembers
<1> HIDE DEF s
<1>6. Moves(p, s)
  BY ZenonT(60), <1>1, <1>3, <1>4, <1>5 DEF Moves, ReadMembers, IInv, TypeOK
<1>7. TypeOK'
  BY ZenonT(60), <1>6, MovesFacts DEF ReadMembers, IInv, TypeOK, policies, tables
<1>8. \A x \in role_actions :
         EntityOf[x[1]] = req[p].entity /\ x[1] \notin split => x \in req[p].acts
  BY <1>1 DEF IInv, ReadsCover
<1> QED BY <1>1, <1>3, <1>6, <1>7, <1>8, NeutralInv
        DEF ReadMembers, tables, policies, PendingActs, PendingMems, AwaitsRows, DoomsAction,
            DoomsMember, DoomsEntity, AddOps, RemoveOps

\* Ending a request, or turning back, where HalfDone says which roles it leaves
\* split: everything it pends or dooms is on those roles.
LEMMA HalfDoneFacts ==
  ASSUME IInv, NEW p \in Requests
  PROVE  /\ HalfDone(p) \subseteq RoleIDs
         /\ \A x : x[1] \in RoleIDs /\ x[1] \notin HalfDone(p) =>
              /\ x \notin PendingActs(req[p]) /\ x \notin PendingMems(req[p])
              /\ ~DoomsAction(req[p], x) /\ ~DoomsMember(req[p], x)
<1>1. HalfDone(p) \subseteq RoleIDs
  BY DEF HalfDone, Touched
<1>2. ASSUME NEW x, x[1] \in RoleIDs,
             x \in PendingActs(req[p]) \/ x \in PendingMems(req[p])
      PROVE  x[1] \in HalfDone(p)
  BY <1>2, PendingFacts DEF HalfDone, Touched, PendingActs, PendingMems, AwaitsRows
<1>3. ASSUME NEW x, x[1] \in RoleIDs,
             DoomsAction(req[p], x) \/ DoomsMember(req[p], x)
      PROVE  x[1] \in HalfDone(p)
  <2>1. req[p].op \in RemoveOps /\ Touches(req[p], x[1])
    BY <1>3, DoomsFacts
  <2>2. req[p].pc \in {"filter", "db"}
    BY <1>3 DEF DoomsAction, DoomsMember, DoomsEntity
  <2> QED BY <1>3, <2>1, <2>2 DEF HalfDone, Touched
<1> QED BY <1>1, <1>2, <1>3

\* A handler that stops splits at most the roles it had half done.
LEMMA CrashInv ==
  ASSUME IInv, NEW p \in Requests, Crash(p)
  PROVE  IInv'
<1> USE IdleFacts
<1>1. /\ split' = split \cup HalfDone(p) /\ split' \subseteq RoleIDs
      /\ req[p] # Idle
  BY HalfDoneFacts DEF Crash, Split, IInv, TypeOK
<1>2. Moves(p, Idle)
  BY <1>1, FinishMoves DEF Crash, SplitGrows
<1>3. TypeOK'
  BY <1>1, <1>2, MovesFacts DEF Crash, IInv, TypeOK, tables, policies
<1> QED BY ZenonT(60), <1>1, <1>2, <1>3, HalfDoneFacts, NeutralInv DEF Crash, tables, policies, Idle

\* So does a call that fails, or the request goes on to compensate.
LEMMA CallFailsInv ==
  ASSUME IInv, NEW p \in Requests, CallFails(p)
  PROVE  IInv'
<1> USE IdleFacts
<1> DEFINE q == req[p]
<1>1. /\ q # Idle /\ q \in RequestType /\ ShapeOf(q)
      /\ UNCHANGED <<tables, policies, issued>>
  BY DEF CallFails, IInv, TypeOK, Shape
<1>2. UNCHANGED <<roles, role_actions, role_members, actionPolicies, memberPolicies, issued>>
  BY <1>1 DEF tables, policies
<1>3. CASE q.op \in AddOps /\ q.pc = "db" /\ UNCHANGED split
  <2>1. CASE Finish(p) /\ q.acts = {} /\ q.mems = {}
    <3>1. Moves(p, Idle)
      BY <1>1, <1>3, <2>1, FinishMoves DEF SplitGrows
    <3>2. TypeOK'
      BY <1>1, <1>3, <3>1, MovesFacts DEF IInv, TypeOK, tables, policies
    <3> QED BY ZenonT(60), <1>2, <1>3, <2>1, <3>1, <3>2, NeutralInv
            DEF PendingActs, PendingMems, AwaitsRows, DoomsAction, DoomsMember, DoomsEntity,
                AddOps, RemoveOps, Idle
  <2>2. CASE Goto(p, "undo")
    <3>1. q.op \notin RemoveOps
      BY <1>3 DEF AddOps, RemoveOps
    <3>2. PICK s : /\ Moves(p, s) /\ s.op = q.op /\ s.pc = "undo"
                   /\ s.acts = q.acts /\ s.mems = q.mems
      BY <1>1, <1>3, <2>2, <3>1, GotoMoves DEF RemoveOps, SplitGrows
    <3>3. TypeOK'
      BY <1>1, <1>3, <3>2, MovesFacts DEF IInv, TypeOK, tables, policies
    <3> QED BY <1>2, <1>3, <3>1, <3>2, <3>3, NeutralInv
            DEF PendingActs, PendingMems, AwaitsRows, DoomsAction, DoomsMember, DoomsEntity,
                RemoveOps
  <2> QED BY <1>3, <2>1, <2>2 DEF CallFails
<1>4. CASE q.op = "CreateEntity" /\ Goto(p, "unsave") /\ Split(HalfDone(p))
  <2>1. split' = split \cup HalfDone(p) /\ split' \subseteq RoleIDs
    BY <1>4, HalfDoneFacts DEF Split, IInv, TypeOK
  <2>2. PICK s : Moves(p, s) /\ s.op = q.op /\ s.pc = "unsave"
    BY <1>1, <1>4, <2>1, GotoMoves DEF RemoveOps, SplitGrows
  <2>3. TypeOK'
    BY <1>1, <2>1, <2>2, MovesFacts DEF IInv, TypeOK, tables, policies
  <2>4. /\ PendingActs(s) = {} /\ PendingMems(s) = {}
        /\ \A x : ~DoomsAction(s, x) /\ ~DoomsMember(s, x)
    BY <1>4, <2>2 DEF PendingActs, PendingMems, AwaitsRows, DoomsAction, DoomsMember,
                      DoomsEntity, RemoveOps
  <2> QED BY <1>2, <1>4, <2>1, <2>2, <2>3, <2>4, HalfDoneFacts, NeutralInv
<1>5. CASE Finish(p) /\ Split(HalfDone(p))
  BY <1>1, <1>5, CrashInv DEF Crash
<1> QED BY <1>3, <1>4, <1>5 DEF CallFails

\* The store steps.  First write of an addition: the tuples become pending.
LEMMA AddPoliciesInv ==
  ASSUME IInv, NEW p \in Requests, AddPolicies(p)
  PROVE  IInv'
<1> USE IdleFacts
<1> DEFINE q == req[p]
<1>1. /\ q # Idle /\ q \in RequestType /\ ShapeOf(q) /\ q.op \in AddOps /\ q.pc = "policy"
      /\ q.op \notin RemoveOps /\ q.role \in RoleIDs /\ q.entity \in Entities
      /\ q.acts \in SUBSET (RoleIDs \X Actions) /\ q.mems \in SUBSET (RoleIDs \X Members)
      /\ UNCHANGED <<tables, issued, split>>
  <2>1. q.op \in AddOps /\ q.pc = "policy" /\ UNCHANGED <<tables, issued, split>>
    BY DEF AddPolicies, At
  <2>2. q.op \in Ops /\ q.op \notin RemoveOps
    BY <2>1 DEF AddOps, RemoveOps, Ops
  <2> QED BY <2>1, <2>2, InFlight DEF RemoveOps
<1>2. UNCHANGED <<status, roles, role_actions, role_members, issued, split>>
  BY <1>1 DEF tables
<1>3. /\ PendingActs(q) = {} /\ PendingMems(q) = {}
      /\ \A x : ~DoomsAction(q, x) /\ ~DoomsMember(q, x)
  BY <1>1 DEF PendingActs, PendingMems, AwaitsRows, DoomsAction, DoomsMember, DoomsEntity,
              RemoveOps
<1>4. CASE UNCHANGED policies /\ IF q.op = "CreateEntity" THEN Goto(p, "unsave") ELSE Finish(p)
  <2>1. PICK s : Moves(p, s) /\ (s = Idle \/ (s.op = q.op /\ s.pc = "unsave"))
    <3>1. CASE Finish(p)
      BY <1>1, <3>1, FinishMoves DEF SplitGrows
    <3>2. CASE Goto(p, "unsave")
      BY <1>1, <3>2, GotoMoves DEF RemoveOps, SplitGrows
    <3> QED BY <1>4, <3>1, <3>2
  <2>2. TypeOK'
    BY <1>2, <1>4, <2>1, MovesFacts DEF IInv, TypeOK, policies
  <2>3. /\ PendingActs(s) = {} /\ PendingMems(s) = {}
        /\ \A x : ~DoomsAction(s, x) /\ ~DoomsMember(s, x)
    BY <1>1, <2>1 DEF PendingActs, PendingMems, AwaitsRows, DoomsAction, DoomsMember,
                      DoomsEntity, RemoveOps
  <2> QED BY ZenonT(60), <1>1, <1>2, <1>3, <1>4, <2>1, <2>2, <2>3, NeutralInv DEF policies, Idle, RemoveOps
<1>5. CASE /\ q.acts \cap actionPolicies = {} /\ q.mems \cap memberPolicies = {}
           /\ actionPolicies' = actionPolicies \cup q.acts
           /\ memberPolicies' = memberPolicies \cup q.mems
           /\ domainPolicies' = domainPolicies \cup DomainTuple(q)
           /\ Goto(p, "db")
  <2>1. PICK s : /\ Moves(p, s) /\ s.op = q.op /\ s.pc = "db" /\ s.role = q.role
                 /\ s.acts = q.acts /\ s.mems = q.mems
    BY <1>1, <1>5, GotoMoves DEF RemoveOps, SplitGrows
  <2>2. /\ req'[p] = s /\ \A o \in Requests \ {p} : req'[o] = req[o]
        /\ req' \in [Requests -> RequestType \cup {Idle}] /\ Apart' /\ Shape'
    BY <2>1, MovesFacts
  <2>3. /\ PendingActs(s) = q.acts /\ PendingMems(s) = q.mems
        /\ \A x : ~DoomsAction(s, x) /\ ~DoomsMember(s, x)
    BY <1>1, <2>1 DEF PendingActs, PendingMems, AwaitsRows, DoomsAction, DoomsMember,
                      DoomsEntity, RemoveOps
  <2>4. TypeOK'
    BY <1>1, <1>2, <1>5, <2>2 DEF IInv, TypeOK, DomainTuple
  <2>5. \A x \in q.acts \cup q.mems : x[1] = q.role /\ Touches(q, x[1])
    BY <1>1 DEF ShapeOf, Touches, AddOps
  <2>6. Fresh' /\ RowThere'
    BY <1>2, <1>5, <2>1, <2>5, FreshInv, RowThereInv
  <2>7. ForeignKeys' /\ ReadsCover'
    BY <1>1, <1>2, <2>1, <2>2 DEF IInv, ForeignKeys, ReadsCover, AddOps
  <2>8. ActionsMatch'
    BY <1>2, <1>3, <1>5, <2>2, <2>3 DEF IInv, ActionsMatch
  <2>9. MembersMatch'
    <3>1. ASSUME NEW r \in RoleIDs, HasMembers(r)' PROVE HasMembers(r)
      BY <1>2, <2>1, <2>2, <3>1 DEF HasMembers, Creates
    <3> QED BY <1>2, <1>3, <1>5, <2>2, <2>3, <3>1 DEF IInv, MembersMatch
  <2>10. ASSUME NEW x \in q.acts, x[1] \notin split
         PROVE  x \notin role_actions /\ \A o \in Requests : x \notin PendingActs(req[o])
    <3>1. x \in RoleIDs \X Actions /\ x \notin actionPolicies /\ x[1] \in RoleIDs
      BY <1>1, <1>5
    <3>2. \A o \in Requests : ~DoomsAction(req[o], x)
      BY <1>1, <2>5, <2>10, <3>1, DoomsFacts, OpposedSplit
    <3> QED BY <2>10, <3>1, <3>2 DEF IInv, ActionsMatch
  <2>11. ASSUME NEW x \in q.mems, x[1] \notin split
         PROVE  x \notin role_members /\ \A o \in Requests : x \notin PendingMems(req[o])
    <3>1. x \in RoleIDs \X Members /\ x \notin memberPolicies /\ x[1] \in RoleIDs
      BY <1>1, <1>5
    <3>2. \A o \in Requests : ~DoomsMember(req[o], x)
      BY <1>1, <2>5, <2>11, <3>1, DoomsFacts, OpposedSplit
    <3>3. HasMembers(x[1])
      <4>1. q.op # "RoleAddActions"
        BY <1>1 DEF ShapeOf
      <4>2. CASE Creates(q)
        BY <2>5, <4>2 DEF HasMembers
      <4>3. CASE q.op = "RoleAddMembers"
        BY <2>5, <2>11, <4>3 DEF IInv, RowThere, HasMembers
      <4> QED BY <1>1, <4>1, <4>2, <4>3 DEF AddOps, Creates
    <3> QED BY <2>11, <3>1, <3>2, <3>3 DEF IInv, MembersMatch
  <2>12. PendingApart'
    BY <1>2, <2>2, <2>3, <2>10, <2>11 DEF IInv, PendingApart
  <2> QED BY <2>2, <2>4, <2>6, <2>7, <2>8, <2>9, <2>12 DEF IInv
<1> QED BY <1>4, <1>5 DEF AddPolicies

\* Second write of an addition: the rows of its pending tuples appear.
LEMMA InsertRowsInv ==
  ASSUME IInv, NEW p \in Requests, InsertRows(p)
  PROVE  IInv'
<1> USE IdleFacts, RolesAssumption
<1> DEFINE q == req[p]
<1>1. /\ q # Idle /\ q \in RequestType /\ ShapeOf(q) /\ q.op \in AddOps /\ q.pc = "db"
      /\ q.op \notin RemoveOps /\ q.role \in RoleIDs /\ q.entity \in Entities
      /\ q.acts \in SUBSET (RoleIDs \X Actions) /\ q.mems \in SUBSET (RoleIDs \X Members)
      /\ UNCHANGED <<status, policies, issued, split>>
  <2>1. q.op \in AddOps /\ q.pc = "db" /\ UNCHANGED <<status, policies, issued, split>>
    BY DEF InsertRows, At
  <2>2. q.op \in Ops /\ q.op \notin RemoveOps
    BY <2>1 DEF AddOps, RemoveOps, Ops
  <2> QED BY <2>1, <2>2, InFlight DEF RemoveOps
<1>2. UNCHANGED <<actionPolicies, memberPolicies, domainPolicies, issued, split>>
  BY <1>1 DEF policies
<1>3. /\ PendingActs(q) = q.acts /\ PendingMems(q) = q.mems
      /\ \A x : ~DoomsAction(q, x) /\ ~DoomsMember(q, x)
  BY <1>1 DEF PendingActs, PendingMems, AwaitsRows, DoomsAction, DoomsMember, DoomsEntity,
              RemoveOps
<1>4. CASE /\ UNCHANGED <<roles, role_actions, role_members>>
           /\ IF q.acts = {} /\ q.mems = {} THEN Finish(p) ELSE Goto(p, "undo")
  <2>1. PICK s : /\ Moves(p, s) /\ s.op # "RemoveEntity"
                 /\ PendingActs(s) = q.acts /\ PendingMems(s) = q.mems
                 /\ \A x : ~DoomsAction(s, x) /\ ~DoomsMember(s, x)
    <3>1. CASE Finish(p) /\ q.acts = {} /\ q.mems = {}
      BY <1>1, <3>1, FinishMoves DEF Ops, RemoveOps, SplitGrows
    <3>2. CASE Goto(p, "undo")
      <4>1. PICK s : /\ Moves(p, s) /\ s.op = q.op /\ s.pc = "undo"
                     /\ s.acts = q.acts /\ s.mems = q.mems
        BY <1>1, <3>2, GotoMoves DEF RemoveOps, SplitGrows
      <4> QED BY <1>1, <4>1 DEF PendingActs, PendingMems, AwaitsRows, DoomsAction, DoomsMember,
                                DoomsEntity, RemoveOps
    <3> QED BY ZenonT(60), <1>4, <3>1, <3>2
  <2>2. TypeOK'
    BY <1>1, <1>2, <1>4, <2>1, MovesFacts DEF IInv, TypeOK
  <2> QED BY ZenonT(60), <1>2, <1>3, <1>4, <2>1, <2>2, NeutralInv
<1>5. CASE /\ Insertable(q)
           /\ roles' = IF q.op \in {"CreateEntity", "AddRole"}
                       THEN [roles EXCEPT ![q.role] = q.name] ELSE roles
           /\ role_actions' = role_actions \cup q.acts
           /\ role_members' = role_members \cup q.mems
           /\ Finish(p)
  <2>1. Moves(p, Idle)
    BY <1>1, <1>5, FinishMoves DEF SplitGrows
  <2>2. /\ req'[p] = Idle /\ \A o \in Requests \ {p} : req'[o] = req[o]
        /\ req' \in [Requests -> RequestType \cup {Idle}] /\ Apart' /\ Shape'
    BY <2>1, MovesFacts
  <2>3. \A x \in q.acts \cup q.mems : x[1] = q.role /\ Touches(q, x[1])
    BY <1>1 DEF ShapeOf, Touches, AddOps
  <2>4. /\ roles' \in [RoleIDs -> Names \cup {None}]
        /\ \A r \in RoleIDs \ {q.role} : roles'[r] = roles[r]
        /\ roles'[q.role] # None
        /\ roles[q.role] # None \/ Creates(q)
    <3>1. CASE Creates(q)
      BY <1>1, <1>5, <3>1 DEF Creates, ShapeOf, IInv, TypeOK
    <3>2. CASE ~Creates(q)
      BY <1>1, <1>5, <3>2 DEF Creates, Insertable, IInv, TypeOK
    <3> QED BY <3>1, <3>2
  <2>5. TypeOK'
    BY <1>1, <1>2, <1>5, <2>2, <2>4 DEF IInv, TypeOK
  <2>6. Fresh' /\ RowThere'
    BY <1>1, <1>2, <2>1, <2>4, FreshInv, RowThereInv
  <2>7. ForeignKeys'
    BY <1>1, <1>5, <2>3, <2>4 DEF IInv, ForeignKeys, TypeOK
  <2>8. \A x \in q.acts \cup q.mems : x[1] \in RoleIDs /\ (x[1] \notin split =>
           \A o \in Requests : ~DoomsAction(req[o], x) /\ ~DoomsMember(req[o], x))
    BY <1>1, <2>3, DoomsFacts, OpposedSplit
  <2>9. ActionsMatch'
    <3> SUFFICES ASSUME NEW x \in RoleIDs \X Actions, x[1] \notin split
                 PROVE  x \in actionPolicies <=>
                          \/ x \in role_actions' /\ \A o \in Requests : ~DoomsAction(req'[o], x)
                          \/ \E o \in Requests : x \in PendingActs(req'[o])
      BY <1>2 DEF ActionsMatch
    <3>1. x \in actionPolicies <=>
             \/ x \in role_actions /\ \A o \in Requests : ~DoomsAction(req[o], x)
             \/ \E o \in Requests : x \in PendingActs(req[o])
      BY DEF IInv, ActionsMatch
    <3>2. CASE x \in q.acts
      BY <1>3, <1>5, <2>2, <2>8, <3>1, <3>2
    <3>3. CASE x \notin q.acts
      BY <1>3, <1>5, <2>2, <3>1, <3>3
    <3> QED BY <3>2, <3>3
  <2>10. MembersMatch'
    <3> SUFFICES ASSUME NEW x \in RoleIDs \X Members, x[1] \notin split, HasMembers(x[1])'
                 PROVE  x \in memberPolicies <=>
                          \/ x \in role_members' /\ \A o \in Requests : ~DoomsMember(req'[o], x)
                          \/ \E o \in Requests : x \in PendingMems(req'[o])
      BY <1>2 DEF MembersMatch
    <3>1. HasMembers(x[1])
      <4>1. x[1] \in RoleIDs
        OBVIOUS
      <4> QED BY <1>2, <2>2, <2>4, <4>1 DEF HasMembers, Creates
    <3>2. x \in memberPolicies <=>
             \/ x \in role_members /\ \A o \in Requests : ~DoomsMember(req[o], x)
             \/ \E o \in Requests : x \in PendingMems(req[o])
      BY <3>1 DEF IInv, MembersMatch
    <3>3. CASE x \in q.mems
      BY <1>3, <1>5, <2>2, <2>8, <3>2, <3>3
    <3>4. CASE x \notin q.mems
      BY <1>3, <1>5, <2>2, <3>2, <3>4
    <3> QED BY <3>3, <3>4
  <2>11. PendingApart'
    BY <1>2, <1>3, <1>5, <2>2 DEF IInv, PendingApart
  <2>12. ReadsCover'
    <3> SUFFICES ASSUME NEW o \in Requests, req'[o].op = "RemoveEntity"
                 PROVE  /\ req'[o].pc \in {"readMembers", "policy"} =>
                             \A x \in role_actions' : EntityOf[x[1]] = req'[o].entity
                                  /\ x[1] \notin split' => x \in req'[o].acts
                        /\ req'[o].pc = "policy" =>
                             \A x \in role_members' : EntityOf[x[1]] = req'[o].entity
                                  /\ x[1] \notin split' => x \in req'[o].mems
      BY ZenonT(60) DEF ReadsCover
    <3>1. o # p /\ req'[o] = req[o]
      BY <2>2 DEF Ops, RemoveOps
    <3>2. ASSUME NEW x \in q.acts \cup q.mems, EntityOf[x[1]] = req[o].entity
          PROVE  x[1] \in split
      BY <1>1, <2>3, <2>8, <3>1, <3>2, OpposedSplit DEF Touches, RemoveOps
    <3>3. split' = split
      BY <1>2
    <3> QED BY ZenonT(60), <1>5, <3>1, <3>2, <3>3 DEF IInv, ReadsCover
  <2> QED BY <2>2, <2>5, <2>6, <2>7, <2>9, <2>10, <2>11, <2>12 DEF IInv
<1> QED BY <1>4, <1>5 DEF InsertRows

=============================================================================
