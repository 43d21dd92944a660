---------------------------- MODULE RolesProofs -----------------------------
(* The compensations and the removal of the entity row keep the inductive     *)
(* invariant of Roles; and the theorems about the role manager, for any       *)
(* number of entities, roles, actions, users and handlers in flight.          *)
EXTENDS RolesAddition, RolesRemoval

\* The provers a leaf is tried with, in this order.
USE SMT, Zenon, SMTT(20), SMTT(30)

\* Compensation of an addition: its pending tuples disappear.
LEMMA RollbackInv ==
  ASSUME IInv, NEW p \in Requests, Rollback(p)
  PROVE  IInv'
<1> USE IdleFacts, RolesAssumption
<1> DEFINE q == req[p]
<1>1. /\ q # Idle /\ q \in RequestType /\ ShapeOf(q) /\ q.op \in AddOps /\ q.pc = "undo"
      /\ q.op \notin RemoveOps /\ q.role \in RoleIDs /\ q.entity \in Entities
      /\ q.acts \in SUBSET (RoleIDs \X Actions) /\ q.mems \in SUBSET (RoleIDs \X Members)
      /\ UNCHANGED <<status, roles, role_actions, role_members, issued, split>>
  <2>1. q.op \in AddOps /\ q.pc = "undo"
        /\ UNCHANGED <<status, roles, role_actions, role_members, issued, split>>
    BY DEF Rollback, At, tables
  <2>2. q.op \in Ops /\ q.op \notin RemoveOps
    BY <2>1 DEF AddOps, RemoveOps, Ops
  <2> QED BY <2>1, <2>2, InFlight DEF RemoveOps
<1>2. /\ actionPolicies' = actionPolicies \ q.acts
      /\ memberPolicies' = memberPolicies \ q.mems
      /\ domainPolicies' = domainPolicies \ DomainTuple(q)
  BY DEF Rollback
<1>3. /\ PendingActs(q) = q.acts /\ PendingMems(q) = q.mems
      /\ \A x : ~DoomsAction(q, x) /\ ~DoomsMember(q, x)
  BY <1>1 DEF PendingActs, PendingMems, AwaitsRows, DoomsAction, DoomsMember, DoomsEntity,
              RemoveOps
<1>4. PICK s : /\ Moves(p, s) /\ s.op # "RemoveEntity"
               /\ PendingActs(s) = {} /\ PendingMems(s) = {}
               /\ \A x : ~DoomsAction(s, x) /\ ~DoomsMember(s, x)
  <2>1. CASE Finish(p)
    BY <1>1, <2>1, FinishMoves DEF Ops, RemoveOps, SplitGrows
  <2>2. CASE Goto(p, "unsave")
    <3>1. PICK s : Moves(p, s) /\ s.op = q.op /\ s.pc = "unsave"
      BY <1>1, <2>2, GotoMoves DEF RemoveOps, SplitGrows
    <3> QED BY <1>1, <3>1 DEF PendingActs, PendingMems, AwaitsRows, DoomsAction, DoomsMember,
                              DoomsEntity, RemoveOps
  <2> QED BY <2>1, <2>2 DEF Rollback
<1>5. /\ req'[p] = s /\ \A o \in Requests \ {p} : req'[o] = req[o]
      /\ req' \in [Requests -> RequestType \cup {Idle}] /\ Apart' /\ Shape'
  BY <1>4, MovesFacts
<1>6. TypeOK'
  BY <1>1, <1>2, <1>5 DEF IInv, TypeOK
<1>7. Fresh' /\ RowThere'
  BY <1>1, <1>2, <1>4, FreshInv, RowThereInv
<1>8. ForeignKeys' /\ ReadsCover'
  BY <1>1, <1>4, <1>5 DEF IInv, ForeignKeys, ReadsCover
<1>9. ActionsMatch'
  BY <1>1, <1>2, <1>3, <1>4, <1>5 DEF IInv, ActionsMatch, PendingApart
<1>10. MembersMatch'
  <2>1. ASSUME NEW r \in RoleIDs, HasMembers(r)' PROVE HasMembers(r)
    BY <1>1, <1>4, <1>5, <2>1 DEF HasMembers, Creates, Moves
  <2> QED BY <1>1, <1>2, <1>3, <1>4, <1>5, <2>1 DEF IInv, MembersMatch, PendingApart
<1>11. PendingApart'
  BY <1>1, <1>4, <1>5 DEF IInv, PendingApart
<1> QED BY <1>5, <1>6, <1>7, <1>8, <1>9, <1>10, <1>11 DEF IInv

\* CreateEntity takes its entity row back: on roles that are not split there is
\* nothing the cascade could delete.
LEMMA UnsaveEntityInv ==
  ASSUME IInv, NEW p \in Requests, UnsaveEntity(p)
  PROVE  IInv'
<1> USE IdleFacts, RolesAssumption
<1> DEFINE q == req[p]
           R == RolesOf(q.entity)
<1>1. /\ q # Idle /\ q \in RequestType /\ ShapeOf(q) /\ q.op = "CreateEntity" /\ q.pc = "unsave"
      /\ q.role \in RoleIDs /\ q.entity \in Entities
      /\ UNCHANGED <<actionPolicies, memberPolicies, domainPolicies, issued, split>>
      /\ status' = [status EXCEPT ![q.entity] = "absent"]
  <2>1. q.op = "CreateEntity" /\ q.pc = "unsave"
        /\ UNCHANGED <<actionPolicies, memberPolicies, domainPolicies, issued, split>>
        /\ status' = [status EXCEPT ![q.entity] = "absent"]
    BY DEF UnsaveEntity, At, policies
  <2>2. q.op \in Ops
    BY <2>1 DEF AddOps, Ops
  <2> QED BY <2>1, <2>2, InFlight
<1>2. /\ roles' = [r \in RoleIDs |-> IF r \in R THEN None ELSE roles[r]]
      /\ role_actions' = {x \in role_actions : x[1] \notin R}
      /\ role_members' = {x \in role_members : x[1] \notin R}
  BY DEF UnsaveEntity, Cascade
<1>3. Moves(p, Idle)
  BY <1>1, FinishMoves DEF UnsaveEntity, SplitGrows
<1>4. /\ req'[p] = Idle /\ \A o \in Requests \ {p} : req'[o] = req[o]
      /\ req' \in [Requests -> RequestType \cup {Idle}] /\ Apart' /\ Shape'
  BY <1>3, MovesFacts
<1>5. \A r \in R : r \in split \/ roles[r] = None
  BY <1>1 DEF IInv, Fresh, Creates, RolesOf
<1>6. /\ \A x \in role_actions : x[1] \notin split => x \in role_actions'
      /\ \A x \in role_members : x[1] \notin split => x \in role_members'
  BY <1>2, <1>5 DEF IInv, ForeignKeys
<1>7. /\ PendingActs(q) = {} /\ PendingMems(q) = {}
      /\ \A x : ~DoomsAction(q, x) /\ ~DoomsMember(q, x)
  BY <1>1 DEF PendingActs, PendingMems, AwaitsRows, DoomsAction, DoomsMember, DoomsEntity,
              RemoveOps
<1>8. TypeOK'
  BY <1>1, <1>2, <1>4 DEF IInv, TypeOK
<1>9. Fresh' /\ RowThere'
  BY <1>1, <1>2, <1>3, <1>5, FreshInv, RowThereInv
<1>10. ForeignKeys'
  BY <1>2 DEF IInv, ForeignKeys, TypeOK
<1>11. ReadsCover'
  <2>1. \A o \in Requests : req'[o].op = "RemoveEntity" => req'[o] = req[o]
    BY <1>4 DEF Ops, RemoveOps
  <2> QED BY <1>1, <1>2, <2>1 DEF IInv, ReadsCover
<1>12. ActionsMatch'
  BY <1>1, <1>2, <1>4, <1>6, <1>7 DEF IInv, ActionsMatch
<1>13. MembersMatch'
  <2>1. ASSUME NEW r \in RoleIDs, HasMembers(r)' PROVE HasMembers(r)
    BY <1>1, <1>2, <1>4, <2>1 DEF HasMembers, Creates
  <2> QED BY <1>1, <1>2, <1>4, <1>6, <1>7, <2>1 DEF IInv, MembersMatch
<1>14. PendingApart'
  BY <1>1, <1>2, <1>4, <1>7 DEF IInv, PendingApart
<1> QED BY <1>4, <1>8, <1>9, <1>10, <1>11, <1>12, <1>13, <1>14 DEF IInv

\* Deleting the entity row deletes the rows whose tuples have gone.
LEMMA DeleteEntityInv ==
  ASSUME IInv, NEW p \in Requests, DeleteEntity(p)
  PROVE  IInv'
<1> USE IdleFacts, RolesAssumption
<1> DEFINE q == req[p]
           R == RolesOf(q.entity)
<1>1. /\ q # Idle /\ q.op = "RemoveEntity" /\ q.pc = "db" /\ q.op \in RemoveOps
      /\ UNCHANGED <<actionPolicies, memberPolicies, domainPolicies, issued, split>>
      /\ status' = [status EXCEPT ![q.entity] = "absent"]
      /\ Finish(p)
  BY DEF DeleteEntity, At, policies, RemoveOps, Ops
<1>2. /\ roles' = [r \in RoleIDs |-> IF r \in R THEN None ELSE roles[r]]
      /\ role_actions' = {x \in role_actions : x[1] \notin R}
      /\ role_members' = {x \in role_members : x[1] \notin R}
  BY DEF DeleteEntity, Cascade
<1>3. Moves(p, Idle)
  BY <1>1, FinishMoves DEF SplitGrows
<1>4. /\ req'[p] = Idle /\ \A o \in Requests \ {p} : req'[o] = req[o]
      /\ req' \in [Requests -> RequestType \cup {Idle}] /\ Apart' /\ Shape'
  BY <1>3, MovesFacts
<1>5. /\ PendingActs(q) = {} /\ PendingMems(q) = {}
      /\ \A x : x[1] \in RoleIDs => /\ DoomsAction(q, x) <=> x[1] \in R
                                    /\ DoomsMember(q, x) <=> x[1] \in R
  BY <1>1 DEF PendingActs, PendingMems, AwaitsRows, DoomsAction, DoomsMember, DoomsEntity, AddOps,
              RolesOf
<1>6. TypeOK'
  BY <1>1, <1>2, <1>4 DEF IInv, TypeOK
<1>7. Fresh' /\ RowThere'
  <2>1. \A r \in R : Touches(q, r)
    BY <1>1 DEF Touches, RolesOf
  <2> QED BY <1>1, <1>2, <1>3, <2>1, FreshInv, RowThereInv
<1>8. ForeignKeys'
  BY <1>2 DEF IInv, ForeignKeys, TypeOK
<1>9. ReadsCover'
  <2>1. \A o \in Requests : req'[o].op = "RemoveEntity" => req'[o] = req[o]
    BY <1>4 DEF Ops, RemoveOps
  <2> QED BY <1>1, <1>2, <2>1 DEF IInv, ReadsCover
<1>10. \A x : x[1] \in R \ split =>
          \A o \in Requests : x \notin PendingActs(req[o]) /\ x \notin PendingMems(req[o])
  BY <1>1, RemovalAlone DEF RolesOf
<1>11. ActionsMatch'
  <2> SUFFICES ASSUME NEW x \in RoleIDs \X Actions, x[1] \notin split
               PROVE  x \in actionPolicies <=>
                        \/ x \in role_actions' /\ \A o \in Requests : ~DoomsAction(req'[o], x)
                        \/ \E o \in Requests : x \in PendingActs(req'[o])
    BY <1>1 DEF ActionsMatch
  <2>1. x \in actionPolicies <=>
           \/ x \in role_actions /\ \A o \in Requests : ~DoomsAction(req[o], x)
           \/ \E o \in Requests : x \in PendingActs(req[o])
    BY DEF IInv, ActionsMatch
  <2>2. CASE x[1] \in R
    BY <1>2, <1>4, <1>5, <1>10, <2>1, <2>2
  <2>3. CASE x[1] \notin R
    BY <1>2, <1>4, <1>5, <2>1, <2>3
  <2> QED BY <2>2, <2>3
<1>12. MembersMatch'
  <2> SUFFICES ASSUME NEW x \in RoleIDs \X Members, x[1] \notin split, HasMembers(x[1])'
               PROVE  x \in memberPolicies <=>
                        \/ x \in role_members' /\ \A o \in Requests : ~DoomsMember(req'[o], x)
                        \/ \E o \in Requests : x \in PendingMems(req'[o])
    BY <1>1 DEF MembersMatch
  <2>0. HasMembers(x[1])
    BY <1>1, <1>2, <1>4 DEF HasMembers, Creates
  <2>1. x \in memberPolicies <=>
           \/ x \in role_members /\ \A o \in Requests : ~DoomsMember(req[o], x)
           \/ \E o \in Requests : x \in PendingMems(req[o])
    BY <2>0 DEF IInv, MembersMatch
  <2>2. CASE x[1] \in R
    BY <1>2, <1>4, <1>5, <1>10, <2>1, <2>2
  <2>3. CASE x[1] \notin R
    BY <1>2, <1>4, <1>5, <2>1, <2>3
  <2> QED BY <2>2, <2>3
<1>13. PendingApart'
  BY <1>1, <1>2, <1>4, <1>5 DEF IInv, PendingApart
<1> QED BY <1>4, <1>6, <1>7, <1>8, <1>9, <1>11, <1>12, <1>13 DEF IInv

-----------------------------------------------------------------------------
\* The empty stores satisfy the invariant.
LEMMA InitInv == Init => IInv
<1> SUFFICES ASSUME Init PROVE IInv
  OBVIOUS
<1> USE IdleFacts, RolesAssumption
<1>1. \A p \in Requests : req[p] = Idle
  BY DEF Init
<1>2. TypeOK
  BY DEF Init, TypeOK
<1>3. Apart /\ Shape /\ PendingApart
  BY <1>1 DEF Apart, Shape, PendingApart
<1>4. ForeignKeys /\ Fresh
  BY <1>1 DEF Init, ForeignKeys, Fresh
<1>5. RowThere /\ ReadsCover
  BY <1>1 DEF RowThere, ReadsCover, Ops, AddOps, RemoveOps
<1>6. ActionsMatch /\ MembersMatch
  BY <1>1 DEF Init, ActionsMatch, MembersMatch
<1> QED BY <1>2, <1>3, <1>4, <1>5, <1>6 DEF IInv

\* A stuttering step keeps the invariant.
LEMMA StutterInv == IInv /\ UNCHANGED vars => IInv'
<1> SUFFICES ASSUME IInv, UNCHANGED vars PROVE IInv'
  OBVIOUS
<1>1. /\ UNCHANGED <<status, roles, role_actions, role_members>>
      /\ UNCHANGED <<actionPolicies, memberPolicies, domainPolicies, issued, req, split>>
  BY DEF vars, tables, policies
<1>2. TypeOK' /\ Apart' /\ Shape' /\ ForeignKeys' /\ RowThere'
  BY <1>1 DEF IInv, TypeOK, Apart, Shape, ForeignKeys, RowThere
<1>3. Fresh' /\ ReadsCover' /\ PendingApart'
  BY <1>1 DEF IInv, Fresh, ReadsCover, PendingApart
<1>4. ActionsMatch' /\ MembersMatch'
  BY <1>1 DEF IInv, ActionsMatch, MembersMatch, HasMembers
<1> QED BY <1>2, <1>3, <1>4 DEF IInv

\* Every step of a handler, every failed call and every stop keeps the invariant.
LEMMA NextInv == IInv /\ Next => IInv'
<1> SUFFICES ASSUME IInv, NEW p \in Requests,
                    Start(p) \/ Step(p) \/ CallFails(p) \/ Crash(p)
             PROVE  IInv'
  BY DEF Next
<1>1. CASE Start(p)
  <2>1. TypeOK
    BY DEF IInv
  <2> QED BY <1>1, <2>1, StartBegins, BeginInv
<1>2. CASE Step(p)
  BY <1>2, SaveEntityInv, AddPoliciesInv, InsertRowsInv, RollbackInv, UnsaveEntityInv,
     DeletePoliciesInv, DeleteRowsInv, RenameRowInv, MarkDeletedInv, ReadActionsInv,
     ReadMembersInv, RemoveEntitiesRolesInv, DeletePolicyFilterInv, DeleteEntityInv DEF Step
<1> QED BY <1>1, <1>2, CallFailsInv, CrashInv

\* The strengthening is an invariant of every run of the role manager: the
\* tuples of a role that is not split are its rows, less what removals in
\* flight have doomed, plus what additions in flight have pending.
THEOREM Inductive == Spec => []IInv
  BY InitInv, StutterInv, NextInv, PTL DEF Spec

\* The state of the role manager (the rows of pkg/roles/repo/postgres, the
\* tuples, the handlers) keeps its type through every operation and failure.
THEOREM TypeCorrect == Spec => []TypeOK
<1>1. IInv => TypeOK
  BY DEF IInv
<1> QED BY <1>1, Inductive, PTL

\* No in-flight request touches a quiet role, so nothing is pending or doomed.
LEMMA AgreementStep == IInv => StoresAgree
<1> SUFFICES ASSUME IInv, NEW r \in RoleIDs \ split, Quiet(r)
             PROVE  /\ RowsOf(actionPolicies, r) = RowsOf(role_actions, r)
                    /\ roles[r] # None => RowsOf(memberPolicies, r) = RowsOf(role_members, r)
  BY DEF StoresAgree
<1>1. ASSUME NEW x, x[1] = r, NEW o \in Requests
      PROVE  /\ x \notin PendingActs(req[o]) /\ x \notin PendingMems(req[o])
             /\ ~DoomsAction(req[o], x) /\ ~DoomsMember(req[o], x)
  BY <1>1, PendingFacts, DoomsFacts DEF Quiet
<1>2. \A x \in RoleIDs \X Actions : x[1] = r => (x \in actionPolicies <=> x \in role_actions)
  BY <1>1 DEF IInv, ActionsMatch
<1>3. roles[r] # None =>
        \A x \in RoleIDs \X Members : x[1] = r => (x \in memberPolicies <=> x \in role_members)
  BY <1>1 DEF IInv, MembersMatch, HasMembers
<1>4. TypeOK
  BY DEF IInv
<1>5. RowsOf(actionPolicies, r) = RowsOf(role_actions, r)
  BY <1>2, <1>4 DEF TypeOK, RowsOf
<1>6. roles[r] # None => RowsOf(memberPolicies, r) = RowsOf(role_members, r)
  BY <1>3, <1>4 DEF TypeOK, RowsOf
<1> QED BY <1>5, <1>6

\* For every number of handlers, roles, actions and users: the tables and the
\* policy store agree on every quiet role that was never split.
THEOREM Agreement == Spec => []StoresAgree
  BY AgreementStep, Inductive, PTL

\* Under the invariant the tuples grant what the rows grant.
LEMMA DecisionsStep == IInv => DecisionsMatchRows
<1> SUFFICES ASSUME IInv, NEW e \in Entities, \A r \in RolesOf(e) : r \notin split /\ Quiet(r)
             PROVE  Granted(actionPolicies, memberPolicies, e) = Granted(role_actions, role_members, e)
  BY DEF DecisionsMatchRows
<1>1. ASSUME NEW r \in RolesOf(e)
      PROVE  /\ \A x : x[1] = r => (x \in actionPolicies <=> x \in role_actions)
             /\ roles[r] # None => \A x : x[1] = r => (x \in memberPolicies <=> x \in role_members)
  <2>1. r \in RoleIDs \ split /\ Quiet(r)
    BY DEF RolesOf
  <2>2. /\ RowsOf(actionPolicies, r) = RowsOf(role_actions, r)
        /\ roles[r] # None => RowsOf(memberPolicies, r) = RowsOf(role_members, r)
    BY <2>1, AgreementStep DEF StoresAgree
  <2> QED BY <2>2 DEF RowsOf
<1>2. \A r \in RolesOf(e), a \in Actions : <<r, a>> \in role_actions => roles[r] # None
  BY DEF IInv, ForeignKeys
<1>3. ASSUME NEW r \in RolesOf(e), NEW u \in Members, NEW a \in Actions
      PROVE  (<<r, u>> \in memberPolicies /\ <<r, a>> \in actionPolicies) <=>
             (<<r, u>> \in role_members /\ <<r, a>> \in role_actions)
  <2>1. <<r, a>> \in actionPolicies <=> <<r, a>> \in role_actions
    BY <1>1
  <2>2. roles[r] # None => (<<r, u>> \in memberPolicies <=> <<r, u>> \in role_members)
    BY <1>1
  <2> QED BY <1>2, <2>1, <2>2
<1> QED BY <1>3 DEF Granted

\* The decisions of the policy store on an entity whose roles are quiet and
\* whole are the ones its role tables justify.
THEOREM Decisions == Spec => []DecisionsMatchRows
  BY DecisionsStep, Inductive, PTL
=============================================================================
