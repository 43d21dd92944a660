------------------------------- MODULE Roles -------------------------------
(***************************************************************************)
(* The role manager shared by domains, groups, channels and clients        *)
(* (pkg/roles/provisionmanage.go).  A role and its actions and members     *)
(* live in two stores that no transaction spans: the tables of the entity  *)
(* service (pkg/roles/repo/postgres) and the relationship tuples of the    *)
(* policy store (pkg/policies/spicedb).  Every operation writes first one  *)
(* store and then the other, and compensates by hand.  A request is a      *)
(* handler in flight; each call it makes to a store is one step, so that   *)
(* requests interleave between any two calls, every call may fail and a    *)
(* handler may stop at any point.                                          *)
(*                                                                         *)
(* A role ID is drawn fresh by the ID provider and belongs to one entity   *)
(* for ever, which EntityOf fixes.                                         *)
(***************************************************************************)

CONSTANTS Entities,   \* entities of one type (groups, channels, clients)
          RoleIDs,    \* role IDs the ID provider can hand out
          EntityOf,   \* the entity each role ID is drawn for
          Names,      \* role names
          Admin,      \* BuiltInRoleAdmin
          Actions,    \* actions of the entity type
          Members,    \* user IDs
          Requests,   \* handlers that can be in flight
          None        \* "no role row"

ASSUME RolesAssumption == /\ EntityOf \in [RoleIDs -> Entities]
                          /\ Admin \in Names
                          /\ None \notin Names
                          /\ None \notin RoleIDs

VARIABLES status,          \* row of the entity table
          roles,           \* <prefix>_roles: name of each role, None if no row
          role_actions,    \* <prefix>_role_actions
          role_members,    \* <prefix>_role_members
          actionPolicies,  \* tuples role#member -> action -> entity
          memberPolicies,  \* tuples user -> member -> role
          domainPolicies,  \* tuples domain -> domain -> entity
          issued,          \* role IDs handed out so far
          req,             \* the handlers in flight
          split            \* roles on which the stores may have been split
                           \* (history, see Split)

tables   == <<status, roles, role_actions, role_members>>
policies == <<actionPolicies, memberPolicies, domainPolicies>>
vars     == <<tables, policies, issued, req, split>>

AddOps    == {"CreateEntity", "AddRole", "RoleAddActions", "RoleAddMembers"}
RemoveOps == {"RemoveRole", "RoleRemoveActions", "RoleRemoveAllActions",
              "RoleRemoveMembers", "RoleRemoveAllMembers", "RemoveEntity"}
Ops       == AddOps \cup RemoveOps \cup {"UpdateRoleName"}
Stages    == {"save", "policy", "db", "undo", "unsave",
              "status", "readActions", "readMembers", "filter"}

Idle == [op |-> "idle", pc |-> "done", entity |-> None, role |-> None, name |-> None,
         acts |-> {}, mems |-> {}]

RequestType ==
  [op : Ops, pc : Stages, entity : Entities, role : RoleIDs \cup {None},
   name : Names \cup {None}, acts : SUBSET (RoleIDs \X Actions),
   mems : SUBSET (RoleIDs \X Members)]

TypeOK ==
  /\ status \in [Entities -> {"absent", "enabled", "deleted"}]
  /\ roles \in [RoleIDs -> Names \cup {None}]
  /\ role_actions \subseteq RoleIDs \X Actions
  /\ role_members \subseteq RoleIDs \X Members
  /\ actionPolicies \subseteq RoleIDs \X Actions
  /\ memberPolicies \subseteq RoleIDs \X Members
  /\ domainPolicies \subseteq Entities
  /\ issued \subseteq RoleIDs
  /\ req \in [Requests -> RequestType \cup {Idle}]
  /\ split \subseteq RoleIDs

Init ==
  /\ status = [e \in Entities |-> "absent"]
  /\ roles = [r \in RoleIDs |-> None]
  /\ role_actions = {} /\ role_members = {}
  /\ actionPolicies = {} /\ memberPolicies = {} /\ domainPolicies = {}
  /\ issued = {} /\ split = {}
  /\ req = [p \in Requests |-> Idle]

-----------------------------------------------------------------------------
(* Requests and the history variable. *)

\* The roles a request may write: its own, or every role of the entity whose
\* row it may delete (RemoveEntity, and CreateEntity when it compensates).
Touches(q, r) == \/ q.role = r
                 \/ q.op \in {"CreateEntity", "RemoveEntity"} /\ q.entity = EntityOf[r]

\* Of two requests on one role, one adds and one removes, or may do both.
Opposed(q, s) == \/ q.op \in AddOps /\ s.op \in RemoveOps
                 \/ q.op \in RemoveOps /\ s.op \in AddOps
                 \/ "CreateEntity" \in {q.op, s.op}

\* Roles on which q overlaps an opposed request other than p's own.
Overlapped(p, q) ==
  {r \in RoleIDs : Touches(q, r) /\ \E o \in Requests \ {p} :
                                       Touches(req[o], r) /\ Opposed(req[o], q)}

\* The stores may stay split on r for good only after one of three events:
\* an adding and a removing request on r overlapped, the second write of a
\* removal or a compensation failed, or a handler stopped between its writes.
Split(S) == split' = split \cup S

Begin(p, q) == /\ req[p] = Idle
               /\ req' = [req EXCEPT ![p] = q]
               /\ Split(Overlapped(p, q))

Goto(p, pc)  == req' = [req EXCEPT ![p].pc = pc]
Finish(p)    == req' = [req EXCEPT ![p] = Idle]
At(p, O, pc) == req[p].op \in O /\ req[p].pc = pc
Touched(p)   == {r \in RoleIDs : Touches(req[p], r)}

Request(op, pc, e, r, n, A, M) ==
  [op |-> op, pc |-> pc, entity |-> e, role |-> r, name |-> n,
   acts |-> {r} \X A, mems |-> {r} \X M]

-----------------------------------------------------------------------------
(* The operations: the check each one starts with. *)

\* CreateGroup, CreateChannels, CreateClients: a fresh entity ID, then
\* AddNewEntitiesRoles draws the ID of its built-in admin role.
CreateEntity(p, r, u) ==
  /\ r \notin issued
  /\ status[EntityOf[r]] = "absent"
  /\ \A s \in issued : EntityOf[s] # EntityOf[r]
  /\ issued' = issued \cup {r}
  /\ Begin(p, Request("CreateEntity", "save", EntityOf[r], r, Admin, Actions, {u}))
  /\ UNCHANGED <<tables, policies>>

\* AddRole checks nothing but the actions; an empty list of tuples skips the
\* policy store.
AddRole(p, r, n, A, M) ==
  /\ r \notin issued
  /\ issued' = issued \cup {r}
  /\ Begin(p, Request("AddRole", IF A = {} /\ M = {} THEN "db" ELSE "policy",
                      EntityOf[r], r, n, A, M))
  /\ UNCHANGED <<tables, policies>>

\* The other operations first retrieve the role of the entity.
OnRole(p, r, q) ==
  /\ roles[r] # None
  /\ Begin(p, q)
  /\ UNCHANGED <<tables, policies, issued>>

RemoveRole(p, r) ==
  OnRole(p, r, Request("RemoveRole", "policy", EntityOf[r], r, None, {}, {}))

UpdateRoleName(p, r, n) ==
  OnRole(p, r, Request("UpdateRoleName", "db", EntityOf[r], r, n, {}, {}))

RoleAddActions(p, r, A) ==
  /\ A # {}
  /\ OnRole(p, r, Request("RoleAddActions", "policy", EntityOf[r], r, None, A, {}))

RoleAddMembers(p, r, M) ==
  /\ M # {}
  /\ OnRole(p, r, Request("RoleAddMembers", "policy", EntityOf[r], r, None, {}, M))

RoleRemoveActions(p, r, A) ==
  /\ A # {}
  /\ OnRole(p, r, Request("RoleRemoveActions", "policy", EntityOf[r], r, None, A, {}))

RoleRemoveMembers(p, r, M) ==
  /\ M # {}
  /\ OnRole(p, r, Request("RoleRemoveMembers", "policy", EntityOf[r], r, None, {}, M))

RoleRemoveAllActions(p, r) ==
  OnRole(p, r, Request("RoleRemoveAllActions", "policy", EntityOf[r], r, None, Actions, {}))

RoleRemoveAllMembers(p, r) ==
  OnRole(p, r, Request("RoleRemoveAllMembers", "policy", EntityOf[r], r, None, {}, Members))

\* DeleteGroup, RemoveChannel, Delete (client): the part the three share.
RemoveEntity(p, e) ==
  /\ status[e] # "absent"
  /\ Begin(p, [op |-> "RemoveEntity", pc |-> "status", entity |-> e, role |-> None,
               name |-> None, acts |-> {}, mems |-> {}])
  /\ UNCHANGED <<tables, policies, issued>>

-----------------------------------------------------------------------------
(* Steps of the adding operations. *)

\* repo.Save of the entity row.
SaveEntity(p) ==
  /\ At(p, {"CreateEntity"}, "save")
  /\ status' = [status EXCEPT ![req[p].entity] = "enabled"]
  /\ Goto(p, "policy")
  /\ UNCHANGED <<roles, role_actions, role_members, policies, issued, split>>

\* Mutant: the tuple names the built-in role instead of the entity.
DomainTupleOfRole(q) == IF q.op = "CreateEntity" THEN {q.role} ELSE {}

DomainTuple(q) == IF q.op = "CreateEntity" THEN {q.entity} ELSE {}

\* AddPolicies writes all tuples with OPERATION_CREATE: it fails as a whole if
\* one of them exists.
AddPolicies(p) ==
  /\ At(p, AddOps, "policy")
  /\ LET q == req[p]
         exists == \/ q.acts \cap actionPolicies # {}
                   \/ q.mems \cap memberPolicies # {}
                   \/ DomainTuple(q) \cap domainPolicies # {}
     IN  \/ /\ ~exists
            /\ actionPolicies' = actionPolicies \cup q.acts
            /\ memberPolicies' = memberPolicies \cup q.mems
            /\ domainPolicies' = domainPolicies \cup DomainTuple(q)
            /\ Goto(p, "db")
         \/ /\ exists
            /\ IF q.op = "CreateEntity" THEN Goto(p, "unsave") ELSE Finish(p)
            /\ UNCHANGED policies
  /\ UNCHANGED <<tables, issued, split>>

\* UNIQUE (name, entity_id), UNIQUE (member_id, entity_id), UNIQUE (role_id,
\* action) and the foreign keys of the role tables, for the rows q inserts.
Insertable(q) ==
  /\ IF q.op \in {"CreateEntity", "AddRole"}
     THEN /\ status[q.entity] # "absent"
          /\ \A r \in RoleIDs : ~(EntityOf[r] = q.entity /\ roles[r] = q.name)
     ELSE roles[q.role] # None
  /\ q.acts \cap role_actions = {}
  /\ \A x \in q.mems, y \in role_members :
        ~(x[2] = y[2] /\ EntityOf[x[1]] = EntityOf[y[1]])

\* repo.AddRoles, repo.RoleAddActions, repo.RoleAddMembers: one transaction.
InsertRows(p) ==
  /\ At(p, AddOps, "db")
  /\ LET q == req[p]
     IN  \/ /\ Insertable(q)
            /\ roles' = IF q.op \in {"CreateEntity", "AddRole"}
                        THEN [roles EXCEPT ![q.role] = q.name] ELSE roles
            /\ role_actions' = role_actions \cup q.acts
            /\ role_members' = role_members \cup q.mems
            /\ Finish(p)
         \/ /\ ~Insertable(q)
            /\ IF q.acts = {} /\ q.mems = {} THEN Finish(p) ELSE Goto(p, "undo")
            /\ UNCHANGED <<roles, role_actions, role_members>>
  /\ UNCHANGED <<status, policies, issued, split>>

\* Mutant: the compensation forgets the optional member tuples.
RollbackForgetsMembers(p) ==
  /\ At(p, AddOps, "undo")
  /\ LET q == req[p]
     IN  /\ actionPolicies' = actionPolicies \ q.acts
         /\ domainPolicies' = domainPolicies \ DomainTuple(q)
         /\ IF q.op = "CreateEntity" THEN Goto(p, "unsave") ELSE Finish(p)
  /\ UNCHANGED <<memberPolicies, tables, issued, split>>

\* The deferred DeletePolicies of the tuples the request added.
Rollback(p) ==
  /\ At(p, AddOps, "undo")
  /\ LET q == req[p]
     IN  /\ actionPolicies' = actionPolicies \ q.acts
         /\ memberPolicies' = memberPolicies \ q.mems
         /\ domainPolicies' = domainPolicies \ DomainTuple(q)
         /\ IF q.op = "CreateEntity" THEN Goto(p, "unsave") ELSE Finish(p)
  /\ UNCHANGED <<tables, issued, split>>

\* Rows of the role tables that go with the entity row (ON DELETE CASCADE).
Cascade(R) ==
  /\ roles' = [r \in RoleIDs |-> IF r \in R THEN None ELSE roles[r]]
  /\ role_actions' = {x \in role_actions : x[1] \notin R}
  /\ role_members' = {x \in role_members : x[1] \notin R}

RolesOf(e) == {r \in RoleIDs : EntityOf[r] = e}

\* The deferred repo.Delete of the entity row.
UnsaveEntity(p) ==
  /\ At(p, {"CreateEntity"}, "unsave")
  /\ status' = [status EXCEPT ![req[p].entity] = "absent"]
  /\ Cascade(RolesOf(req[p].entity))
  /\ Finish(p)
  /\ UNCHANGED <<policies, issued, split>>

-----------------------------------------------------------------------------
(* Steps of the removing operations. *)

\* Mutant: RemoveRole deletes the tuples whose object is the role instead of
\* those whose subject it is.
RemovedPoliciesByObject(q) ==
  /\ actionPolicies' = IF q.op = "RoleRemoveAllActions"
                       THEN {x \in actionPolicies : x[1] # q.role}
                       ELSE actionPolicies \ q.acts
  /\ memberPolicies' = IF q.op = "RoleRemoveAllMembers"
                       THEN {x \in memberPolicies : x[1] # q.role}
                       ELSE memberPolicies \ q.mems

\* RemoveRole and RoleRemoveAllActions delete the tuples whose subject is the
\* role, RoleRemoveAllMembers the tuples whose object is the role, the others
\* the tuples they list.
RemovedPolicies(q) ==
  /\ actionPolicies' = IF q.op \in {"RemoveRole", "RoleRemoveAllActions"}
                       THEN {x \in actionPolicies : x[1] # q.role}
                       ELSE actionPolicies \ q.acts
  /\ memberPolicies' = IF q.op = "RoleRemoveAllMembers"
                       THEN {x \in memberPolicies : x[1] # q.role}
                       ELSE memberPolicies \ q.mems

DeletePolicies(p) ==
  /\ At(p, RemoveOps \ {"RemoveEntity"}, "policy")
  /\ RemovedPolicies(req[p])
  /\ Goto(p, "db")
  /\ UNCHANGED <<tables, domainPolicies, issued, split>>

\* repo.RemoveRoles cascades; the other deletes name their rows.
DeleteRows(p) ==
  /\ At(p, RemoveOps \ {"RemoveEntity"}, "db")
  /\ LET q == req[p]
     IN  IF q.op = "RemoveRole"
         THEN Cascade({q.role})
         ELSE /\ role_actions' = role_actions \ q.acts
              /\ role_members' = role_members \ q.mems
              /\ UNCHANGED roles
  /\ Finish(p)
  /\ UNCHANGED <<status, policies, issued, split>>

\* repo.UpdateRole: refused by UNIQUE (name, entity_id), or no such row.
RenameRow(p) ==
  /\ At(p, {"UpdateRoleName"}, "db")
  /\ LET q == req[p]
         free == /\ roles[q.role] # None
                 /\ \A r \in RolesOf(q.entity) \ {q.role} : roles[r] # q.name
     IN  roles' = IF free THEN [roles EXCEPT ![q.role] = q.name] ELSE roles
  /\ Finish(p)
  /\ UNCHANGED <<status, role_actions, role_members, policies, issued, split>>

-----------------------------------------------------------------------------
(* Steps of RemoveEntity. *)

\* ChangeStatus to deleted.
MarkDeleted(p) ==
  /\ At(p, {"RemoveEntity"}, "status")
  /\ IF status[req[p].entity] = "absent"
     THEN Finish(p) /\ UNCHANGED status
     ELSE /\ status' = [status EXCEPT ![req[p].entity] = "deleted"]
          /\ Goto(p, "readActions")
  /\ UNCHANGED <<roles, role_actions, role_members, policies, issued, split>>

\* RetrieveEntitiesRolesActionsMembers: two queries.
ReadActions(p) ==
  /\ At(p, {"RemoveEntity"}, "readActions")
  /\ req' = [req EXCEPT ![p].pc = "readMembers",
               ![p].acts = {x \in role_actions : EntityOf[x[1]] = req[p].entity}]
  /\ UNCHANGED <<tables, policies, issued, split>>

ReadMembers(p) ==
  /\ At(p, {"RemoveEntity"}, "readMembers")
  /\ req' = [req EXCEPT ![p].pc = "policy",
               ![p].mems = {x \in role_members : EntityOf[x[1]] = req[p].entity}]
  /\ UNCHANGED <<tables, policies, issued, split>>

\* RemoveEntitiesRoles deletes the tuples of the rows it read; DeletePolicies
\* refuses an empty list, which ends the handler.
RemoveEntitiesRoles(p) ==
  /\ At(p, {"RemoveEntity"}, "policy")
  /\ IF req[p].acts = {} /\ req[p].mems = {}
     THEN Finish(p) /\ UNCHANGED policies
     ELSE /\ actionPolicies' = actionPolicies \ req[p].acts
          /\ memberPolicies' = memberPolicies \ req[p].mems
          /\ Goto(p, "filter")
          /\ UNCHANGED domainPolicies
  /\ UNCHANGED <<tables, issued, split>>

\* DeletePolicyFilter on the entity as object: what is left of its tuples.
DeletePolicyFilter(p) ==
  /\ At(p, {"RemoveEntity"}, "filter")
  /\ actionPolicies' = {x \in actionPolicies : EntityOf[x[1]] # req[p].entity}
  /\ domainPolicies' = domainPolicies \ {req[p].entity}
  /\ Goto(p, "db")
  /\ UNCHANGED <<tables, memberPolicies, issued, split>>

\* repo.Delete of the entity row.
DeleteEntity(p) ==
  /\ At(p, {"RemoveEntity"}, "db")
  /\ status' = [status EXCEPT ![req[p].entity] = "absent"]
  /\ Cascade(RolesOf(req[p].entity))
  /\ Finish(p)
  /\ UNCHANGED <<policies, issued, split>>

-----------------------------------------------------------------------------
(* Failures. *)

\* Roles that stay split if the request ends where it is: an addition past its
\* first write, a removal past its first write.
HalfDone(p) ==
  IF \/ req[p].op \in AddOps /\ req[p].pc \in {"db", "undo"}
     \/ req[p].op \in RemoveOps /\ req[p].pc \in {"filter", "db"}
  THEN Touched(p) ELSE {}

\* The call the request is about to make returns an error and has no effect.
CallFails(p) ==
  /\ req[p] # Idle
  /\ LET q == req[p]
     IN  \/ /\ q.op \in AddOps /\ q.pc = "db"
            /\ IF q.acts = {} /\ q.mems = {} THEN Finish(p) ELSE Goto(p, "undo")
            /\ UNCHANGED split
         \/ /\ q.op = "CreateEntity" /\ q.pc \in {"policy", "undo"}
            /\ Goto(p, "unsave")
            /\ Split(HalfDone(p))
         \/ /\ ~(q.op \in AddOps /\ q.pc = "db")
            /\ ~(q.op = "CreateEntity" /\ q.pc \in {"policy", "undo"})
            /\ Finish(p)
            /\ Split(HalfDone(p))
  /\ UNCHANGED <<tables, policies, issued>>

\* The service stops, or the answer of the last call is lost: nothing of the
\* handler runs any more.
Crash(p) ==
  /\ req[p] # Idle
  /\ Finish(p)
  /\ Split(HalfDone(p))
  /\ UNCHANGED <<tables, policies, issued>>

-----------------------------------------------------------------------------
Start(p) ==
  \/ \E r \in RoleIDs, u \in Members : CreateEntity(p, r, u)
  \/ \E r \in RoleIDs, n \in Names, A \in SUBSET Actions, M \in SUBSET Members :
        AddRole(p, r, n, A, M)
  \/ \E r \in RoleIDs : \/ RemoveRole(p, r)
                        \/ RoleRemoveAllActions(p, r)
                        \/ RoleRemoveAllMembers(p, r)
  \/ \E r \in RoleIDs, n \in Names : UpdateRoleName(p, r, n)
  \/ \E r \in RoleIDs, A \in SUBSET Actions : \/ RoleAddActions(p, r, A)
                                              \/ RoleRemoveActions(p, r, A)
  \/ \E r \in RoleIDs, M \in SUBSET Members : \/ RoleAddMembers(p, r, M)
                                              \/ RoleRemoveMembers(p, r, M)
  \/ \E e \in Entities : RemoveEntity(p, e)

Step(p) ==
  \/ SaveEntity(p) \/ AddPolicies(p) \/ InsertRows(p) \/ Rollback(p) \/ UnsaveEntity(p)
  \/ DeletePolicies(p) \/ DeleteRows(p) \/ RenameRow(p)
  \/ MarkDeleted(p) \/ ReadActions(p) \/ ReadMembers(p)
  \/ RemoveEntitiesRoles(p) \/ DeletePolicyFilter(p) \/ DeleteEntity(p)

Next == \E p \in Requests : Start(p) \/ Step(p) \/ CallFails(p) \/ Crash(p)

Spec == Init /\ [][Next]_vars

-----------------------------------------------------------------------------
(* Properties. *)

Quiet(r) == \A p \in Requests : ~Touches(req[p], r)

RowsOf(T, r) == {x \in T : x[1] = r}

\* The list of actions and members the tables show for a role is exactly what
\* the policy store enforces for it, whenever no request on the role is in
\* flight, unless an addition and a removal overlapped on that role or one of
\* its second writes was lost.  Requests on different roles of one entity do
\* meet in the UNIQUE constraints, additions race additions and removals race
\* removals; none of these may split the stores.  A role without a row has no
\* action tuple, so it grants nothing.
StoresAgree ==
  \A r \in RoleIDs \ split :
    Quiet(r) => /\ RowsOf(actionPolicies, r) = RowsOf(role_actions, r)
                /\ roles[r] # None => RowsOf(memberPolicies, r) = RowsOf(role_members, r)

\* What the user may do to the entity according to a pair of stores.
Granted(A, M, e) ==
  {x \in Members \X Actions :
      \E r \in RolesOf(e) : <<r, x[1]>> \in M /\ <<r, x[2]>> \in A}

\* The decisions of the policy store on an entity are the ones its role tables
\* justify: the tuples RemoveRole leaves behind (user -> removed role) and the
\* ones a rollback removes change no decision.
DecisionsMatchRows ==
  \A e \in Entities :
    (\A r \in RolesOf(e) : r \notin split /\ Quiet(r)) =>
       Granted(actionPolicies, memberPolicies, e) = Granted(role_actions, role_members, e)

\* "Delete client removes a client with the given id from repo and removes all
\* the policies related to this client" (clients/README.md:235).  A removal that
\* reaches the policy store must then have something to delete there, for
\* DeletePolicies refuses an empty list, which ends the handler with the entity
\* marked deleted and its row and domain tuple still there.
RemovalNotRefused ==
  \A p \in Requests : At(p, {"RemoveEntity"}, "policy") => req[p].acts \cup req[p].mems # {}

\* Every call succeeds and no handler stops.
ReliableNext == \E p \in Requests : Start(p) \/ Step(p)
ReliableSpec == Init /\ [][ReliableNext]_vars

-----------------------------------------------------------------------------
(* The inductive strengthening of StoresAgree. *)

Creates(q) == q.op \in {"CreateEntity", "AddRole"}

\* Opposed requests on one role have made it a split role.
Apart ==
  \A p, q \in Requests : p # q =>
    \A r \in RoleIDs : Touches(req[p], r) /\ Touches(req[q], r)
                         /\ Opposed(req[p], req[q]) => r \in split

\* What the fields of a request in flight can be.
ShapeOf(q) ==
  IF q.op = "RemoveEntity"
  THEN /\ q.pc \in {"status", "readActions", "readMembers", "policy", "filter", "db"}
       /\ q.role = None
       /\ \A x \in q.acts : EntityOf[x[1]] = q.entity
       /\ \A x \in q.mems : EntityOf[x[1]] = q.entity
  ELSE /\ q.pc \in IF q.op \in RemoveOps THEN {"policy", "db"}
                    ELSE {"save", "policy", "db", "undo", "unsave"}
       /\ q.role \in RoleIDs
       /\ q.entity = EntityOf[q.role]
       /\ Creates(q) \/ q.op = "UpdateRoleName" => q.name \in Names
       /\ \A x \in q.acts : x[1] = q.role
       /\ \A x \in q.mems : x[1] = q.role
       /\ q.op \in {"RemoveRole", "RoleAddMembers", "RoleRemoveMembers",
                     "RoleRemoveAllMembers"} => q.acts = {}
       /\ q.op \in {"RemoveRole", "RoleAddActions", "RoleRemoveActions",
                     "RoleRemoveAllActions"} => q.mems = {}
       /\ q.op = "RoleRemoveAllActions" => q.acts = {q.role} \X Actions
       /\ q.op = "RoleRemoveAllMembers" => q.mems = {q.role} \X Members

Shape == \A p \in Requests : req[p] # Idle => ShapeOf(req[p])

\* Rows of the action and member tables belong to a role row.
ForeignKeys == /\ \A x \in role_actions : roles[x[1]] # None
               /\ \A x \in role_members : roles[x[1]] # None

\* A role ID is drawn once, and nothing mentions it before.
Fresh ==
  /\ \A r \in RoleIDs \ issued :
        /\ roles[r] = None
        /\ \A x \in actionPolicies \cup memberPolicies : x[1] # r
        /\ \A p \in Requests : req[p].role # r
  /\ \A p \in Requests : Creates(req[p]) =>
        /\ roles[req[p].role] = None
        /\ \A q \in Requests \ {p} : req[q].role # req[p].role
        /\ req[p].op = "CreateEntity" =>
              \A r \in RolesOf(req[p].entity) \ {req[p].role} : r \notin issued \/ r \in split

\* The role an addition retrieved is still there, unless a removal overlapped.
RowThere ==
  \A p \in Requests : req[p].op \in {"RoleAddActions", "RoleAddMembers"} =>
     roles[req[p].role] # None \/ req[p].role \in split

\* Tuples an addition in flight has written and not yet matched by rows.
AwaitsRows(q)  == q.op \in AddOps /\ q.pc \in {"db", "undo"}
PendingActs(q) == IF AwaitsRows(q) THEN q.acts ELSE {}
PendingMems(q) == IF AwaitsRows(q) THEN q.mems ELSE {}

\* A removal in flight has already deleted the tuple of row x.
DoomsEntity(q, x) ==
  /\ q.op = "RemoveEntity" /\ q.pc \in {"filter", "db"}
  /\ EntityOf[x[1]] = q.entity

DoomsAction(q, x) ==
  \/ DoomsEntity(q, x)
  \/ q.op \in RemoveOps \ {"RemoveEntity"} /\ q.pc = "db" /\ x \in q.acts
  \/ q.op = "RemoveRole" /\ q.pc = "db" /\ x[1] = q.role

DoomsMember(q, x) ==
  \/ DoomsEntity(q, x)
  \/ q.op \in RemoveOps \ {"RemoveEntity"} /\ q.pc = "db" /\ x \in q.mems

\* In every state the tuples of a whole role are its rows, less the rows
\* doomed by a removal in flight, plus the tuples of additions in flight.
ActionsMatch ==
  \A x \in RoleIDs \X Actions : x[1] \notin split =>
    (x \in actionPolicies <=>
       \/ x \in role_actions /\ \A p \in Requests : ~DoomsAction(req[p], x)
       \/ \E p \in Requests : x \in PendingActs(req[p]))

\* RemoveRole leaves the member tuples of the removed role behind.
HasMembers(r) ==
  roles[r] # None \/ r \notin issued \/ \E p \in Requests : Creates(req[p]) /\ req[p].role = r

MembersMatch ==
  \A x \in RoleIDs \X Members : x[1] \notin split /\ HasMembers(x[1]) =>
    (x \in memberPolicies <=>
       \/ x \in role_members /\ \A p \in Requests : ~DoomsMember(req[p], x)
       \/ \E p \in Requests : x \in PendingMems(req[p]))

\* A tuple is pending for one addition only, and its row is not there yet.
PendingApart ==
  \A p \in Requests :
    /\ \A x \in PendingActs(req[p]) : x[1] \notin split =>
          /\ x \notin role_actions
          /\ \A q \in Requests \ {p} : x \notin PendingActs(req[q])
    /\ \A x \in PendingMems(req[p]) : x[1] \notin split =>
          /\ x \notin role_members
          /\ \A q \in Requests \ {p} : x \notin PendingMems(req[q])

\* The rows a removal of the entity has read still cover the rows there are.
ReadsCover ==
  \A p \in Requests : req[p].op = "RemoveEntity" =>
    /\ req[p].pc \in {"readMembers", "policy"} =>
          \A x \in role_actions :
             EntityOf[x[1]] = req[p].entity /\ x[1] \notin split => x \in req[p].acts
    /\ req[p].pc = "policy" =>
          \A x \in role_members :
             EntityOf[x[1]] = req[p].entity /\ x[1] \notin split => x \in req[p].mems

IInv == /\ TypeOK /\ Apart /\ Shape /\ ForeignKeys /\ Fresh /\ RowThere
        /\ ActionsMatch /\ MembersMatch /\ PendingApart /\ ReadsCover
=============================================================================
