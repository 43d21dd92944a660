----------------------------- MODULE RoleTable -----------------------------
(***************************************************************************)
(* The tables of roles, role actions and role members                      *)
(* (pkg/roles/repo/postgres) as one value: the service that owns an entity *)
(* and the services that keep a replica of it run the same code on theirs. *)
(*                                                                         *)
(* A statement yields the set of the values it may leave behind: one value *)
(* when it succeeds, none when it returns an error.                        *)
(***************************************************************************)
EXTENDS FiniteSets

CONSTANTS RoleIDs, RoleNames, Actions, Members, None

NoRole == [entity |-> None, name |-> None, actions |-> {}, members |-> {}]

RoleTables(Entities) ==
  [RoleIDs -> {NoRole} \cup [entity : Entities, name : RoleNames,
                             actions : SUBSET Actions, members : SUBSET Members]]

When(b, x) == IF b THEN {x} ELSE {}

Provision(r, g, n, A, M) == [id |-> r, entity |-> g, name |-> n, actions |-> A, members |-> M]

\* Members of the entity in any role but r: UNIQUE (member_id, entity_id).
Elsewhere(T, r, g) == UNION {T[s].members : s \in {s \in RoleIDs \ {r} : T[s].entity = g}}

\* One transaction; the caller knows whether the entity has a row.
AddRoles(T, rp) ==
  When(/\ T[rp.id] = NoRole
       /\ \A s \in RoleIDs : ~(T[s].entity = rp.entity /\ T[s].name = rp.name)
       /\ rp.members \cap Elsewhere(T, rp.id, rp.entity) = {},
       [T EXCEPT ![rp.id] = [entity |-> rp.entity, name |-> rp.name,
                             actions |-> rp.actions, members |-> rp.members]])

RemoveRoles(T, r) == When(T[r] # NoRole, [T EXCEPT ![r] = NoRole])

UpdateRole(T, r, n) ==
  When(/\ T[r] # NoRole
       /\ \A s \in RoleIDs \ {r} : ~(T[s].entity = T[r].entity /\ T[s].name = n),
       [T EXCEPT ![r].name = n])

\* An action or a member that is there already is a conflict.
RoleAddActions(T, r, A) ==
  When(T[r] # NoRole /\ A \cap T[r].actions = {}, [T EXCEPT ![r].actions = @ \cup A])

RoleAddMembers(T, r, g, M) ==
  When(/\ T[r] # NoRole
       /\ M \cap (T[r].members \cup Elsewhere(T, r, g)) = {},
       [T EXCEPT ![r].members = @ \cup M])

\* Nothing to delete is no error.
RoleRemoveActions(T, r, A) == {[T EXCEPT ![r].actions = @ \ A]}
RoleRemoveAllActions(T, r) == {[T EXCEPT ![r].actions = {}]}
RoleRemoveMembers(T, r, M) == {[T EXCEPT ![r].members = @ \ M]}
RoleRemoveAllMembers(T, r) == {[T EXCEPT ![r].members = {}]}

\* ON DELETE CASCADE.
DropRoles(T, g) == [r \in RoleIDs |-> IF T[r].entity = g THEN NoRole ELSE T[r]]

-----------------------------------------------------------------------------
(* The events of the role manager and what the consumer makes of them. *)

RoleOps == {"role.add", "role.remove", "role.update", "role.actions.add", "role.actions.remove",
            "role.actions.remove_all", "role.members.add", "role.members.remove",
            "role.members.remove_all"}

RoleEvent(op, r, g, n, A, M) == [op |-> op, id |-> g, rp |-> Provision(r, g, n, A, M)]

RolesOf(T, g) == {r \in RoleIDs : T[r].entity = g}

\* What the role manager publishes about entity g when the table was T: AddRole,
\* RemoveRole, UpdateRoleName; the actions of a role; its members.  The events of
\* its reads are nothing to the consumer.
RoleRowEvents(T, g) ==
  {RoleEvent("role.add", r, g, n, Actions, {m}) :
     r \in {r \in RoleIDs : T[r] = NoRole}, n \in RoleNames, m \in Members}
  \cup {RoleEvent("role.update", r, g, n, {}, {}) :
          r \in RolesOf(T, g), n \in RoleNames \ {T[r].name : r \in RolesOf(T, g)}}
  \cup {RoleEvent("role.remove", r, g, None, {}, {}) : r \in RolesOf(T, g)}

RoleActionEvents(T, g) ==
  {RoleEvent(op, r, g, None, {a}, {}) :
     op \in {"role.actions.add", "role.actions.remove"}, r \in RolesOf(T, g), a \in Actions}
  \cup {RoleEvent("role.actions.remove_all", r, g, None, {}, {}) : r \in RolesOf(T, g)}

RoleMemberEvents(T, g) ==
  {RoleEvent(op, r, g, None, {}, {m}) :
     op \in {"role.members.add", "role.members.remove"}, r \in RolesOf(T, g), m \in Members}
  \cup {RoleEvent("role.members.remove_all", r, g, None, {}, {}) : r \in RolesOf(T, g)}

RoleEvents(T, g) == RoleRowEvents(T, g) \cup RoleActionEvents(T, g) \cup RoleMemberEvents(T, g)

\* The write of the role manager before it publishes.
RoleWrite(T, e) ==
  CASE e.op = "role.add"                -> AddRoles(T, e.rp)
    [] e.op = "role.remove"             -> RemoveRoles(T, e.rp.id)
    [] e.op = "role.update"             -> UpdateRole(T, e.rp.id, e.rp.name)
    [] e.op = "role.actions.add"        -> RoleAddActions(T, e.rp.id, e.rp.actions)
    [] e.op = "role.actions.remove"     -> RoleRemoveActions(T, e.rp.id, e.rp.actions)
    [] e.op = "role.actions.remove_all" -> RoleRemoveAllActions(T, e.rp.id)
    [] e.op = "role.members.add"        -> RoleAddMembers(T, e.rp.id, e.id, e.rp.members)
    [] e.op = "role.members.remove"     -> RoleRemoveMembers(T, e.rp.id, e.rp.members)
    [] e.op = "role.members.remove_all" -> RoleRemoveAllMembers(T, e.rp.id)

\* A conflict is taken for an event handled before; an unknown entity is an error.
AddEntityRoleHandler(T, e, known) ==
  IF ~known THEN {} ELSE IF AddRoles(T, e.rp) = {} THEN {T} ELSE AddRoles(T, e.rp)

UpdateEntityRoleHandler(T, e)               == UpdateRole(T, e.rp.id, e.rp.name)
RemoveEntityRoleHandler(T, e)               == RemoveRoles(T, e.rp.id)
AddEntityRoleActionsHandler(T, e)           == RoleAddActions(T, e.rp.id, e.rp.actions)
RemoveEntityRoleActionsHandler(T, e)        == RoleRemoveActions(T, e.rp.id, e.rp.actions)
RemoveAllEntityRoleActionsHandler(T, e)     == RoleRemoveAllActions(T, e.rp.id)
AddEntityRoleMembersHandler(T, e)           == RoleAddMembers(T, e.rp.id, e.id, e.rp.members)
RemoveEntityRoleMembersHandler(T, e)        == RoleRemoveMembers(T, e.rp.id, e.rp.members)
RemoveAllMembersFromEntityRoleHandler(T, e) == RoleRemoveAllMembers(T, e.rp.id)

\* Handle: known says that the entity has a row.
RoleHandle(T, e, known) ==
  CASE e.op = "role.add"                -> AddEntityRoleHandler(T, e, known)
    [] e.op = "role.remove"             -> RemoveEntityRoleHandler(T, e)
    [] e.op = "role.update"             -> UpdateEntityRoleHandler(T, e)
    [] e.op = "role.actions.add"        -> AddEntityRoleActionsHandler(T, e)
    [] e.op = "role.actions.remove"     -> RemoveEntityRoleActionsHandler(T, e)
    [] e.op = "role.actions.remove_all" -> RemoveAllEntityRoleActionsHandler(T, e)
    [] e.op = "role.members.add"        -> AddEntityRoleMembersHandler(T, e)
    [] e.op = "role.members.remove"     -> RemoveEntityRoleMembersHandler(T, e)
    [] e.op = "role.members.remove_all" -> RemoveAllMembersFromEntityRoleHandler(T, e)
=============================================================================
