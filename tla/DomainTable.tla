---------------------------- MODULE DomainTable ----------------------------
(***************************************************************************)
(* The tables of domains and of their roles (domains/postgres/domains.go)  *)
(* as one value, the events the domains service publishes about its own    *)
(* tables (domains/events) and what the consumer of these events makes of  *)
(* a replica (pkg/domains/events/consumer).  The clients, channels and     *)
(* groups services keep such a replica.                                    *)
(*                                                                         *)
(* Nothing publishes the events domain.delete and domain.user_delete.      *)
(***************************************************************************)
EXTENDS Naturals, RoleTable

CONSTANTS Domains, Names, Routes, BuiltInRoleAdmin

NoRow == [name |-> None, status |-> None, route |-> None]

Status == {"enabled", "disabled", "freezed"}

Tables == [rows : [Domains -> {NoRow} \cup [name : Names, status : Status, route : Routes]],
           roles : RoleTables(Domains)]

HasRow(t, d) == t.rows[d] # NoRow

\* Routes are unique.
Save(t, e) ==
  When(/\ ~HasRow(t, e.id)
       /\ \A d \in Domains : t.rows[d].route # e.route,
       [t EXCEPT !.rows[e.id] = [name |-> e.name, status |-> e.status, route |-> e.route]])

SaveRoles(t, e) ==
  {[t EXCEPT !.roles = T] : T \in IF HasRow(t, e.id) THEN AddRoles(t.roles, e.rp) ELSE {}}

\* Mutant: columns that are not in the request are cleared.
UpdateDomainClears(t, d, n, s) ==
  When(HasRow(t, d), [t EXCEPT !.rows[d].name = n, !.rows[d].status = s])

\* Columns that are not in the request stay.
UpdateDomain(t, d, n, s) ==
  When(HasRow(t, d), [t EXCEPT !.rows[d].name = IF n = None THEN @ ELSE n,
                               !.rows[d].status = IF s = None THEN @ ELSE s])

-----------------------------------------------------------------------------
(* The domains service. *)

\* A domain is created enabled or disabled.
Events(t) ==
  {[op |-> "create", id |-> d, name |-> n, status |-> s, route |-> x,
    rp |-> Provision(r, d, BuiltInRoleAdmin, Actions, {m})] :
      d \in {d \in Domains : ~HasRow(t, d)}, n \in Names, s \in Status \ {"freezed"}, x \in Routes,
      r \in {r \in RoleIDs : t.roles[r] = NoRole}, m \in Members}
  \cup UNION {{[op |-> "update", id |-> d, name |-> n] : n \in Names \ {t.rows[d].name}} :
                d \in Domains}
  \cup {[op |-> "status", id |-> d, status |-> s] : d \in Domains, s \in Status}
  \cup UNION {RoleEvents(t.roles, d) : d \in {d \in Domains : HasRow(t, d)}}

Creates(e) == IF e.op = "create" THEN {e.id, e.rp.id} ELSE IF e.op = "role.add" THEN {e.rp.id} ELSE {}
IDs(t) == {d \in Domains : HasRow(t, d)} \cup {r \in RoleIDs : t.roles[r] # NoRole}

\* UpdateDomain; EnableDomain, DisableDomain and FreezeDomain.
RowWrite(t, e) == IF e.op = "update" THEN UpdateDomain(t, e.id, e.name, None)
                  ELSE UpdateDomain(t, e.id, None, e.status)

\* A built-in role keeps a member.
Accepts(t, e) ==
  e.op \in {"role.members.remove", "role.members.remove_all"} =>
    LET ro == t.roles[e.rp.id]
    IN  ro.name = BuiltInRoleAdmin => /\ e.op = "role.members.remove"
                                      /\ Cardinality(ro.members) > Cardinality(e.rp.members)

Commit(t, e) ==
  IF ~Accepts(t, e) THEN {}
  ELSE CASE e.op = "create" -> UNION {SaveRoles(u, e) : u \in Save(t, e)}
         [] e.op \in RoleOps -> {[t EXCEPT !.roles = T] : T \in RoleWrite(t.roles, e)}
         [] OTHER -> RowWrite(t, e)

-----------------------------------------------------------------------------
(* The consumer. *)

\* createDomainHandler writes twice.
TwoWrites(e) == e.op = "create"
SecondWrite(t, e) == SaveRoles(t, e)

\* Mutant: the update is applied to enabled domains only, as for groups.
updateDomainHandlerEnabled(t, e) ==
  IF t.rows[e.id].status = "enabled" THEN UpdateDomain(t, e.id, e.name, None) ELSE {}

updateDomainHandler(t, e) == UpdateDomain(t, e.id, e.name, None)

\* enableDomainHandler, disableDomainHandler and freezeDomainHandler.
statusDomainHandler(t, e) == UpdateDomain(t, e.id, None, e.status)

Handle(t, e) ==
  CASE e.op = "create"    -> Save(t, e)
    [] e.op = "update"    -> updateDomainHandler(t, e)
    [] e.op = "status"    -> statusDomainHandler(t, e)
    [] e.op \in RoleOps -> {[t EXCEPT !.roles = T] : T \in RoleHandle(t.roles, e, HasRow(t, e.id))}

\* Operations on different domains may be reordered, and no event does more when
\* it is delivered again.
Touched(t, u, e) == {e.id}
Accumulates(e) == FALSE
Vacuous(e) == FALSE
=============================================================================
