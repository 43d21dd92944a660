---------------------------- MODULE GroupTable ----------------------------
(***************************************************************************)
(* The tables of groups and of their roles (groups/postgres/groups.go) as  *)
(* one value, the events the groups service publishes about its own        *)
(* tables (groups/events) and what the consumer of these events makes of   *)
(* the tables of a replica (pkg/groups/events/consumer).  The clients and  *)
(* the channels service keep such a replica.                               *)
(*                                                                         *)
(* Tags are left out: the consumer does not decode them, and ignores the   *)
(* event that changes them.  So are events about reads.                    *)
(***************************************************************************)
EXTENDS Naturals, SequencesExt, GroupPaths, RoleTable

CONSTANTS Groups, Names, MaxPathLength, BuiltInRoleAdmin

NoRow == [name |-> None, status |-> None, parent |-> None, path |-> <<>>]

Tables == [rows : [Groups -> {NoRow} \cup [name : Names, status : {"enabled", "disabled"},
                                           parent : Groups \cup {None}, path : Seq(Groups)]],
           roles : RoleTables(Groups)]

HasRow(t, g) == t.rows[g] # NoRow

-----------------------------------------------------------------------------
(* The statements of the repository. *)

\* getInsertQuery reads the parent for its path.
Save(t, e) ==
  LET above == IF e.parent = None THEN <<>> ELSE t.rows[e.parent].path
  IN  When(/\ ~HasRow(t, e.id)
           /\ e.parent # None => HasRow(t, e.parent) /\ Len(above) + 1 <= MaxPathLength,
           [t EXCEPT !.rows[e.id] = [name |-> e.name, status |-> e.status, parent |-> e.parent,
                                     path |-> Append(above, e.id)]])

SaveRoles(t, e) ==
  {[t EXCEPT !.roles = T] : T \in IF HasRow(t, e.id) THEN AddRoles(t.roles, e.rp) ELSE {}}

Update(t, g, n) == When(t.rows[g].status = "enabled", [t EXCEPT !.rows[g].name = n])

ChangeStatus(t, g, s) == When(HasRow(t, g), [t EXCEPT !.rows[g].status = s])

\* Children keep their path, ON DELETE SET NULL takes their parent.
Delete(t, g) ==
  When(HasRow(t, g),
       [rows |-> [c \in Groups |-> IF c = g THEN NoRow
                                   ELSE IF t.rows[c].parent = g THEN [t.rows[c] EXCEPT !.parent = None]
                                   ELSE t.rows[c]],
        roles |-> DropRoles(t.roles, g)])

\* WHERE path <@ ANY(paths of C).
Below(t, C) == {d \in Groups : \E c \in C : HasRow(t, c) /\ IsPrefix(t.rows[c].path, t.rows[d].path)}

AssignParentGroup(t, h, C) ==
  LET kids == {c \in C : HasRow(t, c)}
  IN  When(/\ HasRow(t, h)
           /\ Last(t.rows[h].path) = h
           /\ C \cap ToSet(t.rows[h].path) = {},
           [t EXCEPT !.rows = [g \in Groups |->
              [@[g] EXCEPT !.parent = IF g \in kids THEN h ELSE @,
                           !.path = IF g \in Below(t, kids) THEN t.rows[h].path \o @ ELSE @]]])

UnassignParentGroup(t, h, C) ==
  LET kids == {c \in C : h # None /\ t.rows[c].parent = h}
  IN  When(h # None /\ HasRow(t, h),
           [t EXCEPT !.rows = [g \in Groups |->
              [@[g] EXCEPT !.parent = IF g \in kids THEN None ELSE @,
                           !.path = IF g \in Below(t, kids) THEN Strip(@, t.rows[h].path) ELSE @]]])

Children(t, h) == {c \in Groups : HasRow(t, c) /\ t.rows[c].parent = h}

\* Paths are left as they are; no children is the error ErrNotFound.
UnassignAllChildrenGroups(t, h) ==
  When(Children(t, h) # {},
       [t EXCEPT !.rows = [g \in Groups |-> IF g \in Children(t, h)
                                            THEN [@[g] EXCEPT !.parent = None] ELSE @[g]]])

-----------------------------------------------------------------------------
(* The groups service.  What its handlers write in the tables is one step  *)
(* here, for GroupHierarchy is about their interleavings.                  *)

ParentEvents ==
  {[op |-> "add_parent", id |-> g, parent |-> h] : g, h \in Groups}
  \cup {[op |-> "remove_parent", id |-> g] : g \in Groups}
  \cup {[op |-> o, id |-> h, kids |-> C] :
          o \in {"add_children", "remove_children"}, h \in Groups, C \in SUBSET Groups \ {{}}}
  \cup {[op |-> "remove_all_children", id |-> h] : h \in Groups}

RowEvents(t) ==
  UNION {{[op |-> "update", id |-> g, name |-> n] : n \in Names \ {t.rows[g].name}} : g \in Groups}
  \cup {[op |-> "status", id |-> g, status |-> s] : g \in Groups, s \in {"enabled", "disabled"}}
  \cup {[op |-> "remove", id |-> g] : g \in Groups}

\* A new group comes with its built-in role, whose member is its creator.
CreateEvents(t) ==
  {[op |-> "create", id |-> g, parent |-> h, name |-> n, status |-> "enabled",
    rp |-> Provision(r, g, BuiltInRoleAdmin, Actions, {m})] :
      g \in {g \in Groups : ~HasRow(t, g)}, h \in Groups \cup {None}, n \in Names,
      r \in {r \in RoleIDs : t.roles[r] = NoRole}, m \in Members}

\* Fresh IDs an operation draws, and IDs in the tables.
Creates(e) == IF e.op = "create" THEN {e.id, e.rp.id} ELSE IF e.op = "role.add" THEN {e.rp.id} ELSE {}
IDs(t) == {g \in Groups : HasRow(t, g)} \cup {r \in RoleIDs : t.roles[r] # NoRole}

Events(t) == CreateEvents(t) \cup RowEvents(t) \cup ParentEvents
             \cup UNION {RoleEvents(t.roles, g) : g \in {g \in Groups : HasRow(t, g)}}

Enabled(t, C) == {g \in C : t.rows[g].status = "enabled"}

\* The checks of the handlers, which read the table first.
Accepts(t, e) ==
  CASE e.op = "status"          -> HasRow(t, e.id) /\ t.rows[e.id].status # e.status
    [] e.op = "add_parent"      -> HasRow(t, e.id) /\ t.rows[e.id].parent = None /\ e.id # e.parent
    [] e.op = "remove_parent"   -> HasRow(t, e.id)
    [] e.op = "add_children"    -> /\ e.id \notin e.kids
                                   /\ Enabled(t, e.kids) # {}
                                   /\ \A g \in Enabled(t, e.kids) : t.rows[g].parent = None
    [] e.op = "remove_children" -> /\ Enabled(t, e.kids) # {}
                                   /\ \A g \in Enabled(t, e.kids) : t.rows[g].parent \in {None, e.id}
    [] OTHER -> TRUE

RowWrite(t, e) ==
  CASE e.op = "update"          -> Update(t, e.id, e.name)
    [] e.op = "status"          -> ChangeStatus(t, e.id, e.status)
    [] e.op = "remove"          -> Delete(t, e.id)
    [] e.op = "add_parent"      -> AssignParentGroup(t, e.parent, {e.id})
    [] e.op = "add_children"    -> AssignParentGroup(t, e.id, e.kids)
    [] e.op = "remove_children" -> UnassignParentGroup(t, e.id, e.kids)

\* The tables after the operation that publishes e; none if it fails.
\* RemoveParentGroup of a group without a parent succeeds and changes nothing.
Commit(t, e) ==
  IF ~Accepts(t, e) THEN {}
  ELSE CASE e.op = "create" -> UNION {SaveRoles(u, e) : u \in Save(t, e)}
         [] e.op = "remove_parent" -> IF t.rows[e.id].parent = None THEN {t}
                                      ELSE UnassignParentGroup(t, t.rows[e.id].parent, {e.id})
         [] e.op = "remove_all_children" -> UnassignAllChildrenGroups(t, e.id)
         [] e.op \in RoleOps -> {[t EXCEPT !.roles = T] : T \in RoleWrite(t.roles, e)}
         [] OTHER -> RowWrite(t, e)

-----------------------------------------------------------------------------
(* The consumer. *)

\* createGroupHandler writes twice.
TwoWrites(e) == e.op = "create"
SecondWrite(t, e) == SaveRoles(t, e)

updateGroupHandler(t, e)         == Update(t, e.id, e.name)

\* Mutant: whichever the operation, the group is disabled.
changeStatusGroupHandlerDisables(t, e) == ChangeStatus(t, e.id, "disabled")

changeStatusGroupHandler(t, e)   == ChangeStatus(t, e.id, e.status)
removeGroupHandler(t, e)         == Delete(t, e.id)
addParentGroupHandler(t, e)      == AssignParentGroup(t, e.parent, {e.id})
addChildrenGroupsHandler(t, e)   == AssignParentGroup(t, e.id, e.kids)
removeChildrenGroupsHandler(t, e) == UnassignParentGroup(t, e.id, e.kids)

\* The replica is asked for the parent.
removeParentGroupHandler(t, e) == UnassignParentGroup(t, t.rows[e.id].parent, {e.id})

\* ErrNotFound is no error: the children are gone already.
removeAllChildrenGroupsHandler(t, e) ==
  IF Children(t, e.id) = {} THEN {t} ELSE UnassignAllChildrenGroups(t, e.id)

Handle(t, e) ==
  CASE e.op = "create"              -> Save(t, e)
    [] e.op = "update"              -> updateGroupHandler(t, e)
    [] e.op = "status"              -> changeStatusGroupHandler(t, e)
    [] e.op = "remove"              -> removeGroupHandler(t, e)
    [] e.op = "add_parent"          -> addParentGroupHandler(t, e)
    [] e.op = "remove_parent"       -> removeParentGroupHandler(t, e)
    [] e.op = "add_children"        -> addChildrenGroupsHandler(t, e)
    [] e.op = "remove_children"     -> removeChildrenGroupsHandler(t, e)
    [] e.op = "remove_all_children" -> removeAllChildrenGroupsHandler(t, e)
    [] e.op \in RoleOps -> {[t EXCEPT !.roles = T] : T \in RoleHandle(t.roles, e, HasRow(t, e.id))}

\* Groups an operation names, writes, or takes from a parent: two operations
\* may be reordered when they have none in common.
Touched(t, u, e) ==
  LET changed == {g \in Groups : t.rows[g] # u.rows[g]}
  IN  ({e.id} \cup (IF e.op \in {"create", "add_parent"} THEN {e.parent} ELSE {})
         \cup (IF e.op \in {"add_children", "remove_children"} THEN e.kids ELSE {})
         \cup changed \cup {t.rows[g].parent : g \in changed}) \ {None}

\* Events that change the replica again when they are delivered again.
Accumulates(e) == e.op \in {"add_parent", "add_children"}

\* The event of RemoveParentGroup is published for a group without a parent too.
Vacuous(e) == e.op = "remove_parent"
=============================================================================
