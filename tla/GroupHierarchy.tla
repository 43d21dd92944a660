--------------------------- MODULE GroupHierarchy ---------------------------
(***************************************************************************)
(* The tree of groups of one domain (groups/service.go and                 *)
(* groups/postgres/groups.go).  A group's place in the tree is kept three  *)
(* times: in the column parent_id, in the LTREE column path, and in the    *)
(* parent_group tuples of the policy store, which decide who inherits      *)
(* access.  Handlers interleave between their calls, calls fail, handlers  *)
(* stop.                                                                   *)
(*                                                                         *)
(* The two UPDATEs and the COMMIT that end a transaction are one step: the *)
(* first one locks the rows of the children until the commit.  The SELECT  *)
(* that begins it is a step of its own, for nothing is locked by it.       *)
(***************************************************************************)
EXTENDS Naturals, FiniteSets, SequencesExt, GroupPaths

CONSTANTS Groups,         \* group IDs the ID provider can hand out
          Requests,       \* handlers that can be in flight
          MaxPathLength,  \* groups.MaxPathLength
          None            \* no parent

ASSUME HierarchyAssumption == /\ None \notin Groups
                              /\ MaxPathLength \in Nat \ {0}

VARIABLES parent,   \* column parent_id
          path,     \* column path, <<>> when there is no row
          enabled,  \* groups whose column status says enabled
          links,    \* tuples parent -> parent_group -> child
          members,  \* groups with a tuple domain -> domain -> group
          drawn,    \* group IDs handed out so far
          req,      \* the handlers in flight
          split,    \* links on which row and tuple may have been split
          clean     \* paths never lost track of the parents
                    \* (the last two are history, see Split and Tidy)

rows == <<parent, path, enabled>>
vars == <<parent, path, enabled, links, members, drawn, req, split, clean>>

Links == Groups \X Groups

AddOps    == {"CreateGroup", "AddParentGroup", "AddChildrenGroups"}
RemoveOps == {"RemoveParentGroup", "RemoveChildrenGroups", "RemoveAllChildrenGroups",
              "DeleteGroup"}
\* Operations whose second write is AssignParentGroup, UnassignParentGroup.
AssignOps   == {"AddParentGroup", "AddChildrenGroups"}
UnassignOps == {"RemoveParentGroup", "RemoveChildrenGroups"}

Idle == [op |-> "idle", pc |-> "done", group |-> None, kids |-> {}, pols |-> {}, path |-> <<>>]

RequestType ==
  [op : AddOps \cup RemoveOps, 
   pc : {"read", "save", "policy", "subject", "object", "write", "roles", "undo", "unsave"},
   group : Groups \cup {None}, kids : SUBSET Groups, pols : SUBSET Links, path : Seq(Groups)]

TypeOK ==
  /\ parent \in [Groups -> Groups \cup {None}]
  /\ path \in [Groups -> Seq(Groups)]
  /\ enabled \subseteq {g \in Groups : path[g] # <<>>}
  /\ links \subseteq Links
  /\ members \subseteq Groups
  /\ drawn \subseteq Groups
  /\ req \in [Requests -> RequestType \cup {Idle}]
  /\ split \subseteq Links
  /\ clean \in BOOLEAN

Init ==
  /\ parent = [g \in Groups |-> None]
  /\ path = [g \in Groups |-> <<>>]
  /\ enabled = {} /\ links = {} /\ members = {} /\ drawn = {} /\ split = {}
  /\ req = [p \in Requests |-> Idle]
  /\ clean = TRUE

-----------------------------------------------------------------------------
Exists(g) == path[g] # <<>>

\* The links a request may write: its own, or all links of a group whose row
\* it may delete, or of a parent it empties.
Touched(q) ==
  CASE q.op = "CreateGroup" -> (q.kids \X Groups) \cup (Groups \X q.kids)
    [] q.op = "DeleteGroup" -> ({q.group} \X Groups) \cup (Groups \X {q.group})
    [] q.op = "RemoveAllChildrenGroups" -> {q.group} \X Groups
    [] OTHER -> {q.group} \X q.kids

Opposed(q, s) == \/ q.op \in AddOps /\ s.op \in RemoveOps
                 \/ q.op \in RemoveOps /\ s.op \in AddOps
                 \/ "CreateGroup" \in {q.op, s.op}

Overlapped(p, q) ==
  {l \in Touched(q) : \E o \in Requests \ {p} : l \in Touched(req[o]) /\ Opposed(req[o], q)}

\* Row and tuple of a link may differ for good only after an addition (or the
\* compensation of a removal) and a removal overlapped on it, a second write or
\* a compensation was lost, a compensation added a tuple it never removed, or a
\* write went beyond the groups tuples were listed for.
Split(S) == split' = split \cup S

Alone(p) == \A o \in Requests \ {p} : req[o] = Idle

\* Paths follow parents as long as changes of the tree do not overlap and no
\* group loses its children other than one by one.
Tidy(b) == clean' = (clean /\ b)

Begin(p, q) == /\ req[p] = Idle
               /\ req' = [req EXCEPT ![p] = q]
               /\ Split(Overlapped(p, q))
               /\ Tidy(Alone(p))

Goto(p, pc)  == req' = [req EXCEPT ![p].pc = pc]
Finish(p)    == req' = [req EXCEPT ![p] = Idle]
At(p, O, pc) == req[p].op \in O /\ req[p].pc = pc

Request(op, pc, g, C, L) ==
  [op |-> op, pc |-> pc, group |-> g, kids |-> C, pols |-> L, path |-> <<>>]

-----------------------------------------------------------------------------
(* The operations: the reads and checks each one starts with. *)

\* CreateGroup(g, parent): a fresh ID; a parent's path is read first.
CreateGroup(p, g, h) ==
  /\ g \notin drawn
  /\ drawn' = drawn \cup {g}
  /\ Begin(p, Request("CreateGroup", IF h = None THEN "save" ELSE "read", h, {g},
                      IF h = None THEN {} ELSE {<<h, g>>}))
  /\ UNCHANGED <<rows, links, members>>

AddParentGroup(p, g, h) ==
  /\ g # h  \* the API refuses it
  /\ Exists(g) /\ parent[g] = None
  /\ Begin(p, Request("AddParentGroup", "policy", h, {g}, {<<h, g>>}))
  /\ UNCHANGED <<rows, links, members, drawn>>

\* A group without a parent is left alone.
RemoveParentGroup(p, g) ==
  /\ Exists(g) /\ parent[g] # None
  /\ Begin(p, Request("RemoveParentGroup", "policy", parent[g], {g}, {<<parent[g], g>>}))
  /\ UNCHANGED <<rows, links, members, drawn>>

\* RetrieveByIDs: a zero PageMeta asks for enabled groups only.  There must be one.
Retrieved(C) == C \cap enabled

AddChildrenGroups(p, h, C) ==
  /\ h \notin C  \* the API refuses it
  /\ Retrieved(C) # {}
  /\ \A g \in Retrieved(C) : parent[g] = None
  /\ Begin(p, Request("AddChildrenGroups", "policy", h, C, {h} \X Retrieved(C)))
  /\ UNCHANGED <<rows, links, members, drawn>>

RemoveChildrenGroups(p, h, C) ==
  /\ Retrieved(C) # {}
  /\ \A g \in Retrieved(C) : parent[g] \in {None, h}
  /\ Begin(p, Request("RemoveChildrenGroups", "policy", h, C, {h} \X Retrieved(C)))
  /\ UNCHANGED <<rows, links, members, drawn>>

RemoveAllChildrenGroups(p, h) ==
  /\ Begin(p, Request("RemoveAllChildrenGroups", "policy", h, {}, {}))
  /\ UNCHANGED <<rows, links, members, drawn>>

\* DeleteGroup marks the row first, which must exist and tells the parent.
\* RemoveEntitiesRoles deletes the tuple of the parent, if there is one, and
\* then by two filters whatever has the group as its subject or as its object.
DeleteGroup(p, g) ==
  /\ Exists(g)
  /\ Begin(p, Request("DeleteGroup", IF parent[g] = None THEN "subject" ELSE "policy", g, {},
                      IF parent[g] = None THEN {} ELSE {<<parent[g], g>>}))
  /\ enabled' = enabled \ {g}
  /\ UNCHANGED <<parent, path, links, members, drawn>>

\* EnableGroup and DisableGroup.  Their write does not depend on what they read.
ChangeStatus(g) ==
  /\ Exists(g)
  /\ enabled' = IF g \in enabled THEN enabled \ {g} ELSE enabled \cup {g}
  /\ UNCHANGED <<parent, path, links, members, drawn, req, split, clean>>

-----------------------------------------------------------------------------
(* Steps on the policy store. *)

\* Mutant: the child is not checked for a parent.
AddableAnyParent(q) ==
  /\ \A l \in q.pols : l[1] \in members /\ (q.op # "CreateGroup" => l[2] \in members)
  /\ q.op = "CreateGroup" => q.kids \cap members = {}

\* groupPreConditions and OPERATION_CREATE: both groups belong to the domain
\* (a new child must not yet) and the child has no parent tuple.
Addable(q) ==
  /\ \A l \in q.pols : /\ l[1] \in members
                       /\ \A h \in Groups : <<h, l[2]>> \notin links
                       /\ q.op # "CreateGroup" => l[2] \in members
  /\ q.op = "CreateGroup" => q.kids \cap members = {}

\* Mutant: the tuple of the domain is written for the parent.
NewMembersParent(q) == IF q.op = "CreateGroup" THEN {q.group} ELSE {}

\* CreateGroup adds the tuple of the domain for the new group.
NewMembers(q) == IF q.op = "CreateGroup" THEN q.kids ELSE {}

AddPolicies(p) ==
  /\ At(p, AddOps, "policy")
  /\ LET q == req[p]
     IN  \/ /\ Addable(q)
            /\ links' = links \cup q.pols
            /\ members' = members \cup NewMembers(q)
            /\ Goto(p, IF q.op = "CreateGroup" THEN "roles" ELSE "read")
         \/ /\ ~Addable(q)
            /\ IF q.op = "CreateGroup" THEN Goto(p, "unsave") ELSE Finish(p)
            /\ UNCHANGED <<links, members>>
  /\ UNCHANGED <<rows, drawn, split, clean>>

\* DeletePolicies of a list; that of DeleteGroup has the tuple of the domain too.
DeletePolicies(p) ==
  /\ At(p, UnassignOps \cup {"DeleteGroup"}, "policy")
  /\ links' = links \ req[p].pols
  /\ members' = IF req[p].op = "DeleteGroup" THEN members \ {req[p].group} ELSE members
  /\ Goto(p, IF req[p].op = "DeleteGroup" THEN "subject" ELSE "read")
  /\ UNCHANGED <<rows, drawn, split, clean>>

\* DeletePolicyFilter on the group as subject, the parent of its children.
DeleteSubjectPolicies(p) ==
  /\ At(p, {"RemoveAllChildrenGroups"}, "policy") \/ At(p, {"DeleteGroup"}, "subject")
  /\ links' = links \ ({req[p].group} \X Groups)
  /\ Goto(p, IF req[p].op = "DeleteGroup" THEN "object" ELSE "write")
  /\ UNCHANGED <<rows, members, drawn, split, clean>>

\* And on the group as object, the child of its parent and of the domain.
DeleteObjectPolicies(p) ==
  /\ At(p, {"DeleteGroup"}, "object")
  /\ links' = links \ (Groups \X {req[p].group})
  /\ members' = members \ {req[p].group}
  /\ Goto(p, "write")
  /\ UNCHANGED <<rows, drawn, split, clean>>

\* Mutant: the compensation of AddParentGroup does not run.
UndoAddForgotten(p) ==
  /\ At(p, AddOps, "undo")
  /\ IF req[p].op = "CreateGroup" THEN Goto(p, "unsave") ELSE Finish(p)
  /\ UNCHANGED <<rows, links, members, drawn, split, clean>>

\* Deferred compensations.  CreateGroup goes on to take its row back.
UndoAdd(p) ==
  /\ At(p, AddOps, "undo")
  /\ LET q == req[p]
     IN  /\ links' = links \ q.pols
         /\ members' = members \ NewMembers(q)
         /\ IF q.op = "CreateGroup" THEN Goto(p, "unsave") ELSE Finish(p)
  /\ UNCHANGED <<rows, drawn, split, clean>>

\* AddPolicies of all tuples in the list, also those that were not there:
\* RemoveChildrenGroups lists groups without a parent too.  Putting a tuple back
\* is an addition to any other removal of it in flight.
UndoRemove(p) ==
  /\ At(p, UnassignOps, "undo")
  /\ LET q == req[p]
         astray == {l \in q.pols : \/ parent[l[2]] # l[1]
                                   \/ \E o \in Requests \ {p} : l \in Touched(req[o])}
     IN  IF Addable(q)
         THEN links' = links \cup q.pols /\ Split(astray)
         ELSE UNCHANGED links /\ Split(q.pols)
  /\ Finish(p)
  /\ UNCHANGED <<rows, members, drawn, clean>>

-----------------------------------------------------------------------------
(* Steps on the table of groups. *)

\* The SELECT of the parent: its path is used by the next statement.  In
\* AssignParentGroup a path that runs through a child is refused.
ReadParent(p) ==
  /\ req[p].pc = "read"
  /\ LET q == req[p]
         found == /\ Exists(q.group)
                  /\ q.op \in AssignOps => /\ Last(path[q.group]) = q.group
                                           /\ q.kids \cap ToSet(path[q.group]) = {}
                  /\ q.op = "CreateGroup" => Len(path[q.group]) + 1 <= MaxPathLength
     IN  \/ /\ found
            /\ req' = [req EXCEPT ![p].path = path[q.group],
                                  ![p].pc = IF q.op = "CreateGroup" THEN "save" ELSE "write"]
         \/ /\ ~found
            /\ IF q.op = "CreateGroup" THEN Finish(p) ELSE Goto(p, "undo")
  /\ UNCHANGED <<rows, links, members, drawn, split, clean>>

\* INSERT of the new row; the foreign key refuses a parent that went away.
SaveGroup(p) ==
  /\ At(p, {"CreateGroup"}, "save")
  /\ LET q == req[p]
     IN  \/ /\ q.group # None => Exists(q.group)
            /\ \E g \in q.kids : /\ path' = [path EXCEPT ![g] = Append(q.path, g)]
                                 /\ parent' = [parent EXCEPT ![g] = q.group]
                                 /\ enabled' \in {enabled, enabled \cup {g}}
            /\ Goto(p, "policy")
         \/ /\ q.group # None /\ ~Exists(q.group)
            /\ Finish(p)
            /\ UNCHANGED rows
  /\ UNCHANGED <<links, members, drawn, split, clean>>

\* AddNewEntitiesRoles inserts the rows of the built-in role.
SaveRoles(p) ==
  /\ At(p, {"CreateGroup"}, "roles")
  /\ Finish(p)
  /\ UNCHANGED <<rows, links, members, drawn, split, clean>>

\* WHERE id = ANY(C), whatever the status.
Rows(C) == {g \in C : Exists(g)}

\* Groups a request writes to without having listed a tuple for them.
Unlisted(q, C) == {g \in C : <<q.group, g>> \notin q.pols}

\* WHERE path <@ ANY(paths of C).
Under(C) == {d \in Groups : \E c \in C : Exists(c) /\ IsPrefix(path[c], path[d])}

\* Mutant: the path of the children is moved and not the paths below them.
AssignChildrenOnly(p) ==
  /\ At(p, AssignOps, "write")
  /\ LET q == req[p]
         C == Rows(q.kids)
     IN  \/ /\ Exists(q.group)
            /\ parent' = [g \in Groups |-> IF g \in C THEN q.group ELSE parent[g]]
            /\ path' = [d \in Groups |-> IF d \in C THEN q.path \o path[d] ELSE path[d]]
            /\ Split(Groups \X Unlisted(q, C))
            /\ Tidy(\A g \in Unlisted(q, C) : parent[g] = None)
            /\ Finish(p)
         \/ /\ ~Exists(q.group)
            /\ Goto(p, "undo")
            /\ UNCHANGED <<parent, path, split, clean>>
  /\ UNCHANGED <<enabled, links, members, drawn>>

\* AssignParentGroup: the parent of the children, then the paths of the
\* children and of all below them.
AssignParentGroup(p) ==
  /\ At(p, AssignOps, "write")
  /\ LET q == req[p]
         C == Rows(q.kids)
         D == Under(C)
     IN  \/ /\ Exists(q.group)
            /\ parent' = [g \in Groups |-> IF g \in C THEN q.group ELSE parent[g]]
            /\ path' = [d \in Groups |-> IF d \in D THEN q.path \o path[d] ELSE path[d]]
            /\ Split(Groups \X Unlisted(q, C))
            /\ Tidy(\A g \in Unlisted(q, C) : parent[g] = None)
            /\ Finish(p)
         \/ /\ ~Exists(q.group)
            /\ Goto(p, "undo")
            /\ UNCHANGED <<parent, path, split, clean>>
  /\ UNCHANGED <<enabled, links, members, drawn>>

\* UnassignParentGroup: only children of that parent, and all below them.
UnassignParentGroup(p) ==
  /\ At(p, UnassignOps, "write")
  /\ LET q == req[p]
         C == {g \in q.kids : parent[g] = q.group}
         D == Under(C)
     IN  /\ parent' = [g \in Groups |-> IF g \in C THEN None ELSE parent[g]]
         /\ path' = [d \in Groups |-> IF d \in D THEN Strip(path[d], q.path) ELSE path[d]]
         /\ Split(Groups \X Unlisted(q, C))
  /\ Finish(p)
  /\ UNCHANGED <<enabled, links, members, drawn, clean>>

\* UnassignAllChildrenGroups leaves the paths as they are.
UnassignAllChildrenGroups(p) ==
  /\ At(p, {"RemoveAllChildrenGroups"}, "write")
  /\ parent' = [g \in Groups |-> IF parent[g] = req[p].group THEN None ELSE parent[g]]
  /\ Finish(p)
  /\ Tidy(parent' = parent)
  /\ UNCHANGED <<path, enabled, links, members, drawn, split>>

\* Deleting a row sets the parent of its children to NULL and leaves their
\* paths as they are.
DropRow(g) ==
  /\ path' = [path EXCEPT ![g] = <<>>]
  /\ enabled' = enabled \ {g}
  /\ parent' = [c \in Groups |-> IF c = g \/ parent[c] = g THEN None ELSE parent[c]]
  /\ Tidy(\A c \in Groups : parent[c] # g)

DeleteRow(p) ==
  /\ At(p, {"DeleteGroup"}, "write")
  /\ DropRow(req[p].group)
  /\ Finish(p)
  /\ UNCHANGED <<links, members, drawn, split>>

UnsaveGroup(p) ==
  /\ At(p, {"CreateGroup"}, "unsave")
  /\ \E g \in req[p].kids : DropRow(g)
  /\ Finish(p)
  /\ UNCHANGED <<links, members, drawn, split>>

-----------------------------------------------------------------------------
(* Failures. *)

\* Links whose row and tuple differ if the request ends where it is.
HalfDone(p) ==
  IF req[p].pc \in (CASE req[p].op = "CreateGroup" -> {"policy", "undo", "unsave"}
                      [] req[p].op = "DeleteGroup" -> {"object", "write"}
                      [] OTHER -> {"read", "write", "undo"})
  THEN Touched(req[p])
  ELSE IF At(p, {"DeleteGroup"}, "subject") THEN req[p].pols ELSE {}

\* The call the request is about to make returns an error and has no effect.
CallFails(p) ==
  /\ req[p] # Idle
  /\ LET q == req[p]
         next == IF q.op = "CreateGroup"
                 THEN CASE q.pc \in {"policy", "undo"} -> "unsave"
                        [] q.pc = "roles" -> "undo"
                        [] OTHER -> "done"
                 ELSE IF q.op \in AssignOps \cup UnassignOps /\ q.pc \in {"read", "write"}
                 THEN "undo" ELSE "done"
     IN  \/ /\ next # "done"
            /\ Goto(p, next)
            /\ Split(IF q.pc = "undo" THEN Touched(q) ELSE {})
         \/ /\ next = "done"
            /\ Finish(p)
            /\ Split(HalfDone(p))
  /\ UNCHANGED <<rows, links, members, drawn, clean>>

\* The service stops, or the answer of the last call is lost.
Crash(p) ==
  /\ req[p] # Idle
  /\ Finish(p)
  /\ Split(HalfDone(p))
  /\ UNCHANGED <<rows, links, members, drawn, clean>>

-----------------------------------------------------------------------------
\* IDs a client can name: their row has been saved.
Known == {g \in drawn : \A p \in Requests :
            At(p, {"CreateGroup"}, "read") \/ At(p, {"CreateGroup"}, "save") => g \notin req[p].kids}

Start(p) ==
  /\ req[p] = Idle
  /\ \/ \E g \in Groups, h \in Known \cup {None} : CreateGroup(p, g, h)
     \/ \E g, h \in Known : AddParentGroup(p, g, h)
     \/ \E g \in Known : \/ RemoveParentGroup(p, g)
                         \/ RemoveAllChildrenGroups(p, g)
                         \/ DeleteGroup(p, g)
     \/ \E h \in Known, C \in SUBSET Known : \/ AddChildrenGroups(p, h, C)
                                             \/ RemoveChildrenGroups(p, h, C)

Step(p) ==
  \/ AddPolicies(p) \/ UndoAdd(p) \/ UndoRemove(p)
  \/ DeletePolicies(p) \/ DeleteSubjectPolicies(p) \/ DeleteObjectPolicies(p)
  \/ ReadParent(p) \/ SaveGroup(p) \/ SaveRoles(p)
  \/ AssignParentGroup(p) \/ UnassignParentGroup(p) \/ UnassignAllChildrenGroups(p)
  \/ DeleteRow(p) \/ UnsaveGroup(p)

Next == \/ \E p \in Requests : Start(p) \/ Step(p) \/ CallFails(p) \/ Crash(p)
        \/ \E g \in Known : ChangeStatus(g)

Spec == Init /\ [][Next]_vars

-----------------------------------------------------------------------------
(* Properties. *)

\* Access is inherited along exactly the parents the table shows: for every
\* link no request in flight touches, the parent_group tuple is there if and
\* only if the row names that parent, unless an addition and a removal
\* overlapped on that link or one of its second writes was lost.  Additions
\* that race for one child are decided by the precondition of the policy store.
TuplesMatchParents ==
  \A l \in Links \ split :
    (\A p \in Requests : l \notin Touched(req[p])) => (l \in links <=> parent[l[2]] = l[1])

\* No group inherits access from two parents, whatever overlaps or fails.
OneParent == \A l, m \in links : l[2] = m[2] => l = m

\* The path of a group is the path of its parent and the group itself, so the
\* tree that path queries see is the tree of parents; and it is a tree.
PathsFollowParents ==
  clean /\ (\A p \in Requests : req[p] = Idle) =>
    \A g \in Groups : Exists(g) =>
       path[g] = IF parent[g] = None THEN <<g>> ELSE Append(path[parent[g]], g)

\* AssignParentGroup refuses a "cyclic parent, group is parent of requested
\* group" (groups/postgres/errors.go:10): every set of groups has a member
\* whose parent is not in the set.
Acyclic == \A S \in SUBSET Groups \ {{}} : \E g \in S : parent[g] \notin S

\* A group with a parent cannot be given another one, "group already have
\* parent" (groups/service.go:25): its parent_id changes to NULL only.
ParentKept == [][\A g \in Groups : parent[g] # None => parent'[g] \in {parent[g], None}]_vars

\* Every call succeeds and no handler stops.
ReliableNext == \/ \E p \in Requests : Start(p) \/ Step(p)
                \/ \E g \in Known : ChangeStatus(g)
ReliableSpec == Init /\ [][ReliableNext]_vars
=============================================================================
