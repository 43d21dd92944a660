------------------------ MODULE GroupHierarchyProofs ------------------------
(* No group is ever given two parent_group tuples, for any number of groups   *)
(* and handlers, whatever overlaps or fails.                                   *)
EXTENDS GroupHierarchy, TLAPS

\* The provers a leaf is tried with, in this order.
USE SMT, Zenon, SMTT(20), SMTT(30)

\* A list of tuples names one parent for each child.
Apart(L) == \A l, m \in L : l[2] = m[2] => l = m

\* A handler is a record with the fields of a request, and its list of tuples
\* names one parent for each child.  What its path holds does not matter here.
Sound(q) ==
  /\ q = [op |-> q.op, pc |-> q.pc, group |-> q.group, kids |-> q.kids,
          pols |-> q.pols, path |-> q.path]
  /\ q.group \in Groups \cup {None}
  /\ q.kids \subseteq Groups
  /\ q.pols \subseteq Links
  /\ Apart(q.pols)

Handlers == /\ req = [p \in Requests |-> req[p]]
            /\ \A p \in Requests : Sound(req[p])

\* The inductive invariant: the tuples in the store, and those each handler
\* has on its list, name one parent for each child.
ListsApart == /\ Handlers /\ OneParent
              /\ links \subseteq Links
              /\ drawn \subseteq Groups
              /\ parent \in [Groups -> Groups \cup {None}]

\* A handler moves to another stage or ends: its list is the same or empty.
LEMMA HandlerMoves ==
  ASSUME Handlers, NEW p \in Requests, NEW pc, Goto(p, pc) \/ Finish(p)
  PROVE  Handlers'
<1>1. CASE Goto(p, pc)
  BY <1>1 DEF Handlers, Sound, Goto
<1>2. CASE Finish(p)
  BY <1>2 DEF Handlers, Sound, Finish, Apart, Idle
<1> QED BY <1>1, <1>2

\* A handler starts with a list that names one parent.
LEMMA HandlerBegins ==
  ASSUME ListsApart, NEW p \in Requests, NEW op, NEW pc, NEW g \in Groups \cup {None},
         NEW C \in SUBSET Groups, NEW L \in SUBSET Links, Apart(L),
         Begin(p, Request(op, pc, g, C, L)), UNCHANGED <<links, parent>>, drawn' \subseteq Groups
  PROVE  ListsApart'
<1>1. Sound(Request(op, pc, g, C, L))
  BY DEF Sound, Request
<1>2. Handlers'
  BY <1>1 DEF Begin, ListsApart, Handlers
<1> QED BY <1>2 DEF ListsApart, OneParent

\* Every operation starts with tuples of one parent.
LEMMA StartApart ==
  ASSUME ListsApart, NEW p \in Requests, Start(p)
  PROVE  ListsApart'
<1>0. Known \subseteq Groups /\ drawn \subseteq Groups /\ parent \in [Groups -> Groups \cup {None}]
  BY DEF Known, ListsApart
<1>1. ASSUME NEW g \in Groups, NEW h \in Known \cup {None}, CreateGroup(p, g, h)
      PROVE  ListsApart'
  <2> DEFINE L == IF h = None THEN {} ELSE {<<h, g>>}
  <2>1. Apart(L) /\ L \in SUBSET Links
    BY <1>0 DEF Apart, Links
  <2>2. drawn' \subseteq Groups /\ UNCHANGED <<links, parent>>
    BY <1>0, <1>1 DEF CreateGroup, rows
  <2>3. Begin(p, Request("CreateGroup", IF h = None THEN "save" ELSE "read", h, {g}, L))
    BY <1>1 DEF CreateGroup
  <2> HIDE DEF L
  <2> QED BY <1>0, <2>1, <2>2, <2>3, HandlerBegins
<1>2. ASSUME NEW g \in Known, NEW h \in Known, AddParentGroup(p, g, h)
      PROVE  ListsApart'
  <2>1. Apart({<<h, g>>}) /\ {<<h, g>>} \in SUBSET Links
    BY <1>0 DEF Apart, Links
  <2> QED BY <1>0, <1>2, <2>1, HandlerBegins DEF AddParentGroup, rows
<1>3. ASSUME NEW g \in Known, RemoveParentGroup(p, g)
      PROVE  ListsApart'
  <2>1. parent[g] \in Groups
    BY <1>0, <1>3 DEF RemoveParentGroup
  <2>2. Apart({<<parent[g], g>>}) /\ {<<parent[g], g>>} \in SUBSET Links
    BY <1>0, <2>1 DEF Apart, Links
  <2> QED BY <1>0, <1>3, <2>1, <2>2, HandlerBegins DEF RemoveParentGroup, rows
<1>4. ASSUME NEW g \in Known, RemoveAllChildrenGroups(p, g)
      PROVE  ListsApart'
  <2>1. Apart({})
    BY DEF Apart
  <2> QED BY <1>0, <1>4, <2>1, HandlerBegins DEF RemoveAllChildrenGroups, rows
<1>5. ASSUME NEW g \in Known, DeleteGroup(p, g)
      PROVE  ListsApart'
  <2> DEFINE L == IF parent[g] = None THEN {} ELSE {<<parent[g], g>>}
  <2>1. Apart(L) /\ L \in SUBSET Links
    BY <1>0 DEF Apart, Links
  <2>2. Begin(p, Request("DeleteGroup", IF parent[g] = None THEN "subject" ELSE "policy", g, {}, L))
        /\ UNCHANGED <<links, parent, drawn>>
    BY <1>5 DEF DeleteGroup
  <2> HIDE DEF L
  <2> QED BY <1>0, <2>1, <2>2, HandlerBegins
<1>6. ASSUME NEW h \in Known, NEW C \in SUBSET Known,
             AddChildrenGroups(p, h, C) \/ RemoveChildrenGroups(p, h, C)
      PROVE  ListsApart'
  <2>1. Apart({h} \X Retrieved(C)) /\ {h} \X Retrieved(C) \in SUBSET Links
    BY <1>0 DEF Apart, Links, Retrieved
  <2> QED BY <1>0, <1>6, <2>1, HandlerBegins DEF AddChildrenGroups, RemoveChildrenGroups, rows
<1> QED BY <1>1, <1>2, <1>3, <1>4, <1>5, <1>6 DEF Start

\* The precondition of the policy store: no child on the list has a parent.
LEMMA AddableApart ==
  ASSUME OneParent, links \subseteq Links, NEW q, Sound(q), Addable(q)
  PROVE  Apart(links \cup q.pols) /\ links \cup q.pols \subseteq Links
<1>1. \A l \in q.pols, m \in links : l[2] # m[2]
  <2> SUFFICES ASSUME NEW l \in q.pols, NEW m \in links, l[2] = m[2] PROVE FALSE
    OBVIOUS
  <2>1. m = <<m[1], l[2]>> /\ m[1] \in Groups
    BY DEF Links
  <2> QED BY <2>1 DEF Addable
<1> QED BY <1>1 DEF OneParent, Apart, Sound

\* Fewer tuples, and the parents as they were.
LEMMA FewerLinks ==
  ASSUME ListsApart, Handlers', links' \subseteq links, UNCHANGED <<parent, drawn>>
  PROVE  ListsApart'
BY DEF ListsApart, OneParent

\* The parents change and the tuples do not.
LEMMA OtherParents ==
  ASSUME ListsApart, Handlers', parent' \in [Groups -> Groups \cup {None}],
         UNCHANGED <<links, drawn>>
  PROVE  ListsApart'
BY DEF ListsApart, OneParent

\* The steps of a handler on the policy store.
LEMMA PolicyStepApart ==
  ASSUME ListsApart, NEW p \in Requests,
         \/ AddPolicies(p) \/ UndoAdd(p) \/ UndoRemove(p)
         \/ DeletePolicies(p) \/ DeleteSubjectPolicies(p) \/ DeleteObjectPolicies(p)
  PROVE  ListsApart'
<1>1. Handlers'
  BY HandlerMoves DEF ListsApart, AddPolicies, UndoAdd, UndoRemove, DeletePolicies,
                      DeleteSubjectPolicies, DeleteObjectPolicies
<1>2. UNCHANGED <<parent, drawn>>
  BY DEF AddPolicies, UndoAdd, UndoRemove, DeletePolicies,
         DeleteSubjectPolicies, DeleteObjectPolicies, rows
<1>3. \/ links' \subseteq links
      \/ Addable(req[p]) /\ links' = links \cup req[p].pols
  BY DEF AddPolicies, UndoAdd, UndoRemove, DeletePolicies,
         DeleteSubjectPolicies, DeleteObjectPolicies
<1>4. CASE links' \subseteq links
  BY <1>1, <1>2, <1>4, FewerLinks
<1>5. CASE Addable(req[p]) /\ links' = links \cup req[p].pols
  <2>1. Apart(links') /\ links' \subseteq Links
    BY <1>5, AddableApart DEF ListsApart, Handlers
  <2> QED BY <1>1, <1>2, <2>1 DEF ListsApart, OneParent, Apart
<1> QED BY <1>3, <1>4, <1>5

\* The steps of a handler on the table of groups.
LEMMA TableStepApart ==
  ASSUME ListsApart, NEW p \in Requests,
         \/ ReadParent(p) \/ SaveGroup(p) \/ SaveRoles(p)
         \/ AssignParentGroup(p) \/ UnassignParentGroup(p) \/ UnassignAllChildrenGroups(p)
         \/ DeleteRow(p) \/ UnsaveGroup(p)
  PROVE  ListsApart'
<1>1. UNCHANGED <<links, drawn>>
  BY DEF ReadParent, SaveGroup, SaveRoles, AssignParentGroup, UnassignParentGroup,
         UnassignAllChildrenGroups, DeleteRow, UnsaveGroup
<1>2. Handlers'
  <2>1. CASE ReadParent(p)
    <3> DEFINE q == req[p]
               to == IF q.op = "CreateGroup" THEN "save" ELSE "write"
    <3>1. \/ req' = [req EXCEPT ![p].path = path[q.group], ![p].pc = to]
          \/ Finish(p) \/ Goto(p, "undo")
      BY <2>1 DEF ReadParent
    <3>2. CASE req' = [req EXCEPT ![p].path = path[q.group], ![p].pc = to]
      <4>1. Sound(q) /\ req = [o \in Requests |-> req[o]]
        BY DEF ListsApart, Handlers
      <4>2. /\ req' = [o \in Requests |-> IF o = p THEN req'[p] ELSE req[o]]
            /\ req'[p] = [q EXCEPT !.path = path[q.group], !.pc = to]
        BY <3>2, <4>1
      <4>3. req'[p] = [op |-> q.op, pc |-> to, group |-> q.group, kids |-> q.kids,
                       pols |-> q.pols, path |-> path[q.group]]
        BY <4>1, <4>2 DEF Sound
      <4>4. Sound(req'[p])
        BY <4>1, <4>3 DEF Sound
      <4> QED BY <4>1, <4>2, <4>4 DEF ListsApart, Handlers
    <3> QED BY <3>1, <3>2, HandlerMoves DEF ListsApart
  <2>2. CASE ~ReadParent(p)
    BY <2>2, HandlerMoves DEF ListsApart, SaveGroup, SaveRoles, AssignParentGroup,
         UnassignParentGroup, UnassignAllChildrenGroups, DeleteRow, UnsaveGroup
  <2> QED BY <2>1, <2>2
<1>3. parent' \in [Groups -> Groups \cup {None}]
  <2>1. /\ parent \in [Groups -> Groups \cup {None}]
        /\ req[p].group \in Groups \cup {None} /\ req[p].kids \subseteq Groups
    BY DEF ListsApart, Handlers, Sound
  <2>2. CASE ReadParent(p) \/ SaveRoles(p)
    BY <2>1, <2>2 DEF ReadParent, SaveRoles, rows
  <2>3. CASE SaveGroup(p)
    BY <2>1, <2>3 DEF SaveGroup, rows
  <2>4. CASE AssignParentGroup(p)
    BY <2>1, <2>4 DEF AssignParentGroup
  <2>5. CASE UnassignParentGroup(p)
    BY <2>1, <2>5 DEF UnassignParentGroup
  <2>6. CASE UnassignAllChildrenGroups(p)
    BY <2>1, <2>6 DEF UnassignAllChildrenGroups
  <2>7. CASE DeleteRow(p) \/ UnsaveGroup(p)
    BY <2>1, <2>7 DEF DeleteRow, UnsaveGroup, DropRow
  <2> QED BY <2>2, <2>3, <2>4, <2>5, <2>6, <2>7
<1> QED BY <1>1, <1>2, <1>3, OtherParents

\* Every step keeps the invariant.
LEMMA NextApart == ListsApart /\ [Next]_vars => ListsApart'
<1> SUFFICES ASSUME ListsApart, [Next]_vars PROVE ListsApart'
  OBVIOUS
<1>1. ASSUME NEW p \in Requests, Start(p) PROVE ListsApart'
  BY <1>1, StartApart
<1>2. ASSUME NEW p \in Requests, Step(p) PROVE ListsApart'
  BY <1>2, PolicyStepApart, TableStepApart DEF Step
<1>3. ASSUME NEW p \in Requests, CallFails(p) \/ Crash(p) PROVE ListsApart'
  <2>1. \E pc : Goto(p, pc) \/ Finish(p)
    BY <1>3 DEF CallFails, Crash
  <2>2. UNCHANGED <<links, parent, drawn>>
    BY <1>3 DEF CallFails, Crash, rows
  <2>3. Handlers'
    BY <2>1, HandlerMoves DEF ListsApart
  <2> QED BY <2>2, <2>3, FewerLinks
<1>4. ASSUME NEW g \in Known, ChangeStatus(g) PROVE ListsApart'
  BY <1>4 DEF ChangeStatus, ListsApart, Handlers, OneParent
<1>5. CASE UNCHANGED vars
  BY <1>5 DEF vars, ListsApart, Handlers, OneParent
<1> QED BY <1>1, <1>2, <1>3, <1>4, <1>5 DEF Next

\* No group ever inherits access from two parents: the parent_group tuples that
\* AddParentGroup, AddChildrenGroups, CreateGroup and the compensations of
\* removals write name one parent for each child, however handlers overlap and
\* wherever they fail or stop, also on links the stores are split on.
THEOREM SingleParent == Spec => []OneParent
<1>1. Init => ListsApart
  <2> SUFFICES ASSUME Init PROVE ListsApart
    OBVIOUS
  <2>1. Sound(Idle)
    BY DEF Sound, Apart, Idle
  <2>2. Handlers
    BY <2>1 DEF Init, Handlers
  <2> QED BY <2>2 DEF Init, ListsApart, OneParent
<1>2. ListsApart => OneParent
  BY DEF ListsApart
<1> QED BY <1>1, <1>2, NextApart, PTL DEF Spec
=============================================================================
