------------------------------ MODULE Parents ------------------------------
(***************************************************************************)
(* Channels and clients in groups (SetParentGroup, RemoveParentGroup and   *)
(* removal in channels/service.go and clients/service.go, the Unset calls  *)
(* of channels/private and clients/private that DeleteGroup of             *)
(* groups/service.go makes).  The group of an entity is kept in the column *)
(* parent_group_id, which refers to a group of another service without a   *)
(* foreign key, and in a parent_group tuple of the policy store, which     *)
(* decides who inherits access.  Handlers interleave between their calls,  *)
(* calls fail, handlers stop.                                              *)
(***************************************************************************)
EXTENDS Naturals, FiniteSets

CONSTANTS Channels, Clients, Groups, ParentReqs, None

VARIABLES parentOf,  \* column parent_group_id, "absent" when there is no row
          tuples,    \* tuples group -> parent_group -> entity
          groups,    \* status of the groups
          preq,      \* the handlers in flight
          astray     \* links on which row and tuple may differ (history)

vars == <<parentOf, tuples, groups, preq, astray>>

Entities == Channels \cup Clients
Links == Groups \X Entities

Idle == [op |-> "idle", pc |-> "done", group |-> None, on |-> {}, kind |-> {},
         alone |-> FALSE]
Ops == {"SetParentGroup", "RemoveParentGroup", "RemoveEntity", "DeleteGroup"}

TypeOK ==
  /\ parentOf \in [Entities -> Groups \cup {None, "absent"}]
  /\ tuples \subseteq Links /\ astray \subseteq Links
  /\ groups \in [Groups -> {"enabled", "disabled", "deleted", "absent"}]
  /\ preq \in [ParentReqs -> {Idle} \cup
                 [op : Ops, group : Groups \cup {None}, on : SUBSET Entities,
                  kind : {Channels, Clients, {}}, alone : BOOLEAN,
                  pc : {"group", "list", "tuple", "row", "undo", "mark", "filter", "delete"}]]

Init ==
  /\ parentOf = [e \in Entities |-> None] /\ tuples = {}
  /\ groups = [g \in Groups |-> "enabled"]
  /\ preq = [p \in ParentReqs |-> Idle] /\ astray = {}

-----------------------------------------------------------------------------
\* Links a request may write.
Touched(q) == IF q.op = "DeleteGroup" THEN {q.group} \X Entities ELSE Groups \X q.on

\* Two requests for the same group and entity are no conflict: the policy store
\* lets one of them create the tuple, and the other fails.
Overlap(q, s) ==
  IF q.op = "SetParentGroup" /\ s.op = "SetParentGroup" /\ q.group = s.group THEN {}
  ELSE Touched(q) \cap Touched(s)

\* Row and tuple of a link may differ after two requests overlapped on it, a
\* handler stopped between its writes, or a compensation was lost.
Astray(L) == astray' = astray \cup L

\* A request is alone (history) when no other works on its links while it runs.
Begin(p, op, pc, g, E, kind) ==
  LET q == [op |-> op, pc |-> pc, group |-> g, on |-> E, kind |-> kind, alone |-> TRUE]
      Meets(o) == o # p /\ Touched(q) \cap Touched(preq[o]) # {}
  IN  /\ preq[p] = Idle
      /\ preq' = [o \in ParentReqs |->
                    IF o = p THEN [q EXCEPT !.alone = ~\E x \in ParentReqs : Meets(x)]
                    ELSE [preq[o] EXCEPT !.alone = @ /\ ~Meets(o)]]
      /\ Astray(UNION {Overlap(q, preq[o]) : o \in ParentReqs \ {p}})
      /\ UNCHANGED <<parentOf, tuples, groups>>

\* What was astray on these links is mended by a request that ran alone to its end.
Mend(p, L) == astray' = IF preq[p].alone THEN astray \ L ELSE astray

Goto(p, pc)  == preq' = [preq EXCEPT ![p].pc = pc]
Finish(p)    == preq' = [preq EXCEPT ![p] = Idle]
At(p, O, pc) == preq[p].op \in O /\ preq[p].pc = pc

LinksOf(p) == {preq[p].group} \X preq[p].on
Known(p) == \A e \in preq[p].on : parentOf[e] # "absent"

-----------------------------------------------------------------------------
(* SetParentGroup, RemoveParentGroup and the removal of an entity. *)

\* The row is read first: an entity has one parent, which is not replaced.
SetParentGroup(p, e, g) ==
  /\ parentOf[e] = None
  /\ Begin(p, "SetParentGroup", "group", g, {e}, {})

\* Mutant: whatever the group's status, and whether it exists, is ignored.
RetrieveGroupUnchecked(p) ==
  /\ At(p, {"SetParentGroup"}, "group")
  /\ Goto(p, "tuple")
  /\ UNCHANGED <<parentOf, tuples, groups, astray>>

\* RetrieveEntity of the groups service.
RetrieveGroup(p) ==
  /\ At(p, {"SetParentGroup"}, "group")
  /\ IF groups[preq[p].group] = "enabled" THEN Goto(p, "tuple") ELSE Finish(p)
  /\ UNCHANGED <<parentOf, tuples, groups, astray>>

\* AddPolicies: a tuple that exists is an error.
AddParentTuple(p) ==
  /\ At(p, {"SetParentGroup"}, "tuple")
  /\ IF LinksOf(p) \subseteq tuples THEN Finish(p) /\ UNCHANGED tuples
     ELSE tuples' = tuples \cup LinksOf(p) /\ Goto(p, "row")
  /\ UNCHANGED <<parentOf, groups, astray>>

SetParentRow(p) ==
  /\ At(p, {"SetParentGroup"}, "row")
  /\ IF Known(p)
     THEN /\ parentOf' = [e \in Entities |-> IF e \in preq[p].on THEN preq[p].group ELSE parentOf[e]]
          /\ Finish(p)
     ELSE Goto(p, "undo") /\ UNCHANGED parentOf
  /\ UNCHANGED <<tuples, groups, astray>>

\* No parent is no error.  The middleware asks for a permission on the parent group,
\* which nobody has when the group is gone with all its tuples.
RemoveParentGroup(p, e) ==
  /\ parentOf[e] \in Groups /\ groups[parentOf[e]] # "absent"
  /\ Begin(p, "RemoveParentGroup", "tuple", parentOf[e], {e}, {})

\* Delete of the clients service, RemoveChannel: all tuples of the entity.
RemoveEntity(p, e) ==
  /\ parentOf[e] # "absent"
  /\ Begin(p, "RemoveEntity", "tuple", None, {e}, {})

DropParentTuple(p) ==
  /\ At(p, {"RemoveParentGroup", "RemoveEntity"}, "tuple")
  /\ tuples' = tuples \ (IF preq[p].op = "RemoveEntity" THEN Touched(preq[p]) ELSE LinksOf(p))
  /\ Goto(p, "row")
  /\ UNCHANGED <<parentOf, groups, astray>>

\* Mutant: the compensation runs when the row is written, too.
ClearParentRowUndone(p) ==
  /\ At(p, {"RemoveParentGroup"}, "row")
  /\ parentOf' = [e \in Entities |-> IF e \in preq[p].on /\ Known(p) THEN None ELSE parentOf[e]]
  /\ Goto(p, "undo")
  /\ UNCHANGED <<tuples, groups, astray>>

ClearParentRow(p) ==
  /\ At(p, {"RemoveParentGroup"}, "row")
  /\ parentOf' = [e \in Entities |-> IF e \in preq[p].on /\ Known(p) THEN None ELSE parentOf[e]]
  /\ IF Known(p) THEN Finish(p) /\ Mend(p, LinksOf(p)) ELSE Goto(p, "undo") /\ UNCHANGED astray
  /\ UNCHANGED <<tuples, groups>>

RemoveEntityRow(p) ==
  /\ At(p, {"RemoveEntity"}, "row")
  /\ parentOf' = [e \in Entities |-> IF e \in preq[p].on THEN "absent" ELSE parentOf[e]]
  /\ Finish(p) /\ Mend(p, Touched(preq[p]))
  /\ UNCHANGED <<tuples, groups>>

-----------------------------------------------------------------------------
(* DeleteGroup: UnsetParentGroupFromChannels, UnsetParentGroupFromClient,  *)
(* then the group itself.                                                  *)

DeleteGroup(p, g) ==
  /\ groups[g] # "absent"
  /\ Begin(p, "DeleteGroup", "list", g, {}, Channels)

\* After the channels, the clients.
NextKind(p) ==
  preq' = [preq EXCEPT ![p].pc = IF preq[p].kind = Channels THEN "list" ELSE "mark",
                       ![p].kind = IF @ = Channels THEN Clients ELSE {}, ![p].on = {}]

ListOfGroup(p) ==
  /\ At(p, {"DeleteGroup"}, "list")
  /\ LET E == {e \in preq[p].kind : parentOf[e] = preq[p].group}
     IN  IF E = {} THEN NextKind(p)
         ELSE preq' = [preq EXCEPT ![p].pc = "tuple", ![p].on = E]
  /\ UNCHANGED <<parentOf, tuples, groups, astray>>

DropGroupTuples(p) ==
  /\ At(p, {"DeleteGroup"}, "tuple")
  /\ tuples' = tuples \ LinksOf(p)
  /\ Goto(p, "row")
  /\ UNCHANGED <<parentOf, groups, astray>>

\* All rows with this parent, whether listed or not.
UnsetParentGroup(p) ==
  /\ At(p, {"DeleteGroup"}, "row")
  /\ parentOf' = [e \in Entities |-> IF e \in preq[p].kind /\ parentOf[e] = preq[p].group
                                     THEN None ELSE parentOf[e]]
  /\ NextKind(p)
  /\ UNCHANGED <<tuples, groups, astray>>

MarkDeleted(p) ==
  /\ At(p, {"DeleteGroup"}, "mark")
  /\ IF groups[preq[p].group] = "absent" THEN Finish(p) /\ UNCHANGED groups
     ELSE groups' = [groups EXCEPT ![preq[p].group] = "deleted"] /\ Goto(p, "filter")
  /\ UNCHANGED <<parentOf, tuples, astray>>

\* DeletePolicyFilter with the group as subject.
FilterTuples(p) ==
  /\ At(p, {"DeleteGroup"}, "filter")
  /\ tuples' = tuples \ Touched(preq[p])
  /\ Goto(p, "delete")
  /\ UNCHANGED <<parentOf, groups, astray>>

DeleteRow(p) ==
  /\ At(p, {"DeleteGroup"}, "delete")
  /\ groups' = [groups EXCEPT ![preq[p].group] = "absent"]
  /\ Finish(p) /\ Mend(p, Touched(preq[p]))
  /\ UNCHANGED <<parentOf, tuples>>

-----------------------------------------------------------------------------
(* Compensation, failures, and the status of groups. *)

\* DeletePolicies after SetParentGroup, AddPolicies (all or none) otherwise.
Undo(p) ==
  /\ preq[p].pc = "undo"
  /\ tuples' = IF preq[p].op = "SetParentGroup" THEN tuples \ LinksOf(p)
               ELSE IF LinksOf(p) \cap tuples = {} THEN tuples \cup LinksOf(p) ELSE tuples
  /\ Finish(p)
  /\ UNCHANGED <<parentOf, groups, astray>>

HalfDone(p) == IF preq[p].pc \in {"row", "undo"} THEN Touched(preq[p]) ELSE {}

\* The next call fails: the second write is compensated but for a removal, a
\* failing compensation is lost.
Fail(p) ==
  /\ preq[p] # Idle
  /\ IF preq[p].pc = "row" /\ preq[p].op # "RemoveEntity"
     THEN Goto(p, "undo") /\ UNCHANGED astray
     ELSE Finish(p) /\ Astray(HalfDone(p))
  /\ UNCHANGED <<parentOf, tuples, groups>>

Stop(p) ==
  /\ preq[p] # Idle
  /\ Finish(p) /\ Astray(HalfDone(p))
  /\ UNCHANGED <<parentOf, tuples, groups>>

ChangeGroupStatus(g, s) ==
  /\ groups[g] \notin {"absent", s}
  /\ groups' = [groups EXCEPT ![g] = s]
  /\ UNCHANGED <<parentOf, tuples, preq, astray>>

Start(p) ==
  \/ \E e \in Entities : \/ RemoveParentGroup(p, e) \/ RemoveEntity(p, e)
                         \/ \E g \in Groups : SetParentGroup(p, e, g)
  \/ \E g \in Groups : DeleteGroup(p, g)

Step(p) ==
  \/ RetrieveGroup(p) \/ AddParentTuple(p) \/ SetParentRow(p) \/ DropParentTuple(p)
  \/ ClearParentRow(p) \/ RemoveEntityRow(p) \/ ListOfGroup(p) \/ DropGroupTuples(p)
  \/ UnsetParentGroup(p) \/ MarkDeleted(p) \/ FilterTuples(p) \/ DeleteRow(p) \/ Undo(p)

Next ==
  \/ \E p \in ParentReqs : Start(p) \/ Step(p) \/ Fail(p) \/ Stop(p)
  \/ \E g \in Groups, s \in {"enabled", "disabled"} : ChangeGroupStatus(g, s)

Spec == Init /\ [][Next]_vars

-----------------------------------------------------------------------------
(* Properties. *)

InFlight(l) == \E p \in ParentReqs : l \in Touched(preq[p])

\* Who inherits access to an entity through its group agrees with the row of the
\* entity, for every link no request in flight works on: the compensations of the
\* handlers keep the policy store and the tables together whatever call fails,
\* unless two handlers overlapped on the link, one stopped between its writes, or a
\* compensation failed.  What those leave, a later RemoveParentGroup, a removal of the
\* entity or a DeleteGroup mends that meets no other request on its links.
ParentsMatch ==
  \A l \in Links \ astray : ~InFlight(l) => (l \in tuples <=> parentOf[l[2]] = l[1])

\* No entity is left in a group that is gone (nothing but DeleteGroup sees to that,
\* for the column has no foreign key), with the same exceptions.
ParentExists ==
  \A l \in Links \ astray : ~InFlight(l) /\ parentOf[l[2]] = l[1] => groups[l[1]] # "absent"
=============================================================================
