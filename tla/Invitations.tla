---------------------------- MODULE Invitations ----------------------------
(***************************************************************************)
(* How users join and leave a domain (domains/service.go): invitations, on *)
(* the one hand, and the members of the roles of the domain, on the other. *)
(* Accepting an invitation adds the user to a role and then marks the      *)
(* invitation; removing a member deletes the invitation and then the       *)
(* member.  The invitation is read before, and not locked.                 *)
(*                                                                         *)
(* Changes of the role tables are one step each here.  What may happen     *)
(* inside them, between the tables and the policy store, is the subject of *)
(* Roles.                                                                  *)
(***************************************************************************)
EXTENDS Naturals, FiniteSets

CONSTANTS Users,     \* user IDs
          RoleIDs,   \* role IDs the ID provider can hand out
          Names,     \* role names
          Admin,     \* BuiltInRoleAdmin, the only built-in name
          Creator,   \* the user who created the domain
          Requests,  \* handlers that can be in flight
          None       \* no such row

Invitation == [role : RoleIDs, confirmed : BOOLEAN, rejected : BOOLEAN]

ASSUME InvitationsAssumption == /\ Creator \in Users /\ IsFiniteSet(Users)
                                /\ Admin \in Names
                                /\ None \notin Names \cup RoleIDs \cup Invitation

VARIABLES roles,        \* name of each role of the domain
          members,      \* rows of the table of role members
          invitations,  \* row of each invitee
          req,          \* the handlers in flight
          drawn,        \* role IDs handed out so far
          loose,        \* users whose invitation may not fit their membership
          crowded       \* roles on which a removal of members met another one
                        \* (the last two are history, see Begin)

history == <<loose, crowded>>
vars    == <<roles, members, invitations, req, drawn, history>>

Ops == {"AcceptInvitation", "RejectInvitation", "ResendInvitation", "DeleteInvitation",
        "RoleRemoveMembers", "RoleRemoveAllMembers"}

Idle == [op |-> "idle", pc |-> "done", users |-> {}, role |-> None]

TypeOK ==
  /\ roles \in [RoleIDs -> Names \cup {None}]
  /\ members \subseteq {x \in RoleIDs \X Users : roles[x[1]] # None}
  /\ invitations \in [Users -> Invitation \cup {None}]
  /\ req \in [Requests -> [op : Ops, pc : {"write", "confirm", "remove"},
                           users : SUBSET Users, role : RoleIDs \cup {None}] \cup {Idle}]
  /\ drawn \subseteq RoleIDs
  /\ loose \subseteq Users
  /\ crowded \subseteq RoleIDs

\* CreateDomain has made the built-in role, with its creator.
Init ==
  /\ \E r \in RoleIDs : /\ roles = [s \in RoleIDs |-> IF s = r THEN Admin ELSE None]
                        /\ members = {<<r, Creator>>}
                        /\ drawn = {r}
  /\ invitations = [u \in Users |-> None]
  /\ req = [p \in Requests |-> Idle]
  /\ loose = {} /\ crowded = {}

-----------------------------------------------------------------------------
MembersOf(r) == {u \in Users : <<r, u>> \in members}
BuiltIn(r)   == roles[r] = Admin

Removals == {"RoleRemoveMembers", "RoleRemoveAllMembers"}

Accepting(o, u) == req[o].op = "AcceptInvitation" /\ u \in req[o].users
Removing(o, r)  == req[o].op \in Removals /\ req[o].role = r

\* An AcceptInvitation that meets another request on its user, a removal that
\* meets another one on its role.
Begin(p, op, U, r) ==
  LET others == Requests \ {p}
  IN  /\ req[p] = Idle
      /\ req' = [req EXCEPT ![p] = [op |-> op, pc |-> "write", users |-> U, role |-> r]]
      /\ loose' = loose \cup {u \in U : \E o \in others : \/ Accepting(o, u)
                                                          \/ op = "AcceptInvitation" /\ u \in req[o].users}
      /\ crowded' = crowded \cup {s \in {r} : op \in Removals /\ \E o \in others : Removing(o, s)}
      /\ UNCHANGED <<roles, members, invitations, drawn>>

Goto(p, pc)   == req' = [req EXCEPT ![p].pc = pc]
Finish(p)     == req' = [req EXCEPT ![p] = Idle]
At(p, op, pc) == req[p].op = op /\ req[p].pc = pc

Invited(u) == invitations[u] # None

\* Mutant: a rejected invitation counts as pending.
PendingUnlessConfirmed(u) == Invited(u) /\ ~invitations[u].confirmed

\* Neither accepted nor rejected yet.
Pending(u) == Invited(u) /\ ~invitations[u].confirmed /\ ~invitations[u].rejected

\* DeleteUsersInvitations.  A user without an invitation can start afresh.
Purge(U) ==
  /\ invitations' = [u \in Users |-> IF u \in U THEN None ELSE invitations[u]]
  /\ loose' = loose \ {u \in U : \A o \in Requests : ~Accepting(o, u)}
  /\ UNCHANGED <<roles, members, drawn, crowded>>

-----------------------------------------------------------------------------
(* Invitations. *)

\* The role must exist; an invitation of the same user is in the way.
SendInvitation(u, r) ==
  /\ roles[r] # None /\ ~Invited(u)
  /\ invitations' = [invitations EXCEPT ![u] = [role |-> r, confirmed |-> FALSE, rejected |-> FALSE]]
  /\ UNCHANGED <<roles, members, req, drawn, history>>

\* resendInvitation writes only if the invitation was rejected.
ResendInvitation(p, u) ==
  /\ Invited(u) /\ ~invitations[u].confirmed /\ invitations[u].rejected
  /\ Begin(p, "ResendInvitation", {u}, None)

AcceptInvitation(p, u) ==
  /\ Pending(u)
  /\ Begin(p, "AcceptInvitation", {u}, invitations[u].role)

RejectInvitation(p, u) ==
  /\ Pending(u)
  /\ Begin(p, "RejectInvitation", {u}, None)

\* By somebody else than the invitee.
DeleteInvitation(p, u) ==
  /\ Pending(u)
  /\ Begin(p, "DeleteInvitation", {u}, None)

\* By the invitee, who may delete it at any time.
DeleteOwnInvitation(u) ==
  /\ Invited(u)
  /\ Purge({u})
  /\ UNCHANGED req

\* repo.RoleAddMembers: UNIQUE (member_id, entity_id).
CanAdd(r, U) == /\ roles[r] # None
                /\ \A x \in members : x[2] \notin U

\* Mutant: the invitation is marked even if the user could not be added.
AddInviteeAnyway(p) ==
  /\ At(p, "AcceptInvitation", "write")
  /\ members' = IF CanAdd(req[p].role, req[p].users)
                THEN members \cup ({req[p].role} \X req[p].users) ELSE members
  /\ Goto(p, "confirm")
  /\ UNCHANGED <<roles, invitations, drawn, history>>

\* RoleAddMembers of AcceptInvitation.
AddInvitee(p) ==
  /\ At(p, "AcceptInvitation", "write")
  /\ IF CanAdd(req[p].role, req[p].users)
     THEN members' = members \cup ({req[p].role} \X req[p].users) /\ Goto(p, "confirm")
     ELSE Finish(p) /\ UNCHANGED members
  /\ UNCHANGED <<roles, invitations, drawn, history>>

\* UpdateConfirmation and UpdateRejection change the row of the user, if there
\* is one, whatever it says by now.
UpdateConfirmation(p) ==
  /\ At(p, "AcceptInvitation", "confirm")
  /\ invitations' = [u \in Users |-> IF u \in req[p].users /\ Invited(u)
                                     THEN [invitations[u] EXCEPT !.confirmed = TRUE]
                                     ELSE invitations[u]]
  /\ Finish(p)
  /\ UNCHANGED <<roles, members, drawn, history>>

UpdateRejection(p) ==
  /\ At(p, "RejectInvitation", "write") \/ At(p, "ResendInvitation", "write")
  /\ invitations' = [u \in Users |-> IF u \in req[p].users /\ Invited(u)
                                     THEN [invitations[u] EXCEPT !.rejected = req[p].op = "RejectInvitation"]
                                     ELSE invitations[u]]
  /\ Finish(p)
  /\ UNCHANGED <<roles, members, drawn, history>>

DeleteUsersInvitations(p) ==
  /\ At(p, "DeleteInvitation", "write")
  /\ Purge(req[p].users)
  /\ Finish(p)

-----------------------------------------------------------------------------
(* Members. *)

\* Mutant: off by one.
RetainsNone(r, U) == BuiltIn(r) => Cardinality(MembersOf(r)) >= Cardinality(U)

\* Total of RoleListMembers against the length of the list, whoever is on it.
RetainsOne(r, U) == BuiltIn(r) => Cardinality(MembersOf(r)) > Cardinality(U)

RoleRemoveMembers(p, r, U) ==
  /\ roles[r] # None /\ U # {}
  /\ RetainsOne(r, U)
  /\ Begin(p, "RoleRemoveMembers", U, r)

\* The invitations go first.
PurgeInvitations(p) ==
  /\ At(p, "RoleRemoveMembers", "write")
  /\ Purge(req[p].users)
  /\ Goto(p, "remove")

RoleRemoveAllMembers(p, r) ==
  /\ roles[r] # None /\ ~BuiltIn(r)
  /\ Begin(p, "RoleRemoveAllMembers", Users, r)

\* Both of the role manager; RoleRemoveAllMembers leaves the invitations.
RemoveMembers(p) ==
  /\ At(p, "RoleRemoveMembers", "remove") \/ At(p, "RoleRemoveAllMembers", "write")
  /\ members' = members \ ({req[p].role} \X req[p].users)
  /\ loose' = IF req[p].op = "RoleRemoveAllMembers" THEN loose \cup MembersOf(req[p].role) ELSE loose
  /\ Finish(p)
  /\ UNCHANGED <<roles, invitations, drawn, crowded>>

\* RemoveEntityMembers deletes the invitations; the role manager's part of it
\* does nothing in the repository.
RemoveEntityMembers(U) ==
  /\ Purge(U)
  /\ UNCHANGED req

RoleAddMembers(r, U) ==
  /\ U # {} /\ CanAdd(r, U)
  /\ members' = members \cup ({r} \X U)
  /\ UNCHANGED <<roles, invitations, req, drawn, history>>

-----------------------------------------------------------------------------
(* Roles, as the role manager does it for every entity. *)

Free(n) == \A s \in RoleIDs : roles[s] # n

AddRole(r, n, U) ==
  /\ r \notin drawn /\ Free(n)
  /\ drawn' = drawn \cup {r}
  /\ \A x \in members : x[2] \notin U
  /\ roles' = [roles EXCEPT ![r] = n]
  /\ members' = members \cup ({r} \X U)
  /\ UNCHANGED <<invitations, req, history>>

UpdateRoleName(r, n) ==
  /\ roles[r] # None /\ Free(n)
  /\ roles' = [roles EXCEPT ![r] = n]
  /\ crowded' = crowded \cup {s \in {r} : \E o \in Requests : Removing(o, s)}
  /\ UNCHANGED <<members, invitations, req, drawn, loose>>

\* Mutant: the rows of the members stay.
RemoveRoleOnly(r) ==
  /\ roles[r] # None
  /\ roles' = [roles EXCEPT ![r] = None]
  /\ loose' = loose \cup MembersOf(r)
  /\ UNCHANGED <<members, invitations, req, drawn, crowded>>

\* The rows of the members go with the role, their invitations stay.
RemoveRole(r) ==
  /\ roles[r] # None
  /\ roles' = [roles EXCEPT ![r] = None]
  /\ members' = {x \in members : x[1] # r}
  /\ loose' = loose \cup MembersOf(r)
  /\ UNCHANGED <<invitations, req, drawn, crowded>>

-----------------------------------------------------------------------------
\* A call fails or the service stops; nothing is compensated.
Stop(p) ==
  /\ req[p] # Idle
  /\ Finish(p)
  /\ UNCHANGED <<roles, members, invitations, drawn, history>>

Start(p) ==
  \/ \E u \in Users : \/ AcceptInvitation(p, u) \/ RejectInvitation(p, u)
                      \/ ResendInvitation(p, u) \/ DeleteInvitation(p, u)
  \/ \E r \in RoleIDs : \/ \E U \in SUBSET Users : RoleRemoveMembers(p, r, U)
                        \/ RoleRemoveAllMembers(p, r)

Step(p) == \/ AddInvitee(p) \/ UpdateConfirmation(p) \/ UpdateRejection(p)
           \/ DeleteUsersInvitations(p) \/ PurgeInvitations(p) \/ RemoveMembers(p)

AtOnce ==
  \/ \E u \in Users : DeleteOwnInvitation(u) \/ \E r \in RoleIDs : SendInvitation(u, r)
  \/ \E U \in SUBSET Users : \/ RemoveEntityMembers(U)
                             \/ \E r \in RoleIDs : \/ RoleAddMembers(r, U)
                                                   \/ \E n \in Names : AddRole(r, n, U)
  \/ \E r \in RoleIDs : RemoveRole(r) \/ \E n \in Names : UpdateRoleName(r, n)

ReliableNext == (\E p \in Requests : Start(p) \/ Step(p)) \/ AtOnce
ReliableSpec == Init /\ [][ReliableNext]_vars

Next == ReliableNext \/ \E p \in Requests : Stop(p)
Spec == Init /\ [][Next]_vars

-----------------------------------------------------------------------------
(* Properties. *)

\* An invitation that says accepted belongs to a member of the domain: no
\* removal of single members, failure or repetition leaves a user who is not in
\* the domain and cannot be invited to it.  Excepted are users whose
\* AcceptInvitation overlapped another request on them, or whose role was
\* removed or emptied as a whole, until their invitation is deleted.
AcceptedIsMember ==
  \A u \in Users \ loose :
    Invited(u) /\ invitations[u].confirmed => \E r \in RoleIDs : <<r, u>> \in members

\* An invitation is not both accepted and rejected unless the invitee gave both
\* answers at the same time.
AnsweredOnce ==
  \A u \in Users \ loose : Invited(u) => ~(invitations[u].confirmed /\ invitations[u].rejected)

Emptied(r) == BuiltIn(r) /\ MembersOf(r) # {} /\ MembersOf(r)' = {} /\ roles'[r] # None

\* RoleRemoveMembers and RoleRemoveAllMembers never take the last member of the
\* built-in role, if the role was not renamed and no other removal of members
\* began on it meanwhile.
LastMemberStays == [][\A r \in RoleIDs : Emptied(r) => r \in crowded]_vars

\* "ErrRetainOneMember indicates that at least one owner must be retained in
\* the entity" (pkg/errors/service/types.go:109): members are not removed from
\* the built-in role until nobody is left.
RetainOneMember == [][\A r \in RoleIDs : ~Emptied(r)]_vars
=============================================================================
