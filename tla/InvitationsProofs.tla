------------------------- MODULE InvitationsProofs --------------------------
(* Theorems about the members of a domain and their invitations, for any      *)
(* number of users, roles and handlers in flight.                             *)
EXTENDS Invitations, FiniteSetTheorems, TLAPS

\* The provers a leaf is tried with, in this order.
USE SMT, Zenon, SMTT(20), SMTT(30)

\* What a handler in flight has read, operation by operation.
Shape(q) ==
  \/ q = Idle
  \/ q.op = "AcceptInvitation" /\ q.pc \in {"write", "confirm"} /\ q.role \in drawn
  \/ /\ q.op \in {"RejectInvitation", "ResendInvitation", "DeleteInvitation"} /\ q.pc = "write"
     /\ q.role = None
  \/ q.op = "RoleRemoveMembers" /\ q.pc \in {"write", "remove"} /\ q.role \in drawn
  \/ q.op = "RoleRemoveAllMembers" /\ q.pc = "write" /\ q.role \in drawn

Handler == [op : Ops, pc : {"write", "confirm", "remove"}, users : SUBSET Users,
            role : RoleIDs \cup {None}] \cup {Idle}

\* A role of the domain and a role a row or a handler names was handed out.
Typed == /\ TypeOK
         /\ \A p \in Requests : Shape(req[p])
         /\ \A r \in RoleIDs : roles[r] # None => r \in drawn
         /\ \A u \in Users : Invited(u) => invitations[u].role \in drawn

Joined(u)   == \E r \in RoleIDs : <<r, u>> \in members
Accepted(u) == Invited(u) /\ invitations[u].confirmed

\* An AcceptInvitation that meets another handler on its user has marked the
\* user, and a removal that meets another one has marked the role.
OverlapsMarked ==
  \A p, o \in Requests : \A u \in Users :
    p # o /\ Accepting(p, u) /\ u \in req[o].users => u \in loose
RemovalsMarked ==
  \A p, o \in Requests : \A r \in RoleIDs :
    p # o /\ Removing(p, r) /\ Removing(o, r) => r \in crowded

\* The user of an invitation that is about to be marked has joined.
ConfirmedJoined ==
  \A p \in Requests : At(p, "AcceptInvitation", "confirm") =>
    \A u \in req[p].users \ loose : Joined(u)

\* A member that is about to be removed has no accepted invitation.
RemovedPurged ==
  \A p \in Requests : At(p, "RoleRemoveMembers", "remove") =>
    \A u \in req[p].users \ loose : ~Accepted(u)

\* What a handler has read of the answer still holds.
AnswersStand ==
  \A p \in Requests : \A u \in req[p].users \ loose : Invited(u) =>
    /\ req[p].op = "AcceptInvitation" => ~invitations[u].rejected
    /\ req[p].op = "RejectInvitation" => ~invitations[u].confirmed

\* So does what a removal has counted.
OneRetained ==
  \A p \in Requests : \A r \in RoleIDs \ crowded : Removing(p, r) /\ BuiltIn(r) =>
    /\ req[p].op = "RoleRemoveMembers"
    /\ Cardinality(MembersOf(r)) > Cardinality(req[p].users)

InvitationsInv ==
  /\ Typed /\ OverlapsMarked /\ RemovalsMarked /\ ConfirmedJoined /\ RemovedPurged
  /\ AnswersStand /\ OneRetained /\ AcceptedIsMember /\ AnsweredOnce

Becomes(p, q) == req' = [req EXCEPT ![p] = q]

\* Only the handler that takes a step changes.
LEMMA BecomesFacts ==
  ASSUME InvitationsInv, NEW p \in Requests, NEW q, Becomes(p, q)
  PROVE  /\ req'[p] = q /\ \A o \in Requests \ {p} : req'[o] = req[o]
         /\ q \in Handler => (req \in [Requests -> Handler])'
         /\ req \in [Requests -> Handler]
  BY DEF InvitationsInv, Typed, TypeOK, Becomes, Handler

\* A handler slot that is free works on no user and removes nobody.
LEMMA IdleFacts ==
  /\ Idle.op = "idle" /\ Idle.users = {} /\ Idle.op \notin Removals /\ Idle \in Handler
  /\ Shape(Idle) /\ Shape(Idle)'
  BY DEF Idle, Removals, Handler, Shape

\* The start of a handler keeps the invariant, if what it has read is true.
LEMMA BeginInv ==
  ASSUME InvitationsInv, NEW p \in Requests, NEW op \in Ops, NEW U \in SUBSET Users,
         NEW r \in RoleIDs \cup {None}, Begin(p, op, U, r),
         Shape([op |-> op, pc |-> "write", users |-> U, role |-> r]),
         op = "AcceptInvitation" => \A u \in U : Invited(u) => ~invitations[u].rejected,
         op = "RejectInvitation" => \A u \in U : Invited(u) => ~invitations[u].confirmed,
         op \in Removals /\ BuiltIn(r) =>
           op = "RoleRemoveMembers" /\ Cardinality(MembersOf(r)) > Cardinality(U)
  PROVE  InvitationsInv'
<1> DEFINE q == [op |-> op, pc |-> "write", users |-> U, role |-> r]
<1>1. /\ req[p] = Idle /\ Becomes(p, q)
      /\ loose' = loose \cup {u \in U : \E o \in Requests \ {p} :
                                \/ Accepting(o, u)
                                \/ op = "AcceptInvitation" /\ u \in req[o].users}
      /\ crowded' = crowded \cup {s \in {r} : op \in Removals /\ \E o \in Requests \ {p} : Removing(o, s)}
      /\ UNCHANGED <<roles, members, invitations, drawn>>
  BY DEF Begin, Becomes
<1>2. /\ q \in Handler /\ q.op = op /\ q.pc = "write" /\ q.users = U /\ q.role = r /\ Shape(q)
  BY DEF Handler
<1> HIDE DEF q
<1>3. /\ req'[p] = q /\ \A o \in Requests \ {p} : req'[o] = req[o]
      /\ (req \in [Requests -> Handler])'
  BY <1>1, <1>2, BecomesFacts
<1>4. Typed'
  <2>1. op \in Removals => r \in RoleIDs
    BY <1>2 DEF Shape, Removals, Idle, InvitationsInv, Typed, TypeOK
  <2>2. loose \subseteq Users /\ crowded \subseteq RoleIDs
    BY DEF InvitationsInv, Typed, TypeOK
  <2>3. loose' \subseteq Users /\ crowded' \subseteq RoleIDs
    BY <1>1, <2>1, <2>2
  <2>4. TypeOK'
    BY <1>1, <1>3, <2>3 DEF InvitationsInv, Typed, TypeOK, Handler
  <2>5. \A o \in Requests : Shape(req[o])'
    BY <1>1, <1>2, <1>3 DEF InvitationsInv, Typed, Shape
  <2> QED BY <1>1, <2>4, <2>5 DEF InvitationsInv, Typed, Invited
<1>5. OverlapsMarked'
  BY <1>1, <1>2, <1>3 DEF InvitationsInv, OverlapsMarked, Accepting
<1>6. RemovalsMarked'
  BY <1>1, <1>2, <1>3 DEF InvitationsInv, RemovalsMarked, Removing
<1>7. ConfirmedJoined' /\ RemovedPurged'
  BY <1>1, <1>2, <1>3 DEF InvitationsInv, ConfirmedJoined, RemovedPurged, At, Joined, Accepted, Invited
<1>8. AnswersStand'
  BY <1>1, <1>2, <1>3 DEF InvitationsInv, AnswersStand, Invited
<1>9. OneRetained'
  <2> SUFFICES ASSUME NEW o \in Requests, NEW s \in RoleIDs, s \notin crowded',
                      req'[o].op \in Removals, req'[o].role = s, roles[s] = Admin
               PROVE  /\ req'[o].op = "RoleRemoveMembers"
                      /\ Cardinality(MembersOf(s)) > Cardinality(req'[o].users)
    BY <1>1 DEF OneRetained, Removing, BuiltIn, MembersOf
  <2>1. CASE o = p
    BY <1>2, <1>3, <2>1 DEF BuiltIn
  <2>2. CASE o # p
    BY <1>1, <1>3, <2>2 DEF InvitationsInv, OneRetained, Removing, BuiltIn
  <2> QED BY <2>1, <2>2
<1>10. AcceptedIsMember' /\ AnsweredOnce'
  BY <1>1 DEF InvitationsInv, AcceptedIsMember, AnsweredOnce, Invited
<1> QED BY <1>4, <1>5, <1>6, <1>7, <1>8, <1>9, <1>10 DEF InvitationsInv

\* Handlers that begin with a read of an invitation.
LEMMA ReadInvitationInv ==
  ASSUME InvitationsInv, NEW p \in Requests, NEW u \in Users,
         \/ AcceptInvitation(p, u) \/ RejectInvitation(p, u)
         \/ ResendInvitation(p, u) \/ DeleteInvitation(p, u)
  PROVE  InvitationsInv'
<1>1. invitations[u] # None => invitations[u] \in Invitation /\ invitations[u].role \in drawn
  BY DEF InvitationsInv, Typed, TypeOK, Invited
<1>2. drawn \subseteq RoleIDs
  BY DEF InvitationsInv, Typed, TypeOK
<1>3. CASE AcceptInvitation(p, u)
  <2>1. PICK r : r = invitations[u].role
    OBVIOUS
  <2>2. r \in RoleIDs /\ r \in drawn /\ Invited(u) /\ ~invitations[u].rejected
    BY <1>1, <1>2, <1>3, <2>1 DEF AcceptInvitation, Pending, Invited
  <2>3. Begin(p, "AcceptInvitation", {u}, r)
    BY <1>3, <2>1 DEF AcceptInvitation
  <2>4. Shape([op |-> "AcceptInvitation", pc |-> "write", users |-> {u}, role |-> r])
    BY <2>2 DEF Shape
  <2> QED BY <2>2, <2>3, <2>4, BeginInv DEF Ops, Removals
<1>4. CASE RejectInvitation(p, u)
  <2>1. ~invitations[u].confirmed /\ Begin(p, "RejectInvitation", {u}, None)
    BY <1>4 DEF RejectInvitation, Pending
  <2>2. Shape([op |-> "RejectInvitation", pc |-> "write", users |-> {u}, role |-> None])
    BY DEF Shape
  <2> QED BY <2>1, <2>2, BeginInv DEF Ops, Removals
<1>5. CASE ResendInvitation(p, u)
  <2>1. Begin(p, "ResendInvitation", {u}, None)
    BY <1>5 DEF ResendInvitation
  <2>2. Shape([op |-> "ResendInvitation", pc |-> "write", users |-> {u}, role |-> None])
    BY DEF Shape
  <2> QED BY <2>1, <2>2, BeginInv DEF Ops, Removals
<1>6. CASE DeleteInvitation(p, u)
  <2>1. Begin(p, "DeleteInvitation", {u}, None)
    BY <1>6 DEF DeleteInvitation
  <2>2. Shape([op |-> "DeleteInvitation", pc |-> "write", users |-> {u}, role |-> None])
    BY DEF Shape
  <2> QED BY <2>1, <2>2, BeginInv DEF Ops, Removals
<1> QED BY <1>3, <1>4, <1>5, <1>6

\* Handlers that begin with a count of the members.
LEMMA StartRemovalInv ==
  ASSUME InvitationsInv, NEW p \in Requests, NEW r \in RoleIDs, NEW U \in SUBSET Users,
         RoleRemoveMembers(p, r, U) \/ RoleRemoveAllMembers(p, r)
  PROVE  InvitationsInv'
<1>1. r \in drawn
  BY DEF InvitationsInv, Typed, RoleRemoveMembers, RoleRemoveAllMembers
<1>2. CASE RoleRemoveMembers(p, r, U)
  <2>1. /\ Begin(p, "RoleRemoveMembers", U, r)
        /\ BuiltIn(r) => Cardinality(MembersOf(r)) > Cardinality(U)
    BY <1>2 DEF RoleRemoveMembers, RetainsOne
  <2>2. Shape([op |-> "RoleRemoveMembers", pc |-> "write", users |-> U, role |-> r])
    BY <1>1 DEF Shape
  <2> QED BY <2>1, <2>2, BeginInv DEF Ops
<1>3. CASE RoleRemoveAllMembers(p, r)
  <2>1. Begin(p, "RoleRemoveAllMembers", Users, r) /\ ~BuiltIn(r)
    BY <1>3 DEF RoleRemoveAllMembers
  <2>2. Shape([op |-> "RoleRemoveAllMembers", pc |-> "write", users |-> Users, role |-> r])
    BY <1>1 DEF Shape
  <2> QED BY <2>1, <2>2, BeginInv DEF Ops
<1> QED BY <1>2, <1>3

\* What a purge leaves of a handler: it stays, it is done, or it is a removal
\* that has purged the invitations of its users.
Purged(o, U) ==
  \/ req'[o] = req[o]
  \/ req'[o] = Idle
  \/ /\ req[o].op = "RoleRemoveMembers" /\ req'[o].op = req[o].op /\ req'[o].pc = "remove"
     /\ req'[o].users = req[o].users /\ req'[o].role = req[o].role
     /\ req[o].users \subseteq U

\* A purge leaves no invitation that could contradict anything.
LEMMA PurgeInv ==
  ASSUME InvitationsInv, NEW U \in SUBSET Users, Purge(U), (req \in [Requests -> Handler])',
         \A o \in Requests : Shape(req[o])', \A o \in Requests : Purged(o, U)
  PROVE  InvitationsInv'
<1>1. /\ invitations' = [u \in Users |-> IF u \in U THEN None ELSE invitations[u]]
      /\ loose' = loose \ {u \in U : \A o \in Requests : ~Accepting(o, u)}
      /\ UNCHANGED <<roles, members, drawn, crowded>>
  BY DEF Purge
<1>2. \A u \in Users : /\ u \in U => ~Invited(u)'
                       /\ u \notin U => invitations'[u] = invitations[u]
  BY <1>1 DEF Invited
<1>3. \A o \in Requests : \A u \in Users : Accepting(o, u)' => Accepting(o, u)
  BY IdleFacts DEF Accepting, Purged
<1>4. \A u \in Users : u \notin U \/ (\E o \in Requests : Accepting(o, u)) => (u \in loose' <=> u \in loose)
  BY <1>1
<1>5. Typed'
  BY <1>1 DEF InvitationsInv, Typed, TypeOK, Invited, Handler
<1>6. OverlapsMarked'
  <2> SUFFICES ASSUME NEW p \in Requests, NEW o \in Requests, NEW u \in Users, p # o,
                      Accepting(p, u)', u \in req'[o].users
               PROVE  u \in loose'
    BY DEF OverlapsMarked
  <2>1. Accepting(p, u) /\ u \in req[o].users
    BY <1>3, IdleFacts DEF Purged
  <2> QED BY <1>4, <2>1 DEF InvitationsInv, OverlapsMarked
<1>7. RemovalsMarked'
  BY <1>1, IdleFacts DEF InvitationsInv, RemovalsMarked, Removing, Purged
<1>8. ConfirmedJoined'
  <2> SUFFICES ASSUME NEW p \in Requests, At(p, "AcceptInvitation", "confirm")',
                      NEW u \in req'[p].users, u \notin loose'
               PROVE  Joined(u)
    BY <1>1 DEF ConfirmedJoined, Joined
  <2>1. req'[p] = req[p]
    BY IdleFacts DEF Purged, At
  <2>2. u \in Users /\ Accepting(p, u) /\ At(p, "AcceptInvitation", "confirm")
    BY <2>1, IdleFacts DEF At, Accepting, Handler
  <2> QED BY <1>4, <2>1, <2>2 DEF InvitationsInv, ConfirmedJoined
<1>9. RemovedPurged'
  <2> SUFFICES ASSUME NEW p \in Requests, At(p, "RoleRemoveMembers", "remove")',
                      NEW u \in req'[p].users, u \notin loose'
               PROVE  ~Accepted(u)'
    BY DEF RemovedPurged
  <2>1. u \in Users
    BY IdleFacts DEF Handler
  <2>2. CASE u \in U
    BY <1>2, <2>1, <2>2 DEF Accepted
  <2>3. CASE u \notin U
    <3>1. req'[p] = req[p] /\ u \notin loose
      BY <1>4, <2>1, <2>3, IdleFacts DEF Purged, At
    <3>2. ~Accepted(u)
      BY <3>1 DEF InvitationsInv, RemovedPurged, At
    <3> QED BY <1>2, <2>1, <2>3, <3>2 DEF Accepted, Invited
  <2> QED BY <2>2, <2>3
<1>10. AnswersStand'
  <2> SUFFICES ASSUME NEW p \in Requests, NEW u \in req'[p].users, u \notin loose', Invited(u)'
               PROVE  /\ req'[p].op = "AcceptInvitation" => ~invitations'[u].rejected
                      /\ req'[p].op = "RejectInvitation" => ~invitations'[u].confirmed
    BY DEF AnswersStand
  <2>1. u \in Users
    BY IdleFacts DEF Handler
  <2>2. u \notin U /\ invitations'[u] = invitations[u] /\ Invited(u) /\ u \notin loose
    BY <1>2, <1>4, <2>1 DEF Invited
  <2>3. u \in req[p].users /\ (req'[p].op = req[p].op \/ req'[p].op = "idle")
    BY IdleFacts DEF Purged
  <2> QED BY <2>2, <2>3 DEF InvitationsInv, AnswersStand
<1>11. OneRetained'
  <2> SUFFICES ASSUME NEW p \in Requests, NEW r \in RoleIDs \ crowded, Removing(p, r)', BuiltIn(r)
               PROVE  /\ req'[p].op = "RoleRemoveMembers"
                      /\ Cardinality(MembersOf(r)) > Cardinality(req'[p].users)
    BY <1>1 DEF OneRetained, BuiltIn, MembersOf
  <2>1. Removing(p, r) /\ req'[p].op = req[p].op /\ req'[p].users = req[p].users
    BY IdleFacts DEF Purged, Removing
  <2> QED BY <2>1 DEF InvitationsInv, OneRetained
<1>12. AcceptedIsMember'
  BY <1>1, <1>2, <1>4 DEF InvitationsInv, AcceptedIsMember, Invited
<1>13. AnsweredOnce'
  BY <1>1, <1>2, <1>4 DEF InvitationsInv, AnsweredOnce, Invited
<1> QED BY <1>5, <1>6, <1>7, <1>8, <1>9, <1>10, <1>11, <1>12, <1>13 DEF InvitationsInv

\* The purge of a removal, of a deletion, and those without a handler.
LEMMA PurgesInv ==
  ASSUME InvitationsInv,
         \/ \E p \in Requests : PurgeInvitations(p) \/ DeleteUsersInvitations(p)
         \/ \E u \in Users : DeleteOwnInvitation(u)
         \/ \E U \in SUBSET Users : RemoveEntityMembers(U)
  PROVE  InvitationsInv'
<1>1. /\ req \in [Requests -> Handler] /\ \A o \in Requests : Shape(req[o])
  BY DEF InvitationsInv, Typed, TypeOK, Handler
<1>2. ASSUME NEW U \in SUBSET Users, Purge(U), UNCHANGED req
      PROVE  InvitationsInv'
  <2>1. \A o \in Requests : Purged(o, U) /\ Shape(req[o])'
    BY <1>1, <1>2 DEF Purged, Shape, Purge
  <2> QED BY <1>1, <1>2, <2>1, PurgeInv
<1>3. ASSUME NEW p \in Requests, DeleteUsersInvitations(p)
      PROVE  InvitationsInv'
  <2>1. PICK U \in SUBSET Users : U = req[p].users
    BY <1>1, IdleFacts DEF Handler
  <2>2. Purge(U) /\ Becomes(p, Idle) /\ UNCHANGED drawn
    BY <1>3, <2>1 DEF DeleteUsersInvitations, Finish, Becomes, Purge
  <2>3. (req \in [Requests -> Handler])' /\ \A o \in Requests : Purged(o, U)
    BY <2>2, BecomesFacts, IdleFacts DEF Purged
  <2>4. \A o \in Requests : Shape(req[o])'
    BY <1>1, <2>2, BecomesFacts, IdleFacts DEF Shape
  <2> QED BY <2>2, <2>3, <2>4, PurgeInv
<1>4. ASSUME NEW p \in Requests, PurgeInvitations(p)
      PROVE  InvitationsInv'
  <2>1. PICK U \in SUBSET Users : U = req[p].users
    BY <1>1, IdleFacts DEF Handler
  <2>2. PICK q : q = [req[p] EXCEPT !.pc = "remove"]
    OBVIOUS
  <2>3. Purge(U) /\ Becomes(p, q) /\ UNCHANGED drawn /\ req[p].op = "RoleRemoveMembers"
    BY <1>4, <2>1, <2>2 DEF PurgeInvitations, Goto, Becomes, Purge, At
  <2>4. req[p] \in Handler \ {Idle} /\ Shape(req[p])
    BY <1>1, <2>3, IdleFacts
  <2>5. /\ q \in Handler /\ q.op = "RoleRemoveMembers" /\ q.pc = "remove" /\ q.users = U
        /\ q.role = req[p].role /\ q.role \in drawn
    BY <2>1, <2>2, <2>3, <2>4 DEF Handler, Shape
  <2>6. (req \in [Requests -> Handler])' /\ \A o \in Requests : Purged(o, U)
    BY <2>1, <2>3, <2>5, BecomesFacts DEF Purged
  <2>7. \A o \in Requests : Shape(req[o])'
    BY <1>1, <2>3, <2>5, BecomesFacts DEF Shape
  <2> QED BY <2>3, <2>6, <2>7, PurgeInv
<1> QED BY <1>2, <1>3, <1>4 DEF DeleteOwnInvitation, RemoveEntityMembers

\* A handler that stops holds nothing that another one relies on.
LEMMA FinishInv ==
  ASSUME InvitationsInv, NEW p \in Requests, Finish(p),
         UNCHANGED <<roles, members, invitations, drawn, loose, crowded>>
  PROVE  InvitationsInv'
<1>1. /\ req'[p] = Idle /\ \A o \in Requests \ {p} : req'[o] = req[o]
      /\ (req \in [Requests -> Handler])'
  BY BecomesFacts, IdleFacts DEF Finish, Becomes
<1>2. Typed'
  <2>1. TypeOK'
    BY <1>1 DEF InvitationsInv, Typed, TypeOK, Handler
  <2>2. \A o \in Requests : Shape(req[o])'
    BY <1>1, IdleFacts DEF InvitationsInv, Typed, Shape
  <2> QED BY <2>1, <2>2 DEF InvitationsInv, Typed, Invited
<1>3. OverlapsMarked' /\ RemovalsMarked'
  BY <1>1, IdleFacts DEF InvitationsInv, OverlapsMarked, RemovalsMarked, Accepting, Removing
<1>4. ConfirmedJoined' /\ RemovedPurged' /\ AnswersStand'
  BY <1>1, IdleFacts DEF InvitationsInv, ConfirmedJoined, RemovedPurged, AnswersStand, At, Joined,
                         Accepted, Invited
<1>5. OneRetained'
  BY <1>1, IdleFacts DEF InvitationsInv, OneRetained, Removing, BuiltIn, MembersOf
<1>6. AcceptedIsMember' /\ AnsweredOnce'
  BY DEF InvitationsInv, AcceptedIsMember, AnsweredOnce, Invited
<1> QED BY <1>2, <1>3, <1>4, <1>5, <1>6 DEF InvitationsInv

\* The members of a role are finitely many, and no fewer once there are more rows.
LEMMA MembersCounted ==
  ASSUME NEW r \in RoleIDs
  PROVE  /\ IsFiniteSet(MembersOf(r)) /\ Cardinality(MembersOf(r)) \in Nat
         /\ members \subseteq members' => Cardinality(MembersOf(r)') >= Cardinality(MembersOf(r))
<1>1. IsFiniteSet(MembersOf(r)) /\ IsFiniteSet(MembersOf(r)')
  BY FS_Subset, InvitationsAssumption DEF MembersOf
<1>2. Cardinality(MembersOf(r)) \in Nat /\ Cardinality(MembersOf(r)') \in Nat
  BY <1>1, FS_CardinalityType
<1>3. members \subseteq members' => MembersOf(r) \subseteq MembersOf(r)'
  BY DEF MembersOf
<1> QED BY <1>1, <1>2, <1>3, FS_Subset

\* New rows of members, of roles that are there or new, disturb no handler.
LEMMA MembersGrow ==
  ASSUME InvitationsInv, members \subseteq members',
         members' \subseteq {x \in RoleIDs \X Users : roles'[x[1]] # None},
         roles' \in [RoleIDs -> Names \cup {None}],
         \A r \in RoleIDs : roles'[r] = roles[r] \/ (r \notin drawn /\ r \in drawn'),
         drawn \subseteq drawn', drawn' \subseteq RoleIDs,
         UNCHANGED <<req, invitations, loose, crowded>>
  PROVE  InvitationsInv'
<1>1. Typed'
  <2>1. TypeOK'
    BY DEF InvitationsInv, Typed, TypeOK
  <2>2. \A o \in Requests : Shape(req[o])'
    BY DEF InvitationsInv, Typed, Shape
  <2>3. /\ \A r \in RoleIDs : roles'[r] # None => r \in drawn'
        /\ \A u \in Users : Invited(u)' => invitations'[u].role \in drawn'
    BY DEF InvitationsInv, Typed, Invited
  <2> QED BY <2>1, <2>2, <2>3 DEF Typed
<1>2. OverlapsMarked' /\ RemovalsMarked' /\ RemovedPurged' /\ AnswersStand' /\ AnsweredOnce'
  BY DEF InvitationsInv, OverlapsMarked, RemovalsMarked, RemovedPurged, AnswersStand, AnsweredOnce,
         Accepting, Removing, At, Accepted, Invited
<1>3. ConfirmedJoined' /\ AcceptedIsMember'
  BY DEF InvitationsInv, ConfirmedJoined, AcceptedIsMember, At, Joined, Invited
<1>4. OneRetained'
  <2> SUFFICES ASSUME NEW p \in Requests, NEW r \in RoleIDs \ crowded, Removing(p, r), BuiltIn(r)'
               PROVE  /\ req[p].op = "RoleRemoveMembers"
                      /\ Cardinality(MembersOf(r)') > Cardinality(req[p].users)
    BY DEF OneRetained, Removing
  <2>1. req[p] # Idle /\ Shape(req[p]) /\ req[p].op \in Removals /\ req[p].role = r
    BY IdleFacts DEF InvitationsInv, Typed, Removing
  <2>2. r \in drawn
    BY <2>1 DEF Shape, Removals
  <2>3. BuiltIn(r)
    BY <2>2 DEF BuiltIn
  <2>4. req[p].op = "RoleRemoveMembers" /\ Cardinality(MembersOf(r)) > Cardinality(req[p].users)
    BY <2>3 DEF InvitationsInv, OneRetained
  <2>5. req[p].users \in SUBSET Users
    BY <2>1 DEF InvitationsInv, Typed, TypeOK
  <2>6. Cardinality(req[p].users) \in Nat /\ Cardinality(MembersOf(r)') \in Nat
    BY <2>5, FS_Subset, FS_CardinalityType, InvitationsAssumption DEF MembersOf
  <2> QED BY <2>4, <2>6, MembersCounted
<1> QED BY <1>1, <1>2, <1>3, <1>4 DEF InvitationsInv

\* Adding members to a role that is there makes nobody leave.
LEMMA RoleAddMembersInv ==
  ASSUME InvitationsInv, NEW r \in RoleIDs, NEW U \in SUBSET Users, RoleAddMembers(r, U)
  PROVE  InvitationsInv'
<1>1. /\ roles[r] # None /\ members' = members \cup ({r} \X U)
      /\ UNCHANGED <<roles, req, invitations, drawn, loose, crowded>>
  BY DEF RoleAddMembers, CanAdd, history
<1>2. TypeOK
  BY DEF InvitationsInv, Typed
<1>3. members' \subseteq {x \in RoleIDs \X Users : roles'[x[1]] # None}
  BY <1>1, <1>2 DEF TypeOK
<1> QED BY <1>1, <1>2, <1>3, MembersGrow DEF TypeOK

\* A role is added under an ID that no row and no handler names.
LEMMA AddRoleInv ==
  ASSUME InvitationsInv, NEW r \in RoleIDs, NEW n \in Names, NEW U \in SUBSET Users, AddRole(r, n, U)
  PROVE  InvitationsInv'
<1>1. /\ r \notin drawn /\ drawn' = drawn \cup {r} /\ roles' = [roles EXCEPT ![r] = n]
      /\ members' = members \cup ({r} \X U)
      /\ UNCHANGED <<req, invitations, loose, crowded>>
  BY DEF AddRole, history
<1>2. TypeOK
  BY DEF InvitationsInv, Typed
<1>3. /\ roles' \in [RoleIDs -> Names \cup {None}] /\ roles'[r] = n /\ n # None
      /\ \A s \in RoleIDs \ {r} : roles'[s] = roles[s]
  BY <1>1, <1>2, InvitationsAssumption DEF TypeOK
<1>4. members' \subseteq {x \in RoleIDs \X Users : roles'[x[1]] # None}
  BY <1>1, <1>2, <1>3 DEF TypeOK
<1>5. drawn' \subseteq RoleIDs
  BY <1>1, <1>2 DEF TypeOK
<1> QED BY <1>1, <1>3, <1>4, <1>5, MembersGrow

\* RoleAddMembers of AcceptInvitation: the user has joined.
LEMMA AddInviteeInv ==
  ASSUME InvitationsInv, NEW p \in Requests, AddInvitee(p)
  PROVE  InvitationsInv'
<1>1. /\ req[p].op = "AcceptInvitation" /\ req[p] # Idle
      /\ UNCHANGED <<roles, invitations, drawn, loose, crowded>>
  BY IdleFacts DEF AddInvitee, At, history
<1>2. CASE ~CanAdd(req[p].role, req[p].users)
  BY <1>1, <1>2, FinishInv DEF AddInvitee
<1>3. CASE CanAdd(req[p].role, req[p].users)
  <2>1. PICK q : q = [req[p] EXCEPT !.pc = "confirm"]
    OBVIOUS
  <2>2. /\ members' = members \cup ({req[p].role} \X req[p].users) /\ Becomes(p, q)
        /\ roles[req[p].role] # None
    BY <1>3, <2>1 DEF AddInvitee, CanAdd, Goto, Becomes
  <2>3. TypeOK /\ req[p] \in Handler \ {Idle} /\ Shape(req[p])
    BY <1>1 DEF InvitationsInv, Typed, TypeOK, Handler
  <2>4. /\ q \in Handler /\ q.op = "AcceptInvitation" /\ q.pc = "confirm"
        /\ q.users = req[p].users /\ q.role = req[p].role /\ q.role \in drawn /\ q.role \in RoleIDs
        /\ q.users \in SUBSET Users
    BY <1>1, <2>1, <2>3 DEF Handler, Shape, TypeOK
  <2>5. /\ req'[p] = q /\ \A o \in Requests \ {p} : req'[o] = req[o]
        /\ (req \in [Requests -> Handler])'
    BY <2>2, <2>4, BecomesFacts
  <2>6. /\ members \subseteq members' /\ \A u \in q.users : <<q.role, u>> \in members'
        /\ members' \subseteq {x \in RoleIDs \X Users : roles[x[1]] # None}
    BY <2>2, <2>3, <2>4 DEF TypeOK
  <2>7. Typed'
    <3>1. TypeOK'
      BY <1>1, <2>3, <2>5, <2>6 DEF TypeOK, Handler
    <3>2. \A o \in Requests : Shape(req[o])'
      BY <1>1, <2>4, <2>5 DEF InvitationsInv, Typed, Shape
    <3> QED BY <1>1, <3>1, <3>2 DEF InvitationsInv, Typed, Invited
  <2>8. OverlapsMarked' /\ RemovalsMarked'
    BY <1>1, <2>4, <2>5 DEF InvitationsInv, OverlapsMarked, RemovalsMarked, Accepting, Removing, Removals
  <2>9. ConfirmedJoined'
    <3> SUFFICES ASSUME NEW o \in Requests, At(o, "AcceptInvitation", "confirm")',
                        NEW u \in req'[o].users, u \notin loose
                 PROVE  \E r \in RoleIDs : <<r, u>> \in members'
      BY <1>1 DEF ConfirmedJoined, Joined
    <3>1. CASE o = p
      BY <2>4, <2>5, <2>6, <3>1
    <3>2. CASE o # p
      <4>1. req'[o] = req[o] /\ Joined(u)
        BY <2>5, <3>2 DEF InvitationsInv, ConfirmedJoined, At
      <4> QED BY <2>6, <4>1 DEF Joined
    <3> QED BY <3>1, <3>2
  <2>10. RemovedPurged' /\ AnswersStand'
    BY <1>1, <2>4, <2>5 DEF InvitationsInv, RemovedPurged, AnswersStand, At, Accepted, Invited
  <2>11. OneRetained'
    <3> SUFFICES ASSUME NEW o \in Requests, NEW r \in RoleIDs \ crowded, Removing(o, r)', BuiltIn(r)
                 PROVE  /\ req'[o].op = "RoleRemoveMembers"
                        /\ Cardinality(MembersOf(r)') > Cardinality(req'[o].users)
      BY <1>1 DEF OneRetained, Removing, BuiltIn
    <3>1. o # p /\ req'[o] = req[o] /\ Removing(o, r)
      BY <2>4, <2>5 DEF Removing, Removals
    <3>2. req[o].op = "RoleRemoveMembers" /\ Cardinality(MembersOf(r)) > Cardinality(req[o].users)
      BY <3>1 DEF InvitationsInv, OneRetained
    <3>3. req[o].users \in SUBSET Users
      BY <3>1, <3>2, IdleFacts DEF InvitationsInv, Typed, TypeOK
    <3>4. Cardinality(req[o].users) \in Nat /\ Cardinality(MembersOf(r)') \in Nat
      BY <3>3, FS_Subset, FS_CardinalityType, InvitationsAssumption DEF MembersOf
    <3> QED BY <2>6, <3>1, <3>2, <3>4, MembersCounted
  <2>12. AcceptedIsMember' /\ AnsweredOnce'
    BY <1>1, <2>6 DEF InvitationsInv, AcceptedIsMember, AnsweredOnce, Invited
  <2> QED BY <2>7, <2>8, <2>9, <2>10, <2>11, <2>12 DEF InvitationsInv
<1> QED BY <1>2, <1>3

\* Rows of invitations change while the members stay, and the handler that
\* changes them, if any, is done.
LEMMA AnswersChange ==
  ASSUME InvitationsInv, (req \in [Requests -> Handler])',
         \A o \in Requests : req'[o] \in {req[o], Idle},
         UNCHANGED <<roles, members, drawn, loose, crowded>>,
         invitations' \in [Users -> Invitation \cup {None}],
         \A u \in Users : Invited(u)' => invitations'[u].role \in drawn,
         \A u \in Users \ loose : Accepted(u)' => Joined(u),
         \A u \in Users \ loose : Invited(u)' => ~(invitations'[u].confirmed /\ invitations'[u].rejected),
         \A o \in Requests : \A u \in req'[o].users \ loose : Accepted(u)' =>
           Accepted(u) \/ (req'[o].op # "RejectInvitation" /\ ~At(o, "RoleRemoveMembers", "remove")),
         \A o \in Requests : \A u \in req'[o].users \ loose :
           Invited(u)' /\ invitations'[u].rejected =>
             (Invited(u) /\ invitations[u].rejected) \/ req'[o].op # "AcceptInvitation"
  PROVE  InvitationsInv'
<1>1. Typed'
  <2>1. TypeOK'
    BY DEF InvitationsInv, Typed, TypeOK, Handler
  <2>2. \A o \in Requests : Shape(req[o])'
    BY IdleFacts DEF InvitationsInv, Typed, Shape
  <2> QED BY <2>1, <2>2 DEF InvitationsInv, Typed
<1>2. OverlapsMarked' /\ RemovalsMarked'
  BY IdleFacts DEF InvitationsInv, OverlapsMarked, RemovalsMarked, Accepting, Removing
<1>3. ConfirmedJoined'
  BY IdleFacts DEF InvitationsInv, ConfirmedJoined, At, Joined
<1>4. RemovedPurged'
  BY IdleFacts DEF InvitationsInv, RemovedPurged, At
<1>5. AnswersStand'
  BY IdleFacts DEF InvitationsInv, AnswersStand, Accepted
<1>6. OneRetained'
  BY IdleFacts DEF InvitationsInv, OneRetained, Removing, BuiltIn, MembersOf
<1>7. AcceptedIsMember' /\ AnsweredOnce'
  BY DEF AcceptedIsMember, AnsweredOnce, Accepted, Joined
<1> QED BY <1>1, <1>2, <1>3, <1>4, <1>5, <1>6, <1>7 DEF InvitationsInv

\* A new invitation is neither accepted nor rejected.
LEMMA SendInvitationInv ==
  ASSUME InvitationsInv, NEW v \in Users, NEW r \in RoleIDs, SendInvitation(v, r)
  PROVE  InvitationsInv'
<1>1. PICK i : i = [role |-> r, confirmed |-> FALSE, rejected |-> FALSE]
  OBVIOUS
<1>2. /\ roles[r] # None /\ ~Invited(v) /\ invitations' = [invitations EXCEPT ![v] = i]
      /\ UNCHANGED <<roles, members, req, drawn, loose, crowded>>
  BY <1>1 DEF SendInvitation, history
<1>3. /\ i \in Invitation /\ i.role = r /\ ~i.confirmed /\ ~i.rejected
      /\ r \in drawn /\ TypeOK /\ req \in [Requests -> Handler]
  BY <1>1, <1>2 DEF Invitation, InvitationsInv, Typed, TypeOK, Handler
<1>4. /\ invitations'[v] = i /\ \A u \in Users \ {v} : invitations'[u] = invitations[u]
      /\ invitations' \in [Users -> Invitation \cup {None}]
  BY <1>2, <1>3 DEF TypeOK
<1>5. \A u \in Users : /\ Invited(u)' => Invited(u) \/ u = v
                       /\ Accepted(u)' => Accepted(u)
                       /\ Invited(u)' /\ invitations'[u].rejected => Invited(u) /\ invitations[u].rejected
                       /\ Invited(u)' => invitations'[u].role \in drawn
                       /\ u # v => (Invited(u)' <=> Invited(u)) /\ invitations'[u] = invitations[u]
  BY <1>3, <1>4 DEF Invited, Accepted, InvitationsInv, Typed
<1>6. \A u \in Users \ loose : /\ Accepted(u)' => Joined(u)
                               /\ Invited(u)' => ~(invitations'[u].confirmed /\ invitations'[u].rejected)
  BY <1>3, <1>4, <1>5 DEF InvitationsInv, AcceptedIsMember, AnsweredOnce, Accepted, Joined
<1>7. \A o \in Requests : req[o].users \subseteq Users
  BY <1>3, IdleFacts DEF Handler
<1> QED BY <1>2, <1>3, <1>4, <1>5, <1>6, <1>7, AnswersChange

\* The user of a marked invitation has joined, and nobody else works on the user
\* or the user is marked.
LEMMA UpdateConfirmationInv ==
  ASSUME InvitationsInv, NEW p \in Requests, UpdateConfirmation(p)
  PROVE  InvitationsInv'
<1>1. /\ At(p, "AcceptInvitation", "confirm") /\ Finish(p)
      /\ invitations' = [u \in Users |-> IF u \in req[p].users /\ Invited(u)
                                         THEN [invitations[u] EXCEPT !.confirmed = TRUE]
                                         ELSE invitations[u]]
      /\ UNCHANGED <<roles, members, drawn, loose, crowded>>
  BY DEF UpdateConfirmation, history
<1>2. /\ req'[p] = Idle /\ \A o \in Requests \ {p} : req'[o] = req[o]
      /\ (req \in [Requests -> Handler])' /\ req \in [Requests -> Handler]
  BY <1>1, BecomesFacts, IdleFacts DEF Finish, Becomes
<1>3. /\ \A u \in Users : invitations[u] # None => invitations[u] \in Invitation
      /\ invitations \in [Users -> Invitation \cup {None}] /\ None \notin Invitation
  BY InvitationsAssumption DEF InvitationsInv, Typed, TypeOK
<1>4. \A u \in Users : /\ Invited(u)' <=> Invited(u)
                       /\ Invited(u) => /\ invitations'[u] \in Invitation
                                        /\ invitations'[u].role = invitations[u].role
                                        /\ invitations'[u].rejected = invitations[u].rejected
                       /\ u \notin req[p].users => invitations'[u] = invitations[u]
  BY <1>1, <1>3 DEF Invited, Invitation
<1>5. invitations' \in [Users -> Invitation \cup {None}]
  BY <1>1, <1>4 DEF Invited
<1>6. \A u \in Users : u \in req[p].users => Accepting(p, u)
  BY <1>1 DEF At, Accepting
<1>7. ASSUME NEW u \in Users \ loose
      PROVE  /\ Accepted(u)' => Joined(u)
             /\ Invited(u)' => ~(invitations'[u].confirmed /\ invitations'[u].rejected)
  <2>1. CASE u \in req[p].users
    BY <1>1, <1>4, <1>6, <2>1 DEF InvitationsInv, ConfirmedJoined, AnswersStand, Accepting
  <2>2. CASE u \notin req[p].users
    BY <1>4, <2>2 DEF InvitationsInv, AcceptedIsMember, AnsweredOnce, Accepted, Joined
  <2> QED BY <2>1, <2>2
<1>8. \A o \in Requests : \A u \in req'[o].users \ loose :
        u \in Users /\ u \notin req[p].users
  BY <1>2, <1>6, IdleFacts DEF InvitationsInv, OverlapsMarked, Handler
<1>9. \A o \in Requests : \A u \in req'[o].users \ loose :
        invitations'[u] = invitations[u] /\ (Invited(u)' <=> Invited(u)) /\ (Accepted(u)' => Accepted(u))
  BY <1>4, <1>8 DEF Accepted
<1>10. \A u \in Users : Invited(u)' => invitations'[u].role \in drawn
  BY <1>4 DEF InvitationsInv, Typed
<1> QED BY <1>1, <1>2, <1>5, <1>7, <1>9, <1>10, AnswersChange

\* The rejection, and the resending that takes it back, write the row of the invitee.
LEMMA UpdateRejectionInv ==
  ASSUME InvitationsInv, NEW p \in Requests, UpdateRejection(p)
  PROVE  InvitationsInv'
<1> DEFINE b == req[p].op = "RejectInvitation"
<1>1. /\ At(p, "RejectInvitation", "write") \/ At(p, "ResendInvitation", "write")
      /\ Finish(p)
      /\ invitations' = [u \in Users |-> IF u \in req[p].users /\ Invited(u)
                                         THEN [invitations[u] EXCEPT !.rejected = b]
                                         ELSE invitations[u]]
      /\ UNCHANGED <<roles, members, drawn, loose, crowded>>
  BY DEF UpdateRejection, history
<1>2. /\ req'[p] = Idle /\ \A o \in Requests \ {p} : req'[o] = req[o]
      /\ (req \in [Requests -> Handler])' /\ req \in [Requests -> Handler]
  BY <1>1, BecomesFacts, IdleFacts DEF Finish, Becomes
<1>3. /\ \A u \in Users : invitations[u] # None => invitations[u] \in Invitation
      /\ invitations \in [Users -> Invitation \cup {None}]
  BY DEF InvitationsInv, Typed, TypeOK
<1>4. b \in BOOLEAN
  OBVIOUS
<1> HIDE DEF b
<1>5. \A u \in Users :
        /\ invitations[u] # None =>
             /\ invitations'[u] \in Invitation
             /\ invitations'[u].role = invitations[u].role
             /\ invitations'[u].confirmed = invitations[u].confirmed
             /\ u \in req[p].users => (invitations'[u].rejected <=> b)
        /\ invitations[u] = None => invitations'[u] = None
        /\ u \notin req[p].users => invitations'[u] = invitations[u]
  BY <1>1, <1>3, <1>4 DEF Invited, Invitation
<1>6. invitations' \in [Users -> Invitation \cup {None}]
  <2>1. \A u \in Users : invitations'[u] \in Invitation \cup {None}
    BY <1>5
  <2> QED BY <1>1, <2>1
<1>7. \A u \in Users : /\ Invited(u)' => Invited(u) /\ invitations'[u].role \in drawn
                       /\ Accepted(u)' => Accepted(u)
  <2> SUFFICES ASSUME NEW u \in Users, invitations'[u] # None
               PROVE  /\ invitations[u] # None /\ invitations'[u].role \in drawn
                      /\ invitations'[u].confirmed => invitations[u].confirmed
    BY DEF Invited, Accepted
  <2>1. invitations[u] # None
    BY <1>5
  <2>2. invitations[u].role \in drawn
    BY <2>1 DEF InvitationsInv, Typed, Invited
  <2> QED BY <1>5, <2>1, <2>2
<1>8. ASSUME NEW u \in Users \ loose
      PROVE  /\ Accepted(u)' => Joined(u)
             /\ Invited(u)' => ~(invitations'[u].confirmed /\ invitations'[u].rejected)
  <2>1. Accepted(u)' => Joined(u)
    BY <1>7 DEF InvitationsInv, AcceptedIsMember, Accepted, Joined
  <2>2. CASE u \in req[p].users
    <3>1. b /\ Invited(u) => ~invitations[u].confirmed
      BY <2>2 DEF InvitationsInv, AnswersStand, b
    <3> QED BY <1>5, <1>7, <2>1, <2>2, <3>1 DEF Invited
  <2>3. CASE u \notin req[p].users
    BY <1>5, <1>7, <2>1, <2>3 DEF InvitationsInv, AnsweredOnce, Invited
  <2> QED BY <2>2, <2>3
<1>9. ASSUME NEW o \in Requests, NEW u \in req'[o].users \ loose
      PROVE  /\ Accepted(u)' => Accepted(u)
             /\ Invited(u)' /\ invitations'[u].rejected =>
                  (Invited(u) /\ invitations[u].rejected) \/ req'[o].op # "AcceptInvitation"
  <2>1. o # p /\ u \in Users /\ req'[o] = req[o]
    BY <1>2, IdleFacts DEF Handler
  <2>2. u \in req[p].users => req'[o].op # "AcceptInvitation"
    BY <2>1 DEF InvitationsInv, OverlapsMarked, Accepting
  <2> QED BY <1>5, <1>7, <2>1, <2>2
<1>10. \A o \in Requests : req'[o] \in {req[o], Idle}
  BY <1>2
<1> QED BY <1>1, <1>2, <1>6, <1>7, <1>8, <1>9, <1>10, AnswersChange

\* Rows of members go: of users without an accepted invitation, or of users that
\* are marked.
LEMMA MembersShrink ==
  ASSUME InvitationsInv, (req \in [Requests -> Handler])',
         \A o \in Requests : req'[o] \in {req[o], Idle},
         roles' \in [RoleIDs -> Names \cup {None}], \A r \in RoleIDs : roles'[r] \in {roles[r], None},
         members' \subseteq members, \A x \in members' : roles'[x[1]] # None,
         loose \subseteq loose', loose' \subseteq Users, UNCHANGED <<invitations, drawn, crowded>>,
         \A u \in Users : Joined(u) => \/ Joined(u)' \/ u \in loose'
                                      \/ /\ ~Accepted(u)
                                         /\ \A o \in Requests : Accepting(o, u) => u \in loose,
         \A o \in Requests : \A r \in RoleIDs \ crowded :
           Removing(o, r)' /\ BuiltIn(r)' => MembersOf(r)' = MembersOf(r)
  PROVE  InvitationsInv'
<1>1. Typed'
  <2>1. TypeOK'
    BY DEF InvitationsInv, Typed, TypeOK, Handler
  <2>2. \A o \in Requests : Shape(req[o])'
    BY IdleFacts DEF InvitationsInv, Typed, Shape
  <2> QED BY <2>1, <2>2 DEF InvitationsInv, Typed, Invited
<1>2. OverlapsMarked' /\ RemovalsMarked'
  BY IdleFacts DEF InvitationsInv, OverlapsMarked, RemovalsMarked, Accepting, Removing
<1>3. RemovedPurged' /\ AnswersStand' /\ AnsweredOnce'
  BY IdleFacts DEF InvitationsInv, RemovedPurged, AnswersStand, AnsweredOnce, At, Accepted, Invited
<1>4. ConfirmedJoined'
  <2> SUFFICES ASSUME NEW o \in Requests, At(o, "AcceptInvitation", "confirm")',
                      NEW u \in req'[o].users, u \notin loose'
               PROVE  Joined(u)'
    BY DEF ConfirmedJoined
  <2>1. req'[o] = req[o] /\ u \in Users /\ u \notin loose
    BY IdleFacts DEF At, Handler
  <2>2. At(o, "AcceptInvitation", "confirm") /\ Accepting(o, u)
    BY <2>1 DEF At, Accepting
  <2>3. Joined(u)
    BY <2>1, <2>2 DEF InvitationsInv, ConfirmedJoined
  <2> QED BY <2>1, <2>2, <2>3
<1>5. OneRetained'
  <2> SUFFICES ASSUME NEW o \in Requests, NEW r \in RoleIDs \ crowded, Removing(o, r)', BuiltIn(r)'
               PROVE  /\ req'[o].op = "RoleRemoveMembers"
                      /\ Cardinality(MembersOf(r)') > Cardinality(req'[o].users)
    BY DEF OneRetained
  <2>1. req'[o] = req[o] /\ Removing(o, r) /\ MembersOf(r)' = MembersOf(r)
    BY IdleFacts DEF Removing
  <2>2. BuiltIn(r)
    BY InvitationsAssumption DEF BuiltIn
  <2> QED BY <2>1, <2>2 DEF InvitationsInv, OneRetained
<1>6. AcceptedIsMember'
  <2> SUFFICES ASSUME NEW u \in Users, u \notin loose', Accepted(u)
               PROVE  Joined(u)'
    BY DEF AcceptedIsMember, Accepted, Joined, Invited
  <2>1. Joined(u)
    BY DEF InvitationsInv, AcceptedIsMember, Accepted, Joined
  <2> QED BY <2>1
<1> QED BY <1>1, <1>2, <1>3, <1>4, <1>5, <1>6 DEF InvitationsInv

\* The removal of members: those who may have accepted meanwhile were marked.
LEMMA RemoveMembersInv ==
  ASSUME InvitationsInv, NEW p \in Requests, RemoveMembers(p)
  PROVE  InvitationsInv'
<1>1. /\ At(p, "RoleRemoveMembers", "remove") \/ At(p, "RoleRemoveAllMembers", "write")
      /\ members' = members \ ({req[p].role} \X req[p].users)
      /\ loose' = IF req[p].op = "RoleRemoveAllMembers" THEN loose \cup MembersOf(req[p].role) ELSE loose
      /\ Finish(p) /\ UNCHANGED <<roles, invitations, drawn, crowded>>
  BY DEF RemoveMembers
<1>2. /\ req'[p] = Idle /\ \A o \in Requests \ {p} : req'[o] = req[o]
      /\ (req \in [Requests -> Handler])' /\ req \in [Requests -> Handler]
  BY <1>1, BecomesFacts, IdleFacts DEF Finish, Becomes
<1>3. PICK r, U : r = req[p].role /\ U = req[p].users
  OBVIOUS
<1>4. /\ req[p] # Idle /\ req[p] \in Handler /\ Shape(req[p]) /\ TypeOK
  BY <1>1, IdleFacts DEF InvitationsInv, Typed, TypeOK, Handler, At
<1>5. r \in RoleIDs /\ U \in SUBSET Users /\ Removing(p, r)
  BY <1>1, <1>3, <1>4 DEF Shape, Handler, TypeOK, At, Removing, Removals
<1>6. \A u \in Users : Joined(u) => \/ Joined(u)' \/ u \in loose'
                                   \/ /\ ~Accepted(u)
                                      /\ \A o \in Requests : Accepting(o, u) => u \in loose
  <2> SUFFICES ASSUME NEW u \in Users, Joined(u), ~Joined(u)', u \notin loose'
               PROVE  /\ ~Accepted(u)
                      /\ \A o \in Requests : Accepting(o, u) => u \in loose
    OBVIOUS
  <2>1. u \in U /\ <<r, u>> \in members /\ u \notin loose
    BY <1>1, <1>3 DEF Joined
  <2>2. At(p, "RoleRemoveMembers", "remove")
    BY <1>1, <1>3, <2>1 DEF At, MembersOf
  <2>3. ~Accepted(u)
    BY <1>3, <2>1, <2>2 DEF InvitationsInv, RemovedPurged
  <2>4. \A o \in Requests : Accepting(o, u) => u \in loose
    BY <1>3, <2>1, <2>2 DEF InvitationsInv, OverlapsMarked, Accepting, At
  <2> QED BY <2>3, <2>4
<1>7. ASSUME NEW o \in Requests, NEW s \in RoleIDs \ crowded, Removing(o, s)'
      PROVE  MembersOf(s)' = MembersOf(s)
  <2>1. o # p /\ Removing(o, s)
    BY <1>2, <1>7, IdleFacts DEF Removing
  <2>2. s # r
    BY <1>5, <1>7, <2>1 DEF InvitationsInv, RemovalsMarked
  <2> QED BY <1>1, <1>3, <2>2 DEF MembersOf
<1>8. loose \subseteq loose' /\ loose' \subseteq Users
  BY <1>1, <1>4 DEF TypeOK, MembersOf
<1>9. /\ roles' \in [RoleIDs -> Names \cup {None}] /\ \A s \in RoleIDs : roles'[s] \in {roles[s], None}
      /\ members' \subseteq members /\ \A x \in members' : roles'[x[1]] # None
      /\ \A o \in Requests : req'[o] \in {req[o], Idle}
  BY <1>1, <1>2, <1>4 DEF TypeOK
<1> QED BY <1>1, <1>2, <1>6, <1>7, <1>8, <1>9, MembersShrink

\* A role goes with its members, who are all marked.
LEMMA RemoveRoleInv ==
  ASSUME InvitationsInv, NEW r \in RoleIDs, RemoveRole(r)
  PROVE  InvitationsInv'
<1>1. /\ roles' = [roles EXCEPT ![r] = None] /\ members' = {x \in members : x[1] # r}
      /\ loose' = loose \cup MembersOf(r)
      /\ UNCHANGED <<invitations, req, drawn, crowded>>
  BY DEF RemoveRole
<1>2. TypeOK /\ req \in [Requests -> Handler]
  BY DEF InvitationsInv, Typed, TypeOK, Handler
<1>3. /\ roles' \in [RoleIDs -> Names \cup {None}] /\ roles'[r] = None
      /\ \A s \in RoleIDs \ {r} : roles'[s] = roles[s]
  BY <1>1, <1>2 DEF TypeOK
<1>4. members' \subseteq members /\ \A x \in members' : roles'[x[1]] # None
  BY <1>1, <1>2, <1>3 DEF TypeOK
<1>5. \A u \in Users : Joined(u) => Joined(u)' \/ u \in loose'
  BY <1>1 DEF Joined, MembersOf
<1>6. \A s \in RoleIDs : BuiltIn(s)' => MembersOf(s)' = MembersOf(s)
  BY <1>1, <1>3, InvitationsAssumption DEF BuiltIn, MembersOf
<1>7. loose \subseteq loose' /\ loose' \subseteq Users
  BY <1>1, <1>2 DEF TypeOK, MembersOf
<1> QED BY <1>1, <1>2, <1>3, <1>4, <1>5, <1>6, <1>7, MembersShrink

\* A role that is renamed under a removal is marked.
LEMMA UpdateRoleNameInv ==
  ASSUME InvitationsInv, NEW r \in RoleIDs, NEW n \in Names, UpdateRoleName(r, n)
  PROVE  InvitationsInv'
<1>1. /\ roles[r] # None /\ roles' = [roles EXCEPT ![r] = n]
      /\ crowded' = crowded \cup {s \in {r} : \E o \in Requests : Removing(o, s)}
      /\ UNCHANGED <<members, invitations, req, drawn, loose>>
  BY DEF UpdateRoleName
<1>2. TypeOK
  BY DEF InvitationsInv, Typed
<1>3. /\ roles' \in [RoleIDs -> Names \cup {None}] /\ roles'[r] = n /\ n # None
      /\ \A s \in RoleIDs \ {r} : roles'[s] = roles[s]
  BY <1>1, <1>2, InvitationsAssumption DEF TypeOK
<1>4. Typed'
  <2>1. crowded' \subseteq RoleIDs
    BY <1>1, <1>2 DEF TypeOK
  <2>2. members' \subseteq {x \in RoleIDs \X Users : roles'[x[1]] # None}
    BY <1>1, <1>2, <1>3 DEF TypeOK
  <2>3. TypeOK'
    BY <1>1, <1>2, <1>3, <2>1, <2>2 DEF TypeOK
  <2>4. \A o \in Requests : Shape(req[o])'
    BY <1>1 DEF InvitationsInv, Typed, Shape
  <2> QED BY <1>1, <1>3, <2>3, <2>4 DEF InvitationsInv, Typed, Invited
<1>5. OverlapsMarked' /\ RemovalsMarked' /\ ConfirmedJoined' /\ RemovedPurged'
  BY <1>1 DEF InvitationsInv, OverlapsMarked, RemovalsMarked, ConfirmedJoined, RemovedPurged,
              Accepting, Removing, At, Joined, Accepted, Invited
<1>6. AnswersStand' /\ AcceptedIsMember' /\ AnsweredOnce'
  BY <1>1 DEF InvitationsInv, AnswersStand, AcceptedIsMember, AnsweredOnce, Invited
<1>7. OneRetained'
  BY <1>1, <1>3 DEF InvitationsInv, OneRetained, Removing, BuiltIn, MembersOf
<1> QED BY <1>4, <1>5, <1>6, <1>7 DEF InvitationsInv

\* A new domain has its creator in the built-in role and no invitation.
LEMMA InvitationsInit == Init => InvitationsInv
<1> SUFFICES ASSUME Init
             PROVE  InvitationsInv
  OBVIOUS
<1>1. PICK r \in RoleIDs : /\ roles = [s \in RoleIDs |-> IF s = r THEN Admin ELSE None]
                           /\ members = {<<r, Creator>>} /\ drawn = {r}
  BY DEF Init
<1>2. /\ invitations = [u \in Users |-> None] /\ req = [p \in Requests |-> Idle]
      /\ loose = {} /\ crowded = {}
  BY DEF Init
<1>3. Typed
  <2>1. roles \in [RoleIDs -> Names \cup {None}] /\ roles[r] # None
    BY <1>1, InvitationsAssumption
  <2>2. TypeOK
    BY <1>1, <1>2, <2>1, InvitationsAssumption DEF TypeOK
  <2> QED BY <1>1, <1>2, <2>2, IdleFacts DEF Typed, Invited
<1>4. /\ OverlapsMarked /\ RemovalsMarked /\ ConfirmedJoined /\ RemovedPurged /\ AnswersStand
      /\ OneRetained
  BY <1>2, IdleFacts DEF OverlapsMarked, RemovalsMarked, ConfirmedJoined, RemovedPurged,
                         AnswersStand, OneRetained, Accepting, Removing, At
<1>5. AcceptedIsMember /\ AnsweredOnce
  BY <1>2 DEF AcceptedIsMember, AnsweredOnce, Invited
<1> QED BY <1>3, <1>4, <1>5 DEF InvitationsInv

\* Every step of the handlers, and their failures, keep the invariant.
LEMMA InvitationsStep == InvitationsInv /\ [Next]_vars => InvitationsInv'
<1> SUFFICES ASSUME InvitationsInv, [Next]_vars
             PROVE  InvitationsInv'
  OBVIOUS
<1>1. ASSUME NEW p \in Requests, Start(p)
      PROVE  InvitationsInv'
  BY <1>1, ReadInvitationInv, StartRemovalInv DEF Start
<1>2. ASSUME NEW p \in Requests, Step(p)
      PROVE  InvitationsInv'
  BY <1>2, AddInviteeInv, UpdateConfirmationInv, UpdateRejectionInv, PurgesInv, RemoveMembersInv
     DEF Step
<1>3. CASE AtOnce
  BY <1>3, PurgesInv, SendInvitationInv, RoleAddMembersInv, AddRoleInv, RemoveRoleInv,
     UpdateRoleNameInv DEF AtOnce
<1>4. ASSUME NEW p \in Requests, Stop(p)
      PROVE  InvitationsInv'
  BY <1>4, FinishInv DEF Stop, history
<1>5. CASE UNCHANGED vars
  <2>1. UNCHANGED <<roles, members, invitations, req, drawn, loose, crowded>>
    BY <1>5 DEF vars, history
  <2>2. TypeOK
    BY DEF InvitationsInv, Typed
  <2> QED BY <2>1, <2>2, MembersGrow DEF TypeOK
<1> QED BY <1>1, <1>2, <1>3, <1>4, <1>5 DEF Next, ReliableNext

\* The inductive invariant holds of every behaviour.
LEMMA InvitationsInductive == Spec => []InvitationsInv
<1> QED BY InvitationsInit, InvitationsStep, PTL DEF Spec

\* The state keeps its type: among others, a member belongs to a role there is.
THEOREM TypeCorrect == Spec => []TypeOK
<1>1. InvitationsInv => TypeOK
  BY DEF InvitationsInv, Typed
<1> QED BY <1>1, InvitationsInductive, PTL

\* An accepted invitation belongs to a member of the domain, unless handlers
\* overlapped on the user or the role went as a whole.
THEOREM AcceptedHaveJoined == Spec => []AcceptedIsMember
<1>1. InvitationsInv => AcceptedIsMember
  BY DEF InvitationsInv
<1> QED BY <1>1, InvitationsInductive, PTL

\* No invitation is both accepted and rejected, unless the answers overlapped.
THEOREM OneAnswer == Spec => []AnsweredOnce
<1>1. InvitationsInv => AnsweredOnce
  BY DEF InvitationsInv
<1> QED BY <1>1, InvitationsInductive, PTL

\* No step takes the last member of the built-in role, unless removals overlapped
\* on it or it was renamed under one.
THEOREM LastMemberRetained == Spec => LastMemberStays
<1>1. InvitationsInv /\ [Next]_vars => [\A r \in RoleIDs : Emptied(r) => r \in crowded]_vars
  <2> SUFFICES ASSUME InvitationsInv, Next, NEW r \in RoleIDs, r \notin crowded, BuiltIn(r),
                      MembersOf(r) # {}, MembersOf(r)' = {}, roles'[r] # None
               PROVE  FALSE
    BY DEF Emptied
  <2>1. ~(members \subseteq members')
    BY DEF MembersOf
  <2>2. \A p \in Requests : Start(p) => UNCHANGED members
    BY DEF Start, AcceptInvitation, RejectInvitation, ResendInvitation, DeleteInvitation,
           RoleRemoveMembers, RoleRemoveAllMembers, Begin
  <2>3. AtOnce => members \subseteq members' \/ \E s \in RoleIDs : RemoveRole(s)
    BY DEF AtOnce, DeleteOwnInvitation, SendInvitation, RemoveEntityMembers, RoleAddMembers, AddRole,
           UpdateRoleName, Purge
  <2>4. \A p \in Requests : Step(p) => members \subseteq members' \/ RemoveMembers(p)
    BY DEF Step, AddInvitee, UpdateConfirmation, UpdateRejection, DeleteUsersInvitations,
           PurgeInvitations, Purge
  <2>5. \A p \in Requests : Stop(p) => UNCHANGED members
    BY DEF Stop
  <2>6. \/ \E s \in RoleIDs : RemoveRole(s)
        \/ \E p \in Requests : RemoveMembers(p)
    BY <2>1, <2>2, <2>3, <2>4, <2>5 DEF Next, ReliableNext
  <2>7. ASSUME NEW s \in RoleIDs, RemoveRole(s)
        PROVE  FALSE
    <3>1. roles' = [roles EXCEPT ![s] = None] /\ members' = {x \in members : x[1] # s}
      BY <2>7 DEF RemoveRole
    <3>2. s # r
      BY <3>1 DEF InvitationsInv, Typed, TypeOK
    <3> QED BY <3>1, <3>2 DEF MembersOf
  <2>8. ASSUME NEW p \in Requests, RemoveMembers(p)
        PROVE  FALSE
    <3>1. /\ req[p].op \in Removals /\ members' = members \ ({req[p].role} \X req[p].users)
      BY <2>8 DEF RemoveMembers, At, Removals
    <3>2. Removing(p, r)
      BY <3>1 DEF Removing, MembersOf
    <3>3. Cardinality(MembersOf(r)) > Cardinality(req[p].users)
      BY <3>2 DEF InvitationsInv, OneRetained
    <3>4. MembersOf(r) \subseteq req[p].users
      BY <3>1 DEF MembersOf
    <3>5. req[p].users \in SUBSET Users
      BY IdleFacts DEF InvitationsInv, Typed, TypeOK
    <3>6. IsFiniteSet(req[p].users) /\ Cardinality(req[p].users) \in Nat
      BY <3>5, FS_Subset, FS_CardinalityType, InvitationsAssumption
    <3> QED BY <3>3, <3>4, <3>6, FS_Subset, MembersCounted
  <2> QED BY <2>6, <2>7, <2>8
<1> QED BY <1>1, InvitationsInductive, PTL DEF Spec, LastMemberStays
=============================================================================
