------------------------------- MODULE Users -------------------------------
(***************************************************************************)
(* The life of a user account (users/service.go): registration, e-mail     *)
(* verification, OAuth sign-in, role and status changes, and the handler   *)
(* that purges accounts some time after they were marked deleted           *)
(* (users/delete_handler.go).  The account is a row of the users table and *)
(* tuples of the policy store; a request changes them in separate calls,   *)
(* and what it read before is not locked.                                  *)
(***************************************************************************)
EXTENDS Naturals, FiniteSets, Sequences, FiniteSetsExt

CONSTANTS UserIDs,     \* IDs the provider can hand out
          Emails,
          Admin,       \* the account createAdmin makes at start-up
          AdminEmail,
          Requests,    \* service calls that can be in flight
          MaxCalls,    \* bound: service calls made
          MaxFaults,   \* bound: failures, of one call or of the whole process
          defLimit,    \* users per page of the delete handler
          None

VARIABLES users,       \* the users table
          policies,    \* user and relation of the tuples on the platform
          verifs,      \* users_verifications, oldest row first
          mails,       \* the tokens sent by e-mail
          req,         \* the service calls in flight
          calls,
          drawn,       \* IDs handed out
          aged,        \* users whose updated_at is older than deleteAfter
          older,       \* pairs of users marked deleted, the one updated earlier first
          handler,     \* the delete handler: where it is, page, current user
          faults,
          signedIn,    \* history: e-mails confirmed by an OAuth provider
          raced,       \* history: users reactivated while on the handler's page
          stripped,    \* history: users whose policies the handler removed
          stray        \* history: users whose tuples were not taken back

table   == <<users, verifs, mails>>
history == <<signedIn, raced, stripped, stray>>
purge   == <<aged, older, handler>>
vars    == <<table, policies, req, calls, drawn, purge, faults, history>>

Relations == {"member", "administrator"}
Statuses  == {"enabled", "disabled", "deleted"}
Row       == [email : Emails, role : {"user", "admin"}, status : Statuses,
              verified : BOOLEAN, external : BOOLEAN]
Token     == [user : UserIDs, email : Emails, otp : Nat]
Ops       == {"Register", "OAuthCallback", "SendVerification", "VerifyEmail",
              "UpdateEmail", "UpdateRole", "ChangeStatus"}
Endless   == MaxCalls + 1  \* no bound, but users are only deleted and enabled
Idle      == [op |-> "idle", at |-> "done", user |-> None, email |-> None, arg |-> None]

\* The two accounts there are at first have their IDs and e-mails, and neither an ID
\* nor a row is the mark of a missing row.
ASSUME UsersAssumption ==
  /\ Admin \in UserIDs /\ AdminEmail \in Emails
  /\ \E u \in UserIDs : u # Admin
  /\ \E e \in Emails : e # AdminEmail
  /\ MaxCalls \in Nat /\ MaxFaults \in Nat
  /\ None \notin UserIDs \cup Row

TypeOK ==
  /\ users \in [UserIDs -> Row \cup {None}]
  /\ \A u, v \in UserIDs :
       users[u] # None /\ users[v] # None /\ users[u].email = users[v].email => u = v
  /\ policies \subseteq UserIDs \X Relations
  /\ \A i \in DOMAIN verifs : verifs[i].user # None => users[verifs[i].user] # None
  /\ mails \subseteq Token
  /\ \A r \in Requests : req[r] = Idle \/ (req[r].op \in Ops /\ req[r].user \in drawn)
  /\ handler.at \in {"idle", "page", "domains", "policies", "delete"}
  /\ handler.aged \subseteq handler.page
  /\ older \subseteq UserIDs \X UserIDs

\* An installation with one registered user and its administrator, or, for calls
\* without end, with an administrator that UpdateRole has made a plain user.
Init ==
  \E n \in {0, Endless} :
    LET u == CHOOSE v \in UserIDs : v # Admin
        e == CHOOSE f \in Emails : f # AdminEmail
        row(mail, role) == [email |-> mail, role |-> role, status |-> "enabled",
                            verified |-> FALSE, external |-> FALSE]
    IN
      /\ users = [v \in UserIDs |->
           CASE v = Admin -> row(AdminEmail, IF n = Endless THEN "user" ELSE "admin")
             [] v = u     -> row(e, "user")
             [] OTHER     -> None]
      /\ policies = {<<u, "member">>} \cup (IF n = Endless THEN {} ELSE {<<Admin, "administrator">>})
      /\ drawn = {Admin, u} /\ calls = n
      /\ verifs = << >> /\ mails = {}
      /\ req = [r \in Requests |-> Idle]
      /\ aged = {} /\ older = {} /\ handler = [at |-> "idle", page |-> {}, aged |-> {}, user |-> None]
      /\ faults = 0
      /\ signedIn = {} /\ raced = {} /\ stripped = {} /\ stray = {}

-----------------------------------------------------------------------------
(* Calls in flight.                                                        *)
Begin(r, op, at, u, e, arg) ==
  /\ req[r] = Idle
  /\ \/ calls < MaxCalls
     \/ calls = Endless /\ op = "ChangeStatus" /\ arg # "disabled"
  /\ req' = [req EXCEPT ![r] = [op |-> op, at |-> at, user |-> u, email |-> e, arg |-> arg]]
  /\ calls' = IF calls = Endless THEN calls ELSE calls + 1

At(r, step) == req[r].at = step
Goto(r, step) == req' = [req EXCEPT ![r].at = step] /\ UNCHANGED calls
Return(r) == req' = [req EXCEPT ![r] = Idle] /\ UNCHANGED calls

(* The repository (users/postgres).                                        *)
Exists(u)  == users[u] # None
Enabled(u) == Exists(u) /\ users[u].status = "enabled"
Taken(e)   == \E u \in UserIDs : Exists(u) /\ users[u].email = e

Save(u, e, role, external) ==
  [users EXCEPT ![u] = [email |-> e, role |-> role, status |-> "enabled",
                        verified |-> FALSE, external |-> external]]
UpdateEmailRow(u, e) == [users EXCEPT ![u].email = e, ![u].verified = FALSE]
UpdateRoleRow(u, role) == [users EXCEPT ![u].role = role]
StatusRow(u, status) == [users EXCEPT ![u].status = status]
MarkedDeleted == {u \in UserIDs : Exists(u) /\ users[u].status = "deleted"}
RetrieveByEmail(e) == {u \in UserIDs : Enabled(u) /\ users[u].email = e}
CheckSuperAdmin(u) == Exists(u) /\ users[u].role = "admin"

\* Mutant: the e-mail is not compared.
VerifiableByID(u, e) == Exists(u)

\* verified_at is set on the row that has both the ID and the e-mail.
Verifiable(u, e) == Exists(u) /\ users[u].email = e

RowsOf(u, e) == {i \in DOMAIN verifs : verifs[i].user = u /\ verifs[i].email = e}
RetrieveUserVerification(u, e) == verifs[Max(RowsOf(u, e))]
Valid(v) == ~v.expired /\ ~v.used
Match(v, t) == v.otp = t.otp

\* All the rows of the user and the e-mail get the token and used_at.
UpdateUserVerification(u, e, otp) ==
  [i \in DOMAIN verifs |-> IF i \in RowsOf(u, e)
                           THEN [verifs[i] EXCEPT !.otp = otp, !.used = TRUE] ELSE verifs[i]]

(* The platform tuples of a user.                                          *)
addUserPolicy(u, role) ==
  {<<u, "member">>} \cup (IF role = "admin" THEN {<<u, "administrator">>} ELSE {})

\* Mutant: the member tuple is not taken back.
addUserPolicyRollbackMember(u, role) == {<<u, "administrator">>}

addUserPolicyRollback(u, role) == addUserPolicy(u, role)

\* permission membership = administrator + member, of the platform
membership(u) == \E rel \in Relations : <<u, rel>> \in policies

\* The middleware asks the policy store, the service the users table.
checkSuperAdmin == \E s \in UserIDs : <<s, "administrator">> \in policies \/ CheckSuperAdmin(s)

-----------------------------------------------------------------------------
(* Register and OAuthCallback.                                             *)
\* The ID is fresh, so AddPolicies meets no tuple.
StartRegister(r, op, u, e, role) ==
  /\ u \notin drawn
  /\ Begin(r, op, "save", u, e, role)
  /\ policies' = policies \cup addUserPolicy(u, role)
  /\ drawn' = drawn \cup {u}

Register(r) ==
  /\ \E u \in UserIDs, e \in Emails, role \in {"user", "admin"} :
       StartRegister(r, "Register", u, e, role)
  /\ UNCHANGED <<table, purge, faults, history>>

SaveUser(r) ==
  LET q == req[r]
  IN  /\ At(r, "save")
      /\ IF Taken(q.email)
         THEN Goto(r, "rollback") /\ UNCHANGED users
         ELSE /\ users' = Save(q.user, q.email, q.arg, q.op = "OAuthCallback")
              /\ IF q.op = "Register" THEN Return(r) ELSE Goto(r, "verify")
      /\ UNCHANGED <<verifs, mails, policies, drawn, purge, faults, history>>

RollbackPolicy(r) ==
  /\ At(r, "rollback")
  /\ policies' = policies \ addUserPolicyRollback(req[r].user, req[r].arg)
  /\ Return(r)
  /\ UNCHANGED <<table, drawn, purge, faults, history>>

OAuthCallback(r) ==
  \E e \in Emails :
    /\ IF RetrieveByEmail(e) = {}
       THEN \E u \in UserIDs : StartRegister(r, "OAuthCallback", u, e, "user")
       ELSE \E u \in RetrieveByEmail(e) :
              /\ Begin(r, "OAuthCallback", IF users[u].verified THEN "member" ELSE "verify",
                       u, e, users[u].role)
              /\ UNCHANGED <<policies, drawn>>
    /\ signedIn' = signedIn \cup {e}
    /\ UNCHANGED <<table, purge, faults, raced, stripped, stray>>

OAuthAddUserPolicy(r) ==
  /\ At(r, "member")
  /\ policies' = IF membership(req[r].user) THEN policies
                 ELSE policies \cup addUserPolicy(req[r].user, req[r].arg)
  /\ Return(r)
  /\ UNCHANGED <<table, drawn, purge, faults, history>>

(* E-mail verification.                                                    *)
SendVerification(r) ==
  \E u \in UserIDs :
    /\ Exists(u) /\ ~users[u].verified
    /\ LET e == users[u].email
           sent == RowsOf(u, e) # {} /\ Valid(RetrieveUserVerification(u, e))
       IN  /\ ~sent  \* otherwise the same token is sent again
           /\ Begin(r, "SendVerification", "add", u, e, None)
    /\ UNCHANGED <<table, policies, drawn, purge, faults, history>>

\* The row of the user is gone when the foreign key fails.
AddUserVerification(r) ==
  LET q   == req[r]
      otp == Cardinality(mails)
  IN  /\ At(r, "add")
      /\ IF Exists(q.user)
         THEN /\ verifs' = Append(verifs, [user |-> q.user, email |-> q.email, otp |-> otp,
                                           used |-> FALSE, expired |-> FALSE])
              /\ mails' = mails \cup {[user |-> q.user, email |-> q.email, otp |-> otp]}
         ELSE UNCHANGED <<verifs, mails>>
      /\ Return(r)
      /\ UNCHANGED <<users, policies, drawn, purge, faults, history>>

VerifyEmail(r) ==
  \E t \in mails :
    /\ RowsOf(t.user, t.email) # {}
    /\ LET stored == RetrieveUserVerification(t.user, t.email)
       IN  /\ Match(stored, t) /\ Valid(stored)
           /\ Begin(r, "VerifyEmail", "use", t.user, t.email, stored.otp)
    /\ UNCHANGED <<table, policies, drawn, purge, faults, history>>

UseVerification(r) ==
  LET q == req[r]
  IN  /\ At(r, "use")
      /\ verifs' = UpdateUserVerification(q.user, q.email, q.arg)
      /\ IF RowsOf(q.user, q.email) = {} THEN Return(r) ELSE Goto(r, "verify")
      /\ UNCHANGED <<users, mails, policies, drawn, purge, faults, history>>

\* The last step of VerifyEmail, and of OAuthCallback before the policy.
UpdateVerifiedAt(r) ==
  LET q == req[r]
  IN  /\ At(r, "verify")
      /\ IF Verifiable(q.user, q.email)
         THEN /\ users' = [users EXCEPT ![q.user].verified = TRUE]
              /\ IF q.op = "OAuthCallback" THEN Goto(r, "member") ELSE Return(r)
         ELSE Return(r) /\ UNCHANGED users
      /\ UNCHANGED <<verifs, mails, policies, drawn, purge, faults, history>>

ExpireVerification ==
  /\ \E i \in DOMAIN verifs : /\ ~verifs[i].expired
                              /\ verifs' = [verifs EXCEPT ![i].expired = TRUE]
  /\ UNCHANGED <<users, mails, policies, req, calls, drawn, purge, faults, history>>

-----------------------------------------------------------------------------
(* Updates: a check against what was read, then the write.                 *)
UpdateEmail(r) ==
  /\ \E u \in UserIDs, e \in Emails :
       /\ Exists(u) /\ ~users[u].external /\ users[u].email # e
       /\ Begin(r, "UpdateEmail", "email", u, e, None)
  /\ UNCHANGED <<table, policies, drawn, purge, faults, history>>

WriteEmail(r) ==
  LET q == req[r]
  IN  /\ At(r, "email")
      /\ users' = IF Enabled(q.user) /\ ~(\E v \in UserIDs \ {q.user} :
                                            Exists(v) /\ users[v].email = q.email)
                  THEN UpdateEmailRow(q.user, q.email) ELSE users
      /\ Return(r)
      /\ UNCHANGED <<verifs, mails, policies, drawn, purge, faults, history>>

\* The tuple is changed first; AddPolicy refuses one that is there.
UpdateRole(r) ==
  /\ \E u \in UserIDs, role \in {"user", "admin"} :
       /\ checkSuperAdmin /\ membership(u)
       /\ role = "admin" => <<u, "administrator">> \notin policies
       /\ Begin(r, "UpdateRole", "role", u, None, role)
       /\ policies' = IF role = "admin" THEN policies \cup {<<u, "administrator">>}
                                        ELSE policies \ {<<u, "administrator">>}
  /\ UNCHANGED <<table, drawn, purge, faults, history>>

WriteRole(r) ==
  LET q == req[r]
  IN  /\ At(r, "role")
      /\ IF Enabled(q.user) THEN users' = UpdateRoleRow(q.user, q.arg) /\ Return(r)
                            ELSE Goto(r, "revert") /\ UNCHANGED users
      /\ UNCHANGED <<verifs, mails, policies, drawn, purge, faults, history>>

RevertRole(r) ==
  /\ At(r, "revert")
  /\ policies' = policies \ {<<req[r].user, "administrator">>}
  /\ Return(r)
  /\ UNCHANGED <<table, drawn, purge, faults, history>>

\* Enable, Disable and Delete.
ChangeStatus(r) ==
  /\ \E u \in UserIDs, status \in Statuses :
       /\ Exists(u) /\ users[u].status # status
       /\ Begin(r, "ChangeStatus", "status", u, None, status)
  /\ UNCHANGED <<table, policies, drawn, purge, faults, history>>

\* The status and updated_at: the user is now the last one updated.
WriteStatus(r) ==
  LET q == req[r]
  IN  /\ At(r, "status")
      /\ users' = IF Exists(q.user) THEN StatusRow(q.user, q.arg) ELSE users
      /\ aged' = aged \ {q.user}
      /\ older' = {o \in older : q.user \notin {o[1], o[2]}} \cup
                  (IF Exists(q.user) /\ q.arg = "deleted" THEN (MarkedDeleted \ {q.user}) \X {q.user}
                                                          ELSE {})
      /\ raced' = IF q.user \in handler.page \cup {handler.user} /\ q.arg # "deleted"
                  THEN raced \cup {q.user} ELSE raced
      /\ Return(r)
      /\ UNCHANGED <<verifs, mails, policies, drawn, handler, faults, signedIn, stripped, stray>>

-----------------------------------------------------------------------------
(* The delete handler.  What it reads of a user is a page old when used.   *)
\* The zero value of the role in the page is the role of plain users.
PageQuery == {u \in MarkedDeleted : users[u].role = "user"}

\* applyOrdering: the last updated first.
Page == {u \in PageQuery : Cardinality({v \in PageQuery : <<u, v>> \in older}) < defLimit}

RetrieveAll ==
  /\ \/ handler.at = "idle"
     \/ handler.at = "page" /\ handler.page = {}
  /\ handler' = [at |-> IF Page = {} THEN "idle" ELSE "page",
                 page |-> Page, aged |-> Page \cap aged, user |-> None]
  /\ UNCHANGED <<table, policies, req, calls, drawn, aged, older, faults, history>>

Continue(u, at) == handler' = [at |-> at, page |-> handler.page \ {u},
                               aged |-> handler.aged \ {u},
                               user |-> IF at = "page" THEN None ELSE u]

\* Mutant: the comparison is the other way round.
oldEnoughReversed(u) == u \notin handler.aged

\* time.Since(u.UpdatedAt) < h.deleteAfter
oldEnough(u) == u \in handler.aged

NextUser ==
  /\ handler.at = "page"
  /\ \E u \in handler.page : Continue(u, IF oldEnough(u) THEN "domains" ELSE "page")
  /\ UNCHANGED <<table, policies, req, calls, drawn, aged, older, faults, history>>

\* A failing call of the handler abandons the user until the next page.
Fault ==
  /\ handler.at \in {"domains", "policies", "delete"} /\ faults < MaxFaults
  /\ faults' = faults + 1
  /\ Continue(handler.user, "page")
  /\ UNCHANGED <<table, policies, req, calls, drawn, aged, older, history>>

DeleteUserFromDomains ==
  /\ handler.at = "domains"
  /\ Continue(handler.user, "policies")
  /\ UNCHANGED <<table, policies, req, calls, drawn, aged, older, faults, history>>

SubjectPolicies(u) == {u} \X Relations

DeletePolicyFilter ==
  /\ handler.at = "policies"
  /\ policies' = policies \ SubjectPolicies(handler.user)
  /\ stripped' = stripped \cup {handler.user}
  /\ Continue(handler.user, "delete")
  /\ UNCHANGED <<table, req, calls, drawn, aged, older, faults, signedIn, raced, stray>>

\* The verifications of the user go with the row: nobody's from here on.
Delete ==
  LET u == handler.user
  IN  /\ handler.at = "delete"
      /\ users' = [users EXCEPT ![u] = None]
      /\ verifs' = [i \in DOMAIN verifs |-> IF verifs[i].user = u
                                            THEN [verifs[i] EXCEPT !.user = None] ELSE verifs[i]]
      /\ aged' = aged \ {u}
      /\ older' = {o \in older : u \notin {o[1], o[2]}}
      /\ Continue(u, "page")
      /\ UNCHANGED <<mails, policies, req, calls, drawn, faults, history>>

\* Time passes.  No service call lasts as long as deleteAfter.
Age(u) ==
  LET row == Exists(u) /\ users[u].status = "deleted"
  IN  /\ \/ row /\ u \notin aged
         \/ u \in handler.page \ handler.aged
      /\ \A r \in Requests : req[r].user # u
      /\ aged' = IF row THEN aged \cup {u} ELSE aged
      /\ handler' = [handler EXCEPT !.aged = @ \cup ({u} \cap handler.page)]
      /\ UNCHANGED <<table, policies, req, calls, drawn, older, faults, history>>

-----------------------------------------------------------------------------
(* Failures.                                                               *)
\* The tuples are written and the row is not.
Unsaved(r) == IF req[r].at \in {"save", "rollback", "role", "revert"} THEN {req[r].user} ELSE {}

\* The next call of a request fails: the row is compensated for, a compensation
\* that fails is lost.
Fail(r) ==
  /\ req[r] # Idle /\ faults < MaxFaults
  /\ faults' = faults + 1
  /\ CASE At(r, "save") -> Goto(r, "rollback") /\ UNCHANGED stray
       [] At(r, "role") -> Goto(r, "revert") /\ UNCHANGED stray
       [] OTHER         -> Return(r) /\ stray' = stray \cup Unsaved(r)
  /\ UNCHANGED <<table, policies, drawn, purge, signedIn, raced, stripped>>

\* The process stops, with all that is in flight, and starts again.
Stop ==
  /\ faults < MaxFaults /\ faults' = faults + 1
  /\ req' = [r \in Requests |-> Idle]
  /\ handler' = [at |-> "idle", page |-> {}, aged |-> {}, user |-> None]
  /\ stray' = stray \cup UNION {Unsaved(r) : r \in Requests}
  /\ UNCHANGED <<table, policies, calls, drawn, aged, older, signedIn, raced, stripped>>

-----------------------------------------------------------------------------
Call(r) == \/ Register(r) \/ OAuthCallback(r) \/ SendVerification(r) \/ VerifyEmail(r)
           \/ UpdateEmail(r) \/ UpdateRole(r) \/ ChangeStatus(r)

Step(r) == \/ SaveUser(r) \/ RollbackPolicy(r) \/ OAuthAddUserPolicy(r)
           \/ AddUserVerification(r) \/ UseVerification(r) \/ UpdateVerifiedAt(r)
           \/ WriteEmail(r) \/ WriteRole(r) \/ RevertRole(r) \/ WriteStatus(r)

Handle == RetrieveAll \/ NextUser \/ DeleteUserFromDomains \/ DeletePolicyFilter \/ Delete

Next == \/ \E r \in Requests : Call(r) \/ Step(r)
        \/ Handle \/ Fault \/ ExpireVerification \/ Stop \/ \E r \in Requests : Fail(r)
        \/ \E u \in UserIDs : Age(u)

\* A call returns, the ticker fires, and time passes.
Fairness == /\ \A r \in Requests : WF_vars(Step(r))
            /\ WF_vars(Handle)
            /\ \A u \in UserIDs : WF_vars(Age(u))

Spec == Init /\ [][Next]_vars /\ Fairness

-----------------------------------------------------------------------------
(* Properties.                                                             *)
Quiet(u) == \A r \in Requests : req[r].user # u

\* verified_at of a row speaks of the e-mail in that row: a verification of
\* this user and this e-mail was used, or a provider confirmed the e-mail,
\* although UpdateEmail may run between any two steps of VerifyEmail.
VerifiedEmail ==
  \A u \in UserIDs : Exists(u) /\ users[u].verified =>
    \/ users[u].email \in signedIn
    \/ \E i \in RowsOf(u, users[u].email) : verifs[i].used

\* A user row always has the member tuple, because Register writes the tuple
\* first, until the delete handler takes it (the account made at start-up has
\* the administrator tuple only); and once no call is in flight, no tuple
\* outlives its row, whichever call fails, unless the purge met a reactivation, the
\* process stopped between tuple and row, or the compensation itself failed.
PoliciesFollowRows ==
  \A u \in UserIDs :
    /\ Exists(u) /\ u \notin stripped \cup {Admin} => <<u, "member">> \in policies
    /\ ~Exists(u) /\ Quiet(u) /\ u \notin raced \cup stray => SubjectPolicies(u) \cap policies = {}

\* No call that marks another user deleted is in flight.
NoneFollows(u) ==
  \A r \in Requests : req[r].op = "ChangeStatus" /\ req[r].arg = "deleted" => req[r].user = u

\* The delete handler removes the row of a plain user marked deleted, unless the
\* user is reactivated, whatever calls fail: provided that there is an end to
\* other users being marked deleted, for these come first on its page.
PlainUsersPurged ==
  \A u \in UserIDs :
    <>[]NoneFollows(u) => (u \in PageQuery ~> u \notin MarkedDeleted)

\* The header of delete_handler.go, which speaks of every user marked deleted; as
\* above, when there is an end to others being marked.
DeletedUsersPurged ==
  \A u \in UserIDs :
    <>[]NoneFollows(u) => (u \in MarkedDeleted ~> u \notin MarkedDeleted)
=============================================================================
