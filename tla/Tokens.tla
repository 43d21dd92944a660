------------------------------- MODULE Tokens -------------------------------
(***************************************************************************)
(* Refresh tokens (auth/service.go and users/service.go).  A refresh token *)
(* is a signed string, so that what makes it usable is its ID in the cache *)
(* of active tokens (auth/cache/tokens.go): a key per token and, per user, *)
(* a sorted set that lists the tokens by expiry.  Revoking a token removes *)
(* the ID; refreshing one issues another string with the same ID.          *)
(***************************************************************************)
EXTENDS Naturals, FiniteSets

CONSTANTS Owners,        \* user IDs
          TokenIDs,      \* IDs the provider can hand out
          TokenReqs,     \* service calls that can be in flight
          None

VARIABLES issued,        \* owner of each refresh token
          active,        \* keys of the cache, one per active token
          userTokens,    \* sorted sets of the cache, owner and token
          lapsed,        \* tokens whose time to live is over
          treq,          \* service calls in flight
          revoked        \* history: tokens a revocation has returned for

tokenVars == <<issued, active, userTokens, lapsed, treq, revoked>>

Free == [op |-> "idle", user |-> None, token |-> None]

TypeOK ==
  /\ issued \in [TokenIDs -> Owners \cup {None}]
  /\ active \subseteq {t \in TokenIDs \ lapsed : issued[t] # None}
  /\ \A x \in userTokens : issued[x[2]] = x[1]
  /\ revoked \subseteq TokenIDs
  /\ \A r \in TokenReqs : treq[r] = Free \/ treq[r].user \in Owners

Init ==
  /\ issued = [t \in TokenIDs |-> None]
  /\ active = {} /\ userTokens = {} /\ lapsed = {} /\ revoked = {}
  /\ treq = [r \in TokenReqs |-> Free]

-----------------------------------------------------------------------------
(* The cache.                                                              *)
SaveActive(u, t) == /\ active' = active \cup {t}
                    /\ userTokens' = userTokens \cup {<<u, t>>}
IsActive(t) == t \in active
RemoveActive(u, t) == /\ active' = active \ {t}
                      /\ userTokens' = userTokens \ {<<u, t>>}

\* Mutant: the keys are not asked for.
ListUserTokensOfSet(u) == {t \in TokenIDs \ lapsed : <<u, t>> \in userTokens}

\* The set of the user, less what has lapsed, less what has no key.  The two
\* pipelines are one step, and a token lapses in the set and among the keys at
\* once: in Redis up to a second lies between the two, for the scores of the
\* set are whole seconds.
ListUserTokens(u) == {t \in TokenIDs \ lapsed : <<u, t>> \in userTokens /\ t \in active}

Begin(r, op, u, t) ==
  /\ treq[r] = Free
  /\ treq' = [treq EXCEPT ![r] = [op |-> op, user |-> u, token |-> t]]
Return(r) == treq' = [treq EXCEPT ![r] = Free]

\* The row of a user and the policies on the platform change between any two
\* reads, so that a read is a choice: what it forbids returns early.
-----------------------------------------------------------------------------
\* The row is found by e-mail or by username if it is enabled, and the secret
\* is compared.
IssueToken(r, u) ==
  /\ Begin(r, "issue", u, None)
  /\ UNCHANGED <<issued, active, userTokens, lapsed, revoked>>

accessKey(r) ==
  LET q == treq[r]
  IN  /\ q.op = "issue"
      /\ Return(r)
      /\ \/ \E t \in {i \in TokenIDs : issued[i] = None} :
              issued' = [issued EXCEPT ![t] = q.user] /\ SaveActive(q.user, t)
         \/ UNCHANGED <<issued, active, userTokens>>  \* checkUserRole
      /\ UNCHANGED <<lapsed, revoked>>

RefreshToken(r, t) ==
  LET u == issued[t]
  IN  /\ u # None /\ t \notin lapsed
          /\ Begin(r, "refresh", u, t)
      /\ UNCHANGED <<issued, active, userTokens, lapsed, revoked>>

\* The ID is looked up, then new strings are signed for the same ID.
refreshKey(r) ==
  /\ treq[r].op = "refresh"
  /\ IF IsActive(treq[r].token) THEN treq' = [treq EXCEPT ![r].op = "sign"] ELSE Return(r)
  /\ UNCHANGED <<issued, active, userTokens, lapsed, revoked>>

\* Mutant: a refresh saves the ID again.
signRefreshAndSave(r) ==
  /\ treq[r].op = "sign"
  /\ Return(r)
  /\ IF treq[r].token \notin lapsed THEN SaveActive(treq[r].user, treq[r].token)
                                    ELSE UNCHANGED <<active, userTokens>>
  /\ UNCHANGED <<issued, lapsed, revoked>>

signRefresh(r) ==
  /\ treq[r].op = "sign"
  /\ Return(r)
  /\ UNCHANGED <<issued, active, userTokens, lapsed, revoked>>

\* The session says which user, the request which token.
RevokeRefreshToken(r, u, t) ==
  /\ issued[t] # None
  /\ Begin(r, "revoke", u, t)
  /\ UNCHANGED <<issued, active, userTokens, lapsed, revoked>>

RevokeToken(r) ==
  /\ treq[r].op = "revoke"
  /\ Return(r)
  /\ RemoveActive(treq[r].user, treq[r].token)
  /\ revoked' = revoked \cup {treq[r].token}
  /\ UNCHANGED <<issued, lapsed>>

\* Listing drops what has lapsed from the set of the user.
ListActiveRefreshTokens(u) ==
  /\ userTokens' = {x \in userTokens : x[1] = u => x[2] \notin lapsed}
  /\ UNCHANGED <<issued, active, lapsed, treq, revoked>>

\* The key goes when its time is over; the member of the set stays.
Lapse(t) ==
  /\ issued[t] # None /\ t \notin lapsed
  /\ lapsed' = lapsed \cup {t}
  /\ active' = active \ {t}
  /\ UNCHANGED <<issued, userTokens, treq, revoked>>

Next ==
  \/ \E r \in TokenReqs :
       \/ \E u \in Owners : IssueToken(r, u)
       \/ \E t \in TokenIDs : RefreshToken(r, t)
       \/ \E u \in Owners, t \in TokenIDs : RevokeRefreshToken(r, u, t)
       \/ accessKey(r) \/ refreshKey(r) \/ signRefresh(r) \/ RevokeToken(r)
  \/ \E u \in Owners : ListActiveRefreshTokens(u)
  \/ \E t \in TokenIDs : Lapse(t)

-----------------------------------------------------------------------------
\* Once a revocation of a token has returned, no refresh of the token is let
\* through any more, not even by a refresh that found the ID active before
\* the revocation and finishes after it.
RevokedStaysRevoked == revoked \cap active = {}

\* The list a user is shown is exact: the tokens issued to the user that can
\* still be refreshed, although the set of the user is pruned at listing only
\* and a token may have been revoked in a session of another user.
ListingIsExact == \A u \in Owners : ListUserTokens(u) = {t \in active : issued[t] = u}
=============================================================================
