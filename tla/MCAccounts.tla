---------------------------- MODULE MCAccounts ----------------------------
(* The accounts, the refresh tokens and the personal access tokens.  They  *)
(* share no state, so that a behaviour runs one of them: the variable part *)
(* says which, and the state spaces add up.                                *)
EXTENDS Users, TLC

CONSTANTS Owners, TokenIDs, TokenReqs,                    \* Tokens
          PatIDs, Entities, AnyIDs, ScopeIDs, PatReqs,    \* PATs
          MaxList,
          Parts

VARIABLES part,
          issued, active, userTokens, lapsed, treq, revoked,
          pats, scopes, cache, preq, mixed

T == INSTANCE Tokens
P == INSTANCE PATs

\* An owner or a scope is not the mark of a missing one: IDs are UUIDs, and the
\* provider has finitely many of them.
ASSUME AccountsAssumption ==
  /\ None \notin Owners \cup P!Scope
  /\ IsFiniteSet(ScopeIDs)

uVars == <<users, policies, verifs, mails, req, calls, drawn, aged, older, handler,
           faults, signedIn, raced, stripped, stray>>
tVars == <<issued, active, userTokens, lapsed, treq, revoked>>
pVars == <<pats, scopes, cache, preq, mixed>>
allVars == <<part, uVars, tVars, pVars>>

PartsInit == /\ part \in Parts /\ Init /\ T!Init /\ P!Init
             /\ part # "users" => calls = 0

PartsNext == \/ part = "users"  /\ Next   /\ UNCHANGED <<part, tVars, pVars>>
             \/ part = "tokens" /\ T!Next /\ UNCHANGED <<part, uVars, pVars>>
             \/ part = "pats"   /\ P!Next /\ UNCHANGED <<part, uVars, tVars>>

\* A call returns, the ticker of the delete handler fires, time passes, and
\* keys of the cache expire.
PartsFairness ==
  /\ \A r \in Requests : WF_allVars(part = "users" /\ Step(r) /\ UNCHANGED <<part, tVars, pVars>>)
  /\ WF_allVars(part = "users" /\ Handle /\ UNCHANGED <<part, tVars, pVars>>)
  /\ \A u \in UserIDs : WF_allVars(part = "users" /\ Age(u) /\ UNCHANGED <<part, tVars, pVars>>)
  /\ \A r \in PatReqs : WF_allVars(part = "pats" /\ P!Step(r) /\ UNCHANGED <<part, uVars, tVars>>)
  /\ \A k \in PatIDs \X (Entities \cup {AnyIDs}) :
       WF_allVars(part = "pats" /\ P!ExpireKey(k) /\ UNCHANGED <<part, uVars, tVars>>)

PartsSpec == PartsInit /\ [][PartsNext]_allVars /\ PartsFairness

PartsTypeOK == TypeOK /\ T!TypeOK /\ P!TypeOK
RevokedStaysRevoked == T!RevokedStaysRevoked
ListingIsExact == T!ListingIsExact
WildcardAlone == P!WildcardAlone
RemovedScopeEnds == P!RemovedScopeEnds
=============================================================================
