-------------------------------- MODULE PATs --------------------------------
(***************************************************************************)
(* Personal access tokens and their scopes (auth/service.go, the repository *)
(* auth/postgres/repo.go and the cache auth/cache/pat.go).  A scope names   *)
(* one entity, or every entity, that an operation is allowed on; the other  *)
(* fields of a scope are compared as they are and are left out.  Scopes are *)
(* read through a cache that no removal but one of a single scope clears.   *)
(***************************************************************************)
EXTENDS Naturals, FiniteSets

CONSTANTS PatIDs,      \* tokens of one user
          Entities,
          AnyIDs,      \* the scope on every entity
          ScopeIDs,    \* IDs the provider can hand out
          PatReqs,     \* service calls that can be in flight
          MaxList,     \* bound: scopes in one call of AddScope
          None

VARIABLES pats,        \* the pats table, as the status of each token
          scopes,      \* the pat_scopes table
          cache,       \* keys of the cache: ID of the scope, per token and entity
          preq,        \* service calls in flight
          mixed        \* history: tokens on which two AddScope calls overlapped, or
                       \* for which one listed every entity and a single one

patVars == <<pats, scopes, cache, preq, mixed>>

Targets == Entities \cup {AnyIDs}
Scope   == [pat : PatIDs, entity : Targets]
Listed  == [id : ScopeIDs, entity : Targets \cup {None}]
Free    == [op |-> "idle", pat |-> None, all |-> {}, todo |-> {}, new |-> {}]

Live(p) == pats[p] \in {"active", "revoked"}

TypeOK ==
  /\ pats \in [PatIDs -> {"none", "active", "revoked", "removed"}]
  /\ scopes \in [ScopeIDs -> Scope \cup {None}]
  /\ \A i \in ScopeIDs : scopes[i] # None => Live(scopes[i].pat)
  /\ \A i, j \in ScopeIDs : scopes[i] # None /\ scopes[i] = scopes[j] => i = j
  /\ cache \in [PatIDs \X Targets -> ScopeIDs \cup {None}]
  /\ \A r \in PatReqs : \/ preq[r] = Free
                         \/ /\ preq[r].pat \in PatIDs /\ preq[r].all \subseteq Listed
                            /\ preq[r].todo \subseteq preq[r].all /\ preq[r].new \subseteq preq[r].all
  /\ mixed \subseteq PatIDs

Init ==
  /\ pats = [p \in PatIDs |-> "none"]
  /\ scopes = [i \in ScopeIDs |-> None]
  /\ cache = [k \in PatIDs \X Targets |-> None]
  /\ preq = [r \in PatReqs |-> Free]
  /\ mixed = {}

\* A call with the scopes it is about.
Begin(r, op, p, S) ==
  /\ preq[r] = Free
  /\ preq' = [preq EXCEPT ![r] = [op |-> op, pat |-> p, all |-> S, todo |-> S, new |-> {}]]
Goto(r, op) == preq' = [preq EXCEPT ![r].op = op]
Return(r) == preq' = [preq EXCEPT ![r] = Free]

-----------------------------------------------------------------------------
(* The tables and the cache.                                               *)
RowsOf(p) == {i \in ScopeIDs : scopes[i] # None /\ scopes[i].pat = p}
Without(I) == [i \in ScopeIDs |-> IF i \in I THEN None ELSE scopes[i]]
Covers(p, e) == {i \in RowsOf(p) : scopes[i].entity \in {e, AnyIDs}}
Drawn == {i \in ScopeIDs : \/ scopes[i] # None
                           \/ \E k \in DOMAIN cache : cache[k] = i
                           \/ \E r \in PatReqs : \E x \in preq[r].all : x.id = i}

cacheSave(p, S) ==
  [k \in DOMAIN cache |-> IF k[1] = p /\ \E x \in S : x.entity = k[2]
                          THEN (CHOOSE x \in S : x.entity = k[2]).id ELSE cache[k]]
cacheCheckScope(p, e) == cache[<<p, e>>] # None \/ cache[<<p, AnyIDs>>] # None
cacheRemove(I) == [k \in DOMAIN cache |-> IF cache[k] \in I THEN None ELSE cache[k]]
cacheRemoveUserAllScope == [k \in DOMAIN cache |-> None]

\* The pattern has no wildcard and the user is empty: it matches no key.
cacheRemoveAllScope(p) == cache

-----------------------------------------------------------------------------
(* Tokens.                                                                 *)
CreatePAT(p) ==
  /\ pats[p] = "none"
  /\ pats' = [pats EXCEPT ![p] = "active"]
  /\ UNCHANGED <<scopes, cache, preq, mixed>>

RevokePATSecret(p) ==
  /\ Live(p)
  /\ pats' = [pats EXCEPT ![p] = "revoked"]
  /\ UNCHANGED <<scopes, cache, preq, mixed>>

\* The secret is replaced, then the token is reactivated; which secret a
\* token has is left out.
ResetPATSecret(r, p) ==
  /\ Live(p)
  /\ Begin(r, "reactivate", p, {})
  /\ UNCHANGED <<pats, scopes, cache, mixed>>

Reactivate(r) ==
  /\ preq[r].op = "reactivate"
  /\ pats' = IF Live(preq[r].pat) THEN [pats EXCEPT ![preq[r].pat] = "active"] ELSE pats
  /\ Return(r)
  /\ UNCHANGED <<scopes, cache, mixed>>

\* Mutant: the scopes stay.
DeletePATOnly(p) ==
  /\ Live(p)
  /\ pats' = [pats EXCEPT ![p] = "removed"]
  /\ UNCHANGED <<scopes, cache, preq, mixed>>

\* The rows of the scopes go with the token; the cache is not touched.
DeletePAT(p) ==
  /\ Live(p)
  /\ pats' = [pats EXCEPT ![p] = "removed"]
  /\ scopes' = Without(RowsOf(p))
  /\ UNCHANGED <<cache, preq, mixed>>

RemoveAllPAT(r) ==
  /\ \E p \in PatIDs : Begin(r, "clear", p, {})
  /\ pats' = [p \in PatIDs |-> IF Live(p) THEN "removed" ELSE pats[p]]
  /\ scopes' = Without(ScopeIDs)
  /\ UNCHANGED <<cache, mixed>>

ClearCache(r) ==
  /\ preq[r].op = "clear"
  /\ cache' = cacheRemoveUserAllScope
  /\ Return(r)
  /\ UNCHANGED <<pats, scopes, mixed>>

-----------------------------------------------------------------------------
(* Scopes.                                                                 *)
\* Mutant: a scope on every entity is a scope like any other.
processScopeAny(p, e) == "insert"

\* A scope is refused when there is one on every entity; a new one on every
\* entity replaces the one row there is, and fails on more, which would be
\* equal after the update.
processScope(p, e) ==
  IF \E i \in RowsOf(p) : scopes[i].entity = AnyIDs THEN "refuse"
  ELSE IF e # AnyIDs \/ RowsOf(p) = {} THEN "insert"
  ELSE IF Cardinality(RowsOf(p)) = 1 THEN "replace" ELSE "refuse"

Adding == {"add", "save"}

\* An ID for each scope, then one after the other through processScope; any order
\* of the list is a request somebody can make.
AddScope(r, p, n) ==
  /\ Live(p) /\ Cardinality(ScopeIDs \ Drawn) >= n
  /\ LET I == CHOOSE J \in SUBSET (ScopeIDs \ Drawn) : Cardinality(J) = n
     IN  \E entity \in [I -> Targets] :
           /\ Begin(r, "add", p, {[id |-> i, entity |-> entity[i]] : i \in I})
           /\ mixed' = IF \/ \E q \in PatReqs : preq[q].op \in Adding /\ preq[q].pat = p
                          \/ \E i, j \in I : entity[i] = AnyIDs /\ entity[j] # AnyIDs
                       THEN mixed \cup {p} ELSE mixed
  /\ UNCHANGED <<pats, scopes, cache>>

\* A scope that is refused ends the call; what was replaced before stays replaced.
ProcessScope(r) ==
  LET q == preq[r]
  IN  /\ q.op = "add"
      /\ \E x \in q.todo :
           LET found == processScope(q.pat, x.entity)
           IN  /\ IF found = "refuse" THEN Return(r)
                  ELSE preq' = [preq EXCEPT ![r].todo = @ \ {x},
                                            ![r].new = IF found = "insert" THEN @ \cup {x} ELSE @]
               /\ scopes' = [i \in ScopeIDs |-> IF found = "replace" /\ i \in RowsOf(q.pat)
                                                THEN [pat |-> q.pat, entity |-> x.entity]
                                                ELSE scopes[i]]
      /\ UNCHANGED <<pats, cache, mixed>>

\* One INSERT for all that is new: a row that is there, or listed twice, refuses it.
InsertScopes(r) ==
  LET q  == preq[r]
      ok == /\ q.new # {} => Live(q.pat)
            /\ \A x \in q.new : /\ \A i \in RowsOf(q.pat) : scopes[i].entity # x.entity
                                /\ \A y \in q.new : x.entity = y.entity => x = y
      row(i) == {x \in q.new : x.id = i}
  IN  /\ q.op = "add" /\ q.todo = {}
      /\ IF ok THEN Goto(r, "save") ELSE Return(r)
      /\ scopes' = [i \in ScopeIDs |->
            IF ok /\ row(i) # {} THEN [pat |-> q.pat, entity |-> (CHOOSE x \in row(i) : TRUE).entity]
            ELSE scopes[i]]
      /\ UNCHANGED <<pats, cache, mixed>>

\* The last step of AddScope, with all that were listed, and of CheckScope.
SaveScope(r) ==
  /\ preq[r].op \in {"save", "fill"}
  /\ cache' = cacheSave(preq[r].pat, preq[r].all)
  /\ Return(r)
  /\ UNCHANGED <<pats, scopes, mixed>>

\* AuthorizePAT.  A key of the cache answers at once and changes nothing.
CheckScope(r, p, e) ==
  /\ ~cacheCheckScope(p, e)
  /\ \E i \in Covers(p, e) : Begin(r, "fill", p, {[id |-> i, entity |-> scopes[i].entity]})
  /\ UNCHANGED <<pats, scopes, cache, mixed>>

\* Several rows in one DELETE, if only one of them is there.
RemoveScope(r, p, I) ==
  /\ Live(p) /\ \E i \in I : scopes[i] # None
  /\ Begin(r, "remove", p, {[id |-> i, entity |-> None] : i \in I})
  /\ scopes' = Without(I)
  /\ UNCHANGED <<pats, cache, mixed>>

UncacheScope(r) ==
  /\ preq[r].op = "remove"
  /\ cache' = cacheRemove({x.id : x \in preq[r].all})
  /\ Return(r)
  /\ UNCHANGED <<pats, scopes, mixed>>

RemovePATAllScope(p) ==
  /\ scopes' = Without(RowsOf(p))
  /\ cache' = cacheRemoveAllScope(p)
  /\ UNCHANGED <<pats, preq, mixed>>

\* Mutant: a key is set without a duration.
keysExpireNever == FALSE

\* A key is set with the duration of the cache.
keysExpire == TRUE

ExpireKey(k) ==
  /\ keysExpire /\ cache[k] # None
  /\ cache' = [cache EXCEPT ![k] = None]
  /\ UNCHANGED <<pats, scopes, preq, mixed>>

-----------------------------------------------------------------------------
Step(r) == Reactivate(r) \/ ClearCache(r) \/ ProcessScope(r) \/ InsertScopes(r) \/ SaveScope(r)
           \/ UncacheScope(r)

Next ==
  \/ \E r \in PatReqs :
       \/ Step(r) \/ RemoveAllPAT(r)
       \/ \E p \in PatIDs : ResetPATSecret(r, p)
       \/ \E p \in PatIDs, n \in 1..MaxList : AddScope(r, p, n)
       \/ \E p \in PatIDs, e \in Entities : CheckScope(r, p, e)
       \/ \E p \in PatIDs, I \in SUBSET ScopeIDs : RemoveScope(r, p, I)
  \/ \E p \in PatIDs : CreatePAT(p) \/ RevokePATSecret(p) \/ DeletePAT(p) \/ RemovePATAllScope(p)
  \/ \E k \in DOMAIN cache : ExpireKey(k)

-----------------------------------------------------------------------------
\* IdentifyPAT, then AuthorizePAT.
LetThrough(p, e) == /\ pats[p] = "active"
                    /\ cacheCheckScope(p, e) \/ Covers(p, e) # {}

\* A token with a scope on every entity has no other scope: processScope refuses or
\* replaces the others.  It reads the table before any scope of its call is written,
\* so this fails when two calls of AddScope overlap, and when one call lists both.
WildcardAlone ==
  \A p \in PatIDs \ mixed :
    (\E i \in RowsOf(p) : scopes[i].entity = AnyIDs) => Cardinality(RowsOf(p)) = 1

\* A scope that has no row any more stops being let through: the keys that
\* removals leave in the cache, or a late CheckScope puts back, expire.
RemovedScopeEnds ==
  \A p \in PatIDs, e \in Entities :
    Covers(p, e) = {} ~> (~LetThrough(p, e) \/ Covers(p, e) # {})
=============================================================================
