SPECIFICATION PartsSpec
CONSTANTS
  UserIDs = {a, u, v}
  Emails = {ea, eu}
  Admin = a
  AdminEmail = ea
  Requests = {p, q}
  MaxCalls = 3
  MaxFaults = 1
  defLimit = 1
  Owners = {u, v}
  TokenIDs = {t1, t2}
  TokenReqs = {p, q}
  PatIDs = {k1}
  Entities = {e1, e2}
  AnyIDs = any
  ScopeIDs = {s1, s2}
  PatReqs = {p, q}
  MaxList = 2
  Parts = {"users", "tokens", "pats"}
  None = None
INVARIANTS PartsTypeOK VerifiedEmail PoliciesFollowRows RevokedStaysRevoked ListingIsExact
  WildcardAlone
PROPERTIES PlainUsersPurged RemovedScopeEnds
