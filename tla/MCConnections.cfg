SPECIFICATION PartsSpec
CONSTANTS
  Parts = {"connections", "parents", "listing", "journal"}
  Channels = {c1, c2}
  Clients = {t1}
  Types = {pub}
  Requests = {p, q}
  None = None
  PChannels = {ch}
  PClients = {cl}
  Groups = {g1, g2}
  ParentReqs = {p, q}
  LGroups = {1, 2, 3}
  Entity = Entity
  Domain = Domain
  JClients = {j1, j2}
  Subscribers = {u}
  MaxJournal = 4
  MaxJFaults = 1
SYMMETRY Symmetry
CONSTRAINT Claimed
INVARIANTS PartsTypeOK TablesAgree ParentsMatch ParentExists
INVARIANTS ListedIsViewable PermittedIsViewable OnlyNestedMissed TelemetryFollows
CHECK_DEADLOCK FALSE
