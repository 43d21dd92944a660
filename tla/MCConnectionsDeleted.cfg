SPECIFICATION ReliablePartSpec
CONSTANTS
  Parts = {"connections"}
  Channels = {c1, c2}
  Clients = {t1}
  Types = {pub}
  Requests = {p, q}
  None = None
  PChannels = {ch}
  PClients = {cl}
  Groups = {g1, g2}
  ParentReqs = {p, q}
  LGroups = {1, 2, 3}
  Entity = Entity
  Domain = Domain
  JClients = {j1}
  Subscribers = {u}
  MaxJournal = 0
  MaxJFaults = 0
SYMMETRY Symmetry
INVARIANT DeletedClientsDisconnected
CHECK_DEADLOCK FALSE
