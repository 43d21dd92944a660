SPECIFICATION Spec
CONSTANTS
  Groups = {g1, g2, g3}
  Domains = {d1, d2}
  Names = {n1, n2}
  Routes = {x1, x2}
  MaxPathLength = 3
  RoleIDs = {r1, r2}
  RoleNames = {admin, other}
  BuiltInRoleAdmin = admin
  Actions = {a}
  Members = {m1}
  None = None
  MaxOps = 2
  MaxFaults = 1
  g1 = g1
  g2 = g2
  d1 = d1
  r1 = r1
  m1 = m1
  n1 = n1
  x1 = x1
  Secrets = {s1, s2}
  Senders = {snd}
  Admins = {adm1}
  MaxEvents = 1
  Callers = {c1, c2}
  Consumers = {k1, k2}
  Idle = Idle
  MaxUnpublishedEvents = 2
  eventCount = 2
  MaxEntries = 3
  MaxIssued = 3
  MaxOutages = 2
  MaxBuffered = 1
  MaxPublished = 3
  MaxSlips = 1
INVARIANTS TypeOK ReplicaFollows RefusalsExplained AcceptedKept HandledOnce
PROPERTIES CaughtUp InOrder ShutOut Drained Delivered ConsumerRemoved
CHECK_DEADLOCK FALSE
