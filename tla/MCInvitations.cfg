SPECIFICATION PartsSpec
CONSTANTS
  Parts = {"invitations", "access"}
  Users = {u1, u2}
  RoleIDs = {r1, r2}
  Names = {admin, viewer}
  Admin = admin
  Creator = u1
  Requests = {p, q}
  None = None
  Secrets = {s1, s2}
  Senders = {snd}
  Admins = {adm1}
  MaxEvents = 2
SYMMETRY Symmetry
INVARIANTS PartsTypeOK AcceptedIsMember AnsweredOnce StaleExplained
PROPERTY LastMemberStays
CONSTRAINT FewExcepted
