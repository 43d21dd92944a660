SPECIFICATION ReliableSpec
CONSTANTS
  e1 = e1
  Entities = {e1}
  RoleIDs = {r1, r2}
  EntityOf <- MCEntityOf
  Names = {admin, editor}
  Admin = admin
  Actions = {a1}
  Members = {u1}
  Requests = {p}
  None = None
INVARIANT RemovalNotRefused
CHECK_DEADLOCK FALSE

