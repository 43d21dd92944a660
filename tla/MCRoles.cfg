SPECIFICATION Spec
CONSTANTS
  e1 = e1
  Entities = {e1}
  RoleIDs = {r1, r2}
  EntityOf <- MCEntityOf
  Names = {admin, editor}
  Admin = admin
  Actions = {a1}
  Members = {u1}
  Requests = {p, q}
  None = None
SYMMETRY Symmetry
INVARIANTS TypeOK StoresAgree DecisionsMatchRows
CHECK_DEADLOCK FALSE
CONSTRAINT SomeRoleWhole
