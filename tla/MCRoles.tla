------------------------------ MODULE MCRoles ------------------------------
(* One entity with its built-in role and a second role, one action, one user *)
(* and two handlers in flight.                                               *)
EXTENDS Roles, TLC

CONSTANT e1

MCEntityOf == [r \in RoleIDs |-> e1]

\* Once the stores may be split on every role nothing more is claimed.
SomeRoleWhole == split # RoleIDs

Symmetry == Permutations(Requests)
=============================================================================
