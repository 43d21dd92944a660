-------------------------- MODULE MCGroupHierarchy --------------------------
(* Three groups and two handlers in flight. *)
EXTENDS GroupHierarchy

CONSTANTS PathBound,  \* length of a path while paths follow the parents
          StaleBound  \* and afterwards: stale paths may grow without limit

ShortPaths == \A g \in Groups : Len(path[g]) <= IF clean THEN PathBound ELSE StaleBound

\* A link that was split is not claimed any more; what the others do does not
\* depend on it.
Whole == split = {}

\* One disabled group and one handler, or two handlers and none disabled but
\* those being deleted.
FewDisabled ==
  LET busy == {p \in Requests : req[p] # Idle}
      going == {req[p].group : p \in {o \in busy : req[o].op = "DeleteGroup"}}
  IN  Cardinality(busy) + Cardinality({g \in Groups \ (enabled \cup going) : Exists(g)}) <= 2

\* No group is disabled but those being deleted.
NoneDisabled ==
  \A g \in Groups : Exists(g) /\ g \notin enabled =>
    \E p \in Requests : req[p].op = "DeleteGroup" /\ req[p].group = g

Symmetry == Permutations(Groups) \cup Permutations(Requests)
=============================================================================
