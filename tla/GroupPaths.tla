---------------------------- MODULE GroupPaths ----------------------------
(* The text functions of PostgreSQL that rewrite the LTREE column path of  *)
(* the table of groups.  A path is the sequence of its labels, group IDs.  *)
EXTENDS Naturals, Sequences

\* replace(path, pre || '.', ''): every occurrence of pre that another label
\* follows goes.
Strip(s, pre) ==
  LET n == Len(pre)
      from[i \in 1 .. Len(s) + 1] ==
        IF i > Len(s) THEN <<>>
        ELSE IF i + n <= Len(s) /\ SubSeq(s, i, i + n - 1) = pre THEN from[i + n]
        ELSE <<s[i]>> \o from[i + 1]
  IN  from[1]
=============================================================================
