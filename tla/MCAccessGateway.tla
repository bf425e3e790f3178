--------------------------- MODULE MCAccessGateway ---------------------------
(* Model-checking instances of AccessGateway.                               *)
EXTENDS AccessGateway, TLC

\* Workers, sessions and connection ids are interchangeable.
IdSymmetry     == Permutations(Conns) \cup Permutations(Workers) \cup Permutations(Sessions)

\* Connections used, sessions admitted, grants delegated, workers busy, and whether
\* the machine has moved on: at most four at a time.
FewInPlay ==
  Cardinality({c \in Conns : gw[c].pc # "new"})
    + Cardinality({s \in Sessions : Admitted(s)})
    + Cardinality({g \in Grants \ {Root} : grants[g].live})
    + Cardinality({w \in Workers : wk[w].pc # "idle"})
    + (IF machine.version > 1 THEN 1 ELSE 0) <= 4

=============================================================================
