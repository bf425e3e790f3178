----------------------------- MODULE MCAdmission -----------------------------
(* Small instances of Admission for TLC.                                      *)
EXTENDS Admission, TLC

CONSTANTS a1, a2, g1, g2, g3

Symmetry == Permutations(Keys) \cup Permutations(Names)

Roomy == [machines |-> 2, price |-> 3]
Tight == [machines |-> 1, price |-> 3]

\* Two credentials of one account and one of another. Every limit can be the one that
\* binds: the deployment has room for two machines and a price of four, less than the
\* accounts may reserve together and less than there are machines.
Owners      == [g \in Grants |-> IF g = g3 THEN a2 ELSE a1]
Policies    == (g1 :> Roomy) @@ (g2 :> [machines |-> 2, price |-> 1]) @@ (g3 :> Roomy)
AccountsMax == (a1 :> Roomy) @@ (a2 :> Tight)
Deployed    == {[machines |-> 2, price |-> 4]}
BothPrices  == {(1 :> 1) @@ (2 :> 3), (1 :> 2)}

\* At most three admissions and revocations: each key remembered and each credential
\* revoked counts one.
FewRequests == Cardinality(idem) + Cardinality(revoked) <= 3

=============================================================================
