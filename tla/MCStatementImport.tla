-------------------------- MODULE MCStatementImport --------------------------
(* Instances of StatementImport for TLC, with a bound on what goes wrong:  *)
(* processes that end early, credentials the user destroys himself and     *)
(* bank accounts with an undone deletion beside a copy.                    *)
EXTENDS StatementImport, Naturals, TLC

CONSTANT MaxMishaps

Died == {i \in Imports : pc[i] = "failed"}
Killed == {a \in Imports : removal[a] = "dead"}
Mishaps == Cardinality(Died) + Cardinality(Killed) + Cardinality(revoked) + Cardinality(revived)

MCSpec == Init /\ [][Next /\ Mishaps' <= MaxMishaps]_vars

ImportSymmetry == Permutations(Imports) \cup Permutations(Numbers)
=============================================================================
