--------------------------- MODULE MCRowVersions ---------------------------
(* The model of RowVersions that TLC checks: transactions are model values, *)
(* and writers can be exchanged for each other.                             *)
EXTENDS RowVersions, TLC

Symmetry == Permutations(Writers) \cup Permutations(Txns \ Writers)

=============================================================================
