------------------------ MODULE MCTransactionManager ------------------------
(* Instances of TransactionManager for TLC.                                *)
EXTENDS TransactionManager, TLC

\* Transactions of the same kind are interchangeable: no invariant names one.
Symmetry == Permutations(ReadOnlyTxns) \cup Permutations(Txns \ ReadOnlyTxns)

=============================================================================
