---------------------------- MODULE MCDurability ----------------------------
(* Instances of Durability: two transactions write row groups, of a table  *)
(* without and of one with an index, the third drops the first table, the  *)
(* fourth creates an entry without data.                                   *)
EXTENDS Durability

CONSTANTS t1, t2, t3, t4

MCTxns == {t1, t2, t3, t4}
MCKind == [t \in MCTxns |-> CASE t = t1 -> "bulk" [] t = t2 -> "indexed"
                               [] t = t3 -> "drop" [] t = t4 -> "catalog"]
MCTarget == [t \in MCTxns |-> IF t = t3 THEN t1 ELSE Nil]

=============================================================================
