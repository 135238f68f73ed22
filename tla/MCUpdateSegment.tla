-------------------------- MODULE MCUpdateSegment --------------------------
(* Three transactions on a vector of two rows, the second of which is NULL. *)
EXTENDS UpdateSegment

CONSTANTS t1, t2, t3

MCTxns      == {t1, t2, t3}
MCRows      == 0..1
MCTargets   == {{0}, {1}}
MCValues    == {1, 2, NULL}
MCNewValues == t1 :> {2, NULL} @@ t2 :> {1, NULL} @@ t3 :> {}
MCInitial   == [r \in MCRows |-> IF r = 0 THEN 1 ELSE NULL]
MCMaxUpdates == t1 :> 2 @@ t2 :> 1 @@ t3 :> 0
=============================================================================
