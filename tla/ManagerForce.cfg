CONSTANTS
    t1 = t1
    t2 = t2
    t3 = t3
    Txns = {t1, t2}
    ReadOnlyTxns = {}
    InMemory = FALSE
    Kinds = {"index_delete"}
    Commands = {"CHECKPOINT", "FORCE CHECKPOINT"}
    Nobody = Nobody
    Command = Command
    TRANSACTION_ID_START = 20
    MAXIMUM_QUERY_ID = 1
SPECIFICATION FairSpec
INVARIANTS
    LockInv
PROPERTIES
    EndsEventually
    ForceObtainsLock
CHECK_DEADLOCK FALSE
