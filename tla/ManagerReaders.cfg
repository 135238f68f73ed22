CONSTANTS
    t1 = t1
    t2 = t2
    t3 = t3
    Txns = {t1, t2, t3}
    ReadOnlyTxns = {t2, t3}
    InMemory = FALSE
    Kinds = {"update"}
    Commands = {}
    Nobody = Nobody
    Command = Command
    TRANSACTION_ID_START = 20
    MAXIMUM_QUERY_ID = 3
SPECIFICATION Spec
SYMMETRY Symmetry
INVARIANTS
    TypeOK
    CleanupSafe
    NoReaderOfFreedMemory
    LowestActiveStartExact
    IdleKeepsNothing
CHECK_DEADLOCK FALSE
