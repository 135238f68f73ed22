CONSTANTS
    t1 = t1
    t2 = t2
    t3 = t3
    Txns = {t1, t2, t3}
    ReadOnlyTxns = {t3}
    InMemory = FALSE
    Kinds = {"append", "update"}
    Commands = {"CHECKPOINT"}
    Nobody = Nobody
    Command = Command
    TRANSACTION_ID_START = 20
    MAXIMUM_QUERY_ID = 1
SPECIFICATION Spec
SYMMETRY Symmetry
INVARIANTS
    ListInv
    NoStrandedCleanup
    CheckpointExcludesWriters
    FullCheckpointSafe
    CheckpointAfterCleanup
    WalInCommitOrder
    KeysReleased
CHECK_DEADLOCK FALSE
