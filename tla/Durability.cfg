SPECIFICATION Spec
CONSTANTS
    t1 = t1
    t2 = t2
    t3 = t3
    t4 = t4
    Nil = Nil
    Txns <- MCTxns
    Kind <- MCKind
    Target <- MCTarget
    MAX_BLOCKS = 9
    MAX_CRASHES = 2
    MAX_CHECKPOINTS = 2
    LateFailures = FALSE
INVARIANTS
    TypeOK
    
    Recoverable
    UsedNotFree
    RefusalHarmless
CHECK_DEADLOCK FALSE
