SPECIFICATION Spec
CONSTANTS
    Txns = {t1, t2, t3}
    Nobody = Nobody
    VectorCount = 2
    STANDARD_VECTOR_SIZE = 3
    INITIAL_ROWS = 2
    TRANSACTION_ID_START = 20
    NOT_DELETED_ID = 30
    RepeatedRows = TRUE
    Writers = {t1, t2}
    MAX_DELETES = 1
    MAX_ROWS = 4
SYMMETRY Symmetry
INVARIANTS TypeOK OneDeleter  MarksMatchUndo FetchAgreesWithScan StoredDeletesCurrent
CHECK_DEADLOCK FALSE
