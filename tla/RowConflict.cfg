SPECIFICATION Spec
CONSTANTS
    Txns = {t1, t2}
    Nobody = Nobody
    VectorCount = 1
    STANDARD_VECTOR_SIZE = 3
    INITIAL_ROWS = 2
    TRANSACTION_ID_START = 20
    NOT_DELETED_ID = 30
    RepeatedRows = TRUE
    Writers = {t1, t2}
    MAX_DELETES = 2
    MAX_ROWS = 3
PROPERTIES ConflictRestoresMarks
CHECK_DEADLOCK FALSE
