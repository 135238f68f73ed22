CONSTANTS
    Prompts <- MCPrompts
    Scenarios <- MCScenarios
    NULL = NULL
    Unset = Unset
    Extra = Extra
SPECIFICATION FairSpec
INVARIANTS
    TypeOK RowsHoldOwnAnswer CacheFaithful AskedOnce
PROPERTIES
    Terminates
CHECK_DEADLOCK FALSE
