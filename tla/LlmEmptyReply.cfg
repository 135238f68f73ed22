CONSTANTS
    Prompts <- MCPrompts
    Scenarios <- EmptyReplies
    NULL = NULL
    Unset = Unset
    Extra = Extra
SPECIFICATION Spec
INVARIANTS
    NoForeignAnswer
CHECK_DEADLOCK FALSE
