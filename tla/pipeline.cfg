SPECIFICATION OpSpec
CONSTANTS
    Field = {fu, fo}
    Value = {v1, v2}
    NoValue = NoValue
    Failing = TRUE
    Refusing = TRUE
INVARIANTS
    OpTypeOK
    OwnReplies
    AsOneStep
    GotOwnValues
    SingleWriteIsTold
PROPERTIES
    RequestSpec
    EveryCallEnds
