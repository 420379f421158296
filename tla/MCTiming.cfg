CONSTANTS
    Environments <- Settings
    Default <- Defaults
    Unset = Unset
    Invalid = Invalid
    LeaseMargin <- Margin
    MaxAge = 26
SPECIFICATION Spec
CHECK_DEADLOCK FALSE
INVARIANTS
    TypeOK
    LockCoversBatch
    LeaseCoversCall
