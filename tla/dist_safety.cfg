SPECIFICATION Spec
CONSTANTS
    N = 3
    MaxTx = 3
    Keyed <- OneSession
    Faults <- AllFaults
INVARIANTS TypeOK Atomic AnswerIsTrue
PROPERTY AtomicSpec
CHECK_DEADLOCK FALSE
