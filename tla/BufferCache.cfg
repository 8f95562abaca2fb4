CONSTANTS
    Block = {b1, b2, b3, b4}
    NULL = NULL
SPECIFICATION Spec
INVARIANTS Exclusive CacheIsQueue
CHECK_DEADLOCK FALSE
