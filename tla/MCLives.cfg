SPECIFICATION LivesSpec
CONSTANTS
    MaxBuffers = 3
    r = r
    a = a
    b = b
    None = None
    Root = r
    Movies = {r, a, b}
    MaxQueue = 2
INVARIANTS
    ResourceInv
PROPERTIES
    SignalsInOrder
    EndIsReported
    RemovedGetsDestroyed
CHECK_DEADLOCK FALSE
