SPECIFICATION Spec
CONSTANTS
    r = r
    a = a
    b = b
    None = None
    Root = r
    Movies = {r, a}
    MaxQueue = 1
INVARIANTS
    DisposeLeavesNoActors
CHECK_DEADLOCK FALSE
