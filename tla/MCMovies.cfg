SPECIFICATION Spec
CONSTANTS
    r = r
    a = a
    b = b
    None = None
    Root = r
    Movies = {r, a, b}
    MaxQueue = 2
INVARIANTS
    ActionsHaveActors
    ChildrenComeFirst
    LoopsStandOnActors
PROPERTIES
    RemovalQueuesUnload
CHECK_DEADLOCK FALSE
SYMMETRY MovieSymmetry
