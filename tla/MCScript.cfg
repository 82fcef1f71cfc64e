SPECIFICATION AllSpec
CONSTANTS
    Scripts <- MCScripts
    Code <- MCCode
    MaxDepth = 3
    MaxBlocks = 2
    theGlobal = theGlobal
    aFunction = aFunction
    anObject = anObject
    Objects = {theGlobal, aFunction, anObject}
    Global = theGlobal
    Native = aFunction
    Names = {"f", "x", "__proto__"}
    NativeName = "f"
    Proto = "__proto__"
    Undefined = Undefined
    Freed = Freed
    RecursionLimit = 2
    Watches = {1, 2}
    WatchLimit = 1
    Uses <- MCUses
    FlagChanges = {"constant", "later"}
    MaxChanges = 4
INVARIANTS
    BlocksFollowCode
    WatchesAreCounted
    ChainFollowsVariable
PROPERTIES
    
    RunEnds
    GarbageGoes
CHECK_DEADLOCK FALSE
