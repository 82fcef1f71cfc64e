SPECIFICATION Spec
CONSTANTS
    Scripts <- MCScripts
    Code <- MCCode
    MaxDepth = 2
    MaxBlocks = 2
INVARIANTS
    BlocksAreEntered
CHECK_DEADLOCK FALSE
