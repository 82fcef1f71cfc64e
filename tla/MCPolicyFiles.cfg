SPECIFICATION FairSpec
CONSTANTS
    here = here
    there = there
    elsewhere = elsewhere
    nowhere = nowhere
    MaxLoads = 3
    Hosts <- MCHosts
    Permission <- MCPermission
    MaxPolicies = 1
PROPERTIES
    ImplementsRequirement
    EveryLoadEnds
CHECK_DEADLOCK FALSE
