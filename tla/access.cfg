SPECIFICATION FairSpec
CONSTANTS
    ann = ann
    bob = bob
    eve = eve
    People <- MCPeople
    Founder = ann
    Support = {eve}
    Operations <- AllOperations
    Requests = {r1, r2}
    PoolSize = 2
    MaxEvents = 5
INVARIANTS
    TrailExplainsMemberships
    OwnersComeFromOwners
PROPERTIES
    EveryRequestEnds
CHECK_DEADLOCK FALSE
