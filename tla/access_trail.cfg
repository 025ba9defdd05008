SPECIFICATION Spec
CONSTANTS
    ann = ann
    bob = bob
    eve = eve
    People <- MCPeople
    Founder = ann
    Support = {eve}
    Operations <- AllOperations
    Requests = {r1, r2}
    PoolSize = 2
    MaxEvents = 5
INVARIANTS
    TrailIsIntact
CHECK_DEADLOCK FALSE
