SPECIFICATION FairSpec
CONSTANTS
    Companies = {"c1", "c2"}
    Runners = {"r1", "r2"}
    Requests = {}
    Flows = {}
    Zones = {"Warsaw"}
    Inputs <- MCNoInputs
    InitialPolicies <- MCSchedules
    MaxTime = 2
    LocalDay <- MCLocalDay
    LocalTime <- MCLocalTime
    StateMaxAge = 1
    NoCompany = NoCompany
    Null = Null
    Undefined = Undefined
INVARIANTS
    SlotRunsOnce
PROPERTIES
    SlotIsServed
CHECK_DEADLOCK FALSE
