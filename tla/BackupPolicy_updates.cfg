SPECIFICATION Spec
CONSTANTS
    Companies = {"c1"}
    Runners = {}
    Requests = {"q1", "q2"}
    Flows = {1, 2}
    Zones = {"Warsaw"}
    Inputs <- MCInputs
    InitialPolicies <- MCUnset
    MaxTime = 2
    LocalDay <- MCLocalDay
    LocalTime <- MCLocalTime
    StateMaxAge = 1
    NoCompany = NoCompany
    Null = Null
    Undefined = Undefined
INVARIANTS
    PolicyIsConsistent

    
CHECK_DEADLOCK FALSE
