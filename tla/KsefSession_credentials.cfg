SPECIFICATION FairSessionSpec
CONSTANTS
    Requests = {"w1"}
    Admins = {"a1", "a2"}
    t1 = t1
    t2 = t2
    p1 = p1
    Tokens <- MCTokens
    EnvironmentOf <- MCEnvironmentOf
    EnvironmentVariable = NoToken
    NoToken = NoToken
    LegacyCookie = NoToken
    MaxFaults = 1
    MaxChanges = 2
INVARIANTS
    SessionFollowsCredential
    RunsWhereItWasPressed
    SecondCopyOnlyFromMisreading
PROPERTIES
    AccessReturns
CHECK_DEADLOCK FALSE
