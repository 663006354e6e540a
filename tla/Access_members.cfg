SPECIFICATION FairSpec
CONSTANTS
    Users = {"ann", "bob"}
    Companies = {"c1"}
    Invites = {"i1"}
    Pages = {"p1"}
    Acceptances = {"a1", "a2"}
    AccessTtl = 1
    RefreshTtl = 2
    InviteTtl = 1
    MaxTime = 2
    CompanyMembershipRole = {"ADMIN", "VIEWER"}
    None = None
    Undefined = Undefined
INVARIANTS
    
    InviteGrantsOnce
PROPERTIES
    OnlyFormerAdminsStrand
    PageIsDecided
CHECK_DEADLOCK FALSE
