SPECIFICATION Spec
CONSTANTS
    Contractors <- MCContractors
    Templates <- MCTemplates
    Prices <- MCPrices
    OtherName = OtherName
    InitialRates <- MCInitialRates
    InitialRows <- MCInitialRows
    MaxLines = 2
    MaxRates = 1
    MaxVisits = 1
    MaxTroubles = 1
    None = None
INVARIANTS
    SaveGoesToItsTemplate
    SummaryIsOfSelected
    
    PriceIsOfItsBuyer
    PageShowsTheInvoice
CHECK_DEADLOCK FALSE
