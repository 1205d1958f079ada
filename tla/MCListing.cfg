CONSTANTS
    f = f
    g = g
    h = h
    Nil = nil
    Fields <- MCFields
    OneWord <- MCOneWord
    Conditions <- MCConditions
    Nesting = 2
    Height <- MCHeight
    Requests <- MCRequests
    MaxWheres = 2
    r1 = r1
    r2 = r2
    r3 = r3
    NoKey = nokey
    Rows <- MCRows
    Tables <- MCTables
    Value <- MCValue
    Facts <- MCFacts
    Plans <- MCPlans
    Text <- MCText
    SelectLimit = 2
    MaxInt = 3
    MaxPages = 4
    MaxWrites = 1
SPECIFICATION ListingSpec
INVARIANTS ClauseMeansConditions ArgumentsMatchText UrlFiltersKept PagesCoverList TotalMatchesPage
PROPERTIES KeepsPromises
CHECK_DEADLOCK FALSE
