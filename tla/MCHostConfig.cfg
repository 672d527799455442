CONSTANTS
    Newest = 2
    UnitOf <- TwoUnits
    FoundBy <- SubstringNames
    MaxTrouble = 2
SPECIFICATION FairSpec
INVARIANTS
    TypeOK
    Lands
PROPERTIES
    ThinjailKept
    RunningReached
    EndsConfigured
