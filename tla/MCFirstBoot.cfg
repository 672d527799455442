CONSTANTS
    Newest = 2
    UnitOf <- TwoUnits
    FoundBy <- SubstringNames
    MaxTrouble = 0
SPECIFICATION Spec
INVARIANTS
    FirstBootConfigures
