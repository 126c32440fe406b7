SPECIFICATION LogSpec
CONSTANTS
    DaysPerMonth = 2
    MonthsPerYear = 2
    LastDay = 4
INVARIANTS
    LogTypeOK
    ChainFits
    FiledUnlessDisturbed
PROPERTIES
    LogReturns
