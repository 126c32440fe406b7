SPECIFICATION ScreenSpec
CONSTANTS
    Place = {a, b}
    Nothing = Nothing
    MaxAsked = 3
INVARIANTS
    ScreenTypeOK
    RouteStartsAtStart
    SettledScreen
