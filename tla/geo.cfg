SPECIFICATION GeoSpec
CONSTANTS
    Driver = {d1, d2, d3}
    NoDriver = NoDriver
    Kilometre = 2
    GEO_RADIUS = 1
    Far = 3
    Capacity = 2
    Longest = 2
    Killing = TRUE
INVARIANTS
    GeoTypeOK
    NearestIsTaken
    OverrunIsLeftovers
PROPERTIES
    EveryQueryEnds
