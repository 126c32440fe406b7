SPECIFICATION HttpSpec
CONSTANTS
    WebConn = {w}
    DataConn = {d}
    Looked = {"/reg", "/locationChanged", "/persistent", "/cache"}
    MaxSent = 3
INVARIANTS
    HttpTypeOK
    OwnAnswer
    StoreIsServed
PROPERTIES
    NobodyWaitsForEver
