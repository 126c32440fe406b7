SPECIFICATION HttpSpec
CONSTANTS
    WebConn = {w}
    DataConn = {d}
    Looked = {"/reg", "/locationChanged", "/persistent", "/cache"}
    MaxSent = 1
INVARIANTS
    PhonesAreServed
