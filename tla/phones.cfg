SPECIFICATION RideSpec
CONSTANTS
    User = {ud, up}
    OldDrivers = {ud}
    OldPassengers = {up}
    DriverSid = {d1}
    PassengerSid = {p1, p2}
    OrderId = {o1}
    Posts = {"login", "setOrder", "locationChanged", "finishOrder"}
    Statuses = {"idle", "ready", "waiting"}
    NoOrder = {}
    Flaky = {}
    Refused = {}
    Phone = {f1, f2}
    Nobody = Nobody
    Lossy = FALSE
SYMMETRY PhoneSymmetry
INVARIANTS
    RideTypeOK
    KnownOrderIsShown
PROPERTIES
    OnlyPartiesFinish
    PhonesAreClients
