SPECIFICATION Spec
CONSTANTS
    User = {ud, up}
    OldDrivers = {ud}
    OldPassengers = {up}
    DriverSid = {d1, d2}
    PassengerSid = {p1}
    OrderId = {o1, o2}
    Posts = {"login", "setOrder", "locationChanged", "finishOrder"}
    Statuses = {"ready", "driving"}
    NoOrder = {}
    Flaky = {"passenger_orderid"}
    Refused = {p1}
SYMMETRY RideSymmetry
INVARIANTS
    NoDanglingOrder
    BusyIsNotPooled
PROPERTIES
    NoResurrection
    RightNames
    OwnPosition
CHECK_DEADLOCK FALSE
