SPECIFICATION FairRideSpec
CONSTANTS
    User = {ud, un}
    OldDrivers = {ud}
    OldPassengers = {}
    DriverSid = {d1}
    PassengerSid = {p1, p2}
    OrderId = {o1}
    Posts = {"login", "reg", "setOrder", "locationChanged", "finishOrder"}
    Statuses = {"idle", "ready"}
    NoOrder = {}
    Flaky = {"session"}
    Refused = {}
    Phone = {f1}
    Nobody = Nobody
    Lossy = TRUE
PROPERTIES
    OnlyPartiesFinish
    EveryRequestEnds
    EveryCallReturns
