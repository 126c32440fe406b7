SPECIFICATION Spec
CONSTANTS
    User = {ud, un}
    OldDrivers = {ud}
    OldPassengers = {}
    DriverSid = {d1}
    PassengerSid = {p1}
    OrderId = {o1}
    Posts = {"login", "reg", "setOrder", "locationChanged", "finishOrder"}
    Statuses = {"ready", "driving", "traveling"}
    NoOrder = {"NONE"}
    Flaky = {"idle", "login", "reg", "session", "lifecycle", "radius", "create_order",
             "driver_orderid", "passenger_orderid", "exist", "touch", "get_orderid",
             "rem_geo", "add_geo", "start_real", "set_dtemp", "set_ptemp", "get_order",
             "p_name", "d_name", "insert", "d_none", "p_none", "delete", "reply"}
    Refused = {p1}
INVARIANTS
    FinishedIsDone
    OrderedIsAssigned
    SessionIsRegistered
    HandedSessionExpires
PROPERTIES
    BookSpec
    NoOrderLost
CHECK_DEADLOCK FALSE
