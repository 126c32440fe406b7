------------------------------ MODULE WebServer ------------------------------
(***************************************************************************)
(* The web server (src/server_https): the five POST handlers.              *)
(*                                                                         *)
(* The server is one libevent loop and curl_send blocks, so one request is *)
(* handled at a time, from its acceptance to its reply.  A handler is a    *)
(* chain of remote calls guarded by "if (ret == 0)"; pc is the next call   *)
(* of the chain and req the handler's locals, so there is one action for   *)
(* each remote call.  Between two calls Redis may expire a key and the     *)
(* server may be killed (start-up.sh uses kill -9); any call may fail,     *)
(* with or without having been executed.  A write at a key of Refused may  *)
(* be refused and answered "ok": what is said below of sessions and orders *)
(* is said of the other ones.                                              *)
(***************************************************************************)
EXTENDS DataServer

CONSTANTS
    Posts,      \* BOUND: the requests clients post
    Statuses,   \* BOUND: the statuses clients report
    NoOrder,    \* BOUND: what a client without an order posts to finish
    Flaky       \* BOUND: the values of pc at which something may go wrong

ASSUME Bounds ==
    /\ Posts \subseteq {"login", "reg", "setOrder", "locationChanged", "finishOrder"}
    /\ NoOrder \subseteq {None, Empty}

VARIABLES
    pc,         \* the next remote call, "reply", or "idle": no request
    req,        \* the locals of the handler that runs
    (* history variables *)
    owner,      \* the user each session was created for, Empty: not created
    orders,     \* the order ids created so far
    handed,     \* the sessions some client was given
    told        \* the orders some client was told of

webVars == <<pc, req>>
history == <<owner, orders, handed, told>>
vars    == <<hash, volatile, geo, userTable, orderTable, pc, req,
             owner, orders, handed, told>>

\* busi_cb.h; the client's idle driver sends "idle", see STATUS_DRIVER_IDLE.
STATUS_DRIVER_IDLE == "idel"
DriverStatus    == {"idle", "ready", "catching", "driving"}
PassengerStatus == {"idle", "waiting", "traveling"}

Steps == { "idle", "reply", "login", "reg", "session", "lifecycle",
           "radius", "create_order", "driver_orderid", "passenger_orderid",
           "exist", "touch", "get_orderid", "rem_geo", "add_geo",
           "start_real", "set_dtemp", "set_ptemp",
           "get_order", "p_name", "d_name", "insert", "d_none", "p_none",
           "delete" }

Request == [ op       : {"none", "login", "reg", "setOrder",
                         "locationChanged", "finishOrder"},
             user     : User \cup {Empty},
             isDriver : {Empty, "yes", "no"},
             sid      : SessionId \cup {Empty},
             status   : DriverStatus \cup PassengerStatus \cup {Empty},
             autosend : BOOLEAN,
             oid      : OrderKey,
             driver   : DriverSid \cup {Empty},
             passenger: PassengerSid \cup {Empty},
             row      : Row,
             recode   : {"0", "2", "3"},
             ok       : BOOLEAN ]

NoReq == [ op |-> "none", user |-> Empty, isDriver |-> Empty, sid |-> Empty,
           status |-> Empty, autosend |-> FALSE, oid |-> Empty,
           driver |-> Empty, passenger |-> Empty,
           row |-> [ passenger_username |-> Empty, driver_username |-> Empty,
                     start_order_time |-> Empty ],
           recode |-> "0", ok |-> TRUE ]

WebTypeOK ==
    /\ pc \in Steps
    /\ req \in Request
    /\ owner \in [SessionId -> User \cup {Empty}]
    /\ orders \subseteq OrderId
    /\ handed \subseteq SessionId
    /\ told \subseteq OrderId

\* Every variable has its type.
TypeOK == DataTypeOK /\ WebTypeOK

Init ==
    /\ DataInit
    /\ pc = "idle"
    /\ req = NoReq
    /\ owner = [s \in SessionId |-> Empty]
    /\ orders = {}
    /\ handed = {}
    /\ told = {}

\* The results a call may have: its own, and at a flaky step a failure.
Results(own) == IF pc \in Flaky THEN {own, FALSE} ELSE {own}

\* The handler goes on with the call next while ret == 0, and to its reply
\* otherwise; the locals the reply does not use are dropped.
Advance(r, ok, next) ==
    /\ req' = IF ok THEN r ELSE [NoReq EXCEPT !.op = r.op, !.sid = r.sid,
                                             !.recode = r.recode, !.ok = FALSE]
    /\ pc' = IF ok THEN next ELSE "reply"

\* A call whose result the handler does not look at.
Proceed(next) ==
    /\ pc' = next
    /\ UNCHANGED req

\* The sessions create_sessionid makes for a role.
SidOf(role) == IF role = "yes" THEN DriverSid ELSE PassengerSid

FreshSid(role) == {s \in SidOf(role) : owner[s] = Empty}

-----------------------------------------------------------------------------
(* login_cb and reg_cb                                                     *)

\* A client posts a name and a role.  BOUND: a request that would need an
\* identifier when none of the finite set is left is not accepted.
AuthRequest(op) ==
    /\ pc = "idle"
    /\ op \in Posts
    /\ \E u \in User, role \in {"yes", "no"} :
          /\ FreshSid(role) # {}
          /\ req' = [NoReq EXCEPT !.op = op, !.user = u, !.isDriver = role]
    /\ pc' = op
    /\ UNCHANGED <<dataVars, history>>

LoginRequest == AuthRequest("login")
RegRequest   == AuthRequest("reg")

\* Mutant: the result of the query is not looked at.
MutLoginUnchecked ==
    /\ pc = "login"
    /\ \E ok \in Results(userTable[req.user] = req.isDriver) :
          QueryUser(req.user, req.isDriver, ok)
    /\ Proceed("session")
    /\ UNCHANGED history

\* curl_to_dataserver_login
DataserverLogin ==
    /\ pc = "login"
    /\ \E ok \in Results(userTable[req.user] = req.isDriver) :
          /\ QueryUser(req.user, req.isDriver, ok)
          /\ Advance(req, ok, "session")
    /\ UNCHANGED history

\* curl_to_dataserver_reg
DataserverReg ==
    /\ pc = "reg"
    /\ \E ok \in Results(userTable[req.user] = Empty) :
          /\ InsertUser(req.user, req.isDriver, ok)
          /\ Advance(req, ok, "session")
    /\ UNCHANGED history

\* create_sessionid, then curl_to_cacheserver_session
CacheserverSession ==
    /\ pc = "session"
    /\ \E s \in FreshSid(req.isDriver), ok \in Results(TRUE) :
          /\ SetHash(s, {[hash[s] EXCEPT !.username = req.user]},
                     [hash[s] EXCEPT !.username = req.user, !.orderid = None],
                     ok)
          /\ owner' = [owner EXCEPT ![s] = req.user]
          /\ Advance([req EXCEPT !.sid = s], ok, "lifecycle")
    /\ UNCHANGED <<orders, handed, told>>

\* Mutant: the result is not looked at, as in most calls of locationChanged_cb.
MutLifecycleUnchecked ==
    /\ pc = "lifecycle"
    /\ \E ok \in Results(Exists(req.sid)) : SetLifecycle(req.sid, ok)
    /\ Proceed("reply")
    /\ UNCHANGED history

\* curl_to_cacheserver_lifecycle of the new session
CacheserverLifecycle ==
    /\ pc = "lifecycle"
    /\ \E ok \in Results(Exists(req.sid)) :
          /\ SetLifecycle(req.sid, ok)
          /\ Advance(req, ok, "reply")
    /\ UNCHANGED history

-----------------------------------------------------------------------------
(* set_order_cb                                                            *)

\* A passenger posts an order.  Nothing looks at whether the session lives.
OrderRequest ==
    /\ pc = "idle"
    /\ "setOrder" \in Posts
    /\ orders # OrderId                             \* BOUND, as AuthRequest
    /\ \E s \in handed \cap PassengerSid :
          req' = [NoReq EXCEPT !.op = "setOrder", !.sid = s, !.passenger = s]
    /\ pc' = "radius"
    /\ UNCHANGED <<dataVars, history>>

\* curl_to_cacheserver_radiusGeo: no driver is an error of its own.
CacheserverRadiusGeo ==
    /\ pc = "radius"
    /\ \E d \in DriverSid \cup {Empty}, ok \in Results(TRUE) :
          /\ RadiusGeo(d, ok)
          /\ Advance([req EXCEPT !.driver = d,
                                 !.recode = IF ok /\ d = Empty THEN "3" ELSE "0"],
                     ok /\ d # Empty, "create_order")
    /\ UNCHANGED history

\* create_orderid, then curl_to_cacheserver_create_order
CacheserverCreateOrder ==
    /\ pc = "create_order"
    /\ \E o \in OrderId \ orders, ok \in Results(TRUE) :
          LET init    == [hash[o] EXCEPT !.order_status = "INIT"]
              withP   == [init EXCEPT !.passenger_sessionid = req.passenger]
              withPD  == [withP EXCEPT !.driver_sessionid = req.driver]
          IN  /\ SetHash(o, {init, withP}, withPD, ok)
              /\ orders' = orders \cup {o}
              /\ Advance([req EXCEPT !.oid = o], ok, "driver_orderid")
    /\ UNCHANGED <<owner, handed, told>>

\* Mutant: the result is not looked at.
MutSetOrderidUnchecked ==
    /\ pc = "driver_orderid"
    /\ \E ok \in Results(TRUE) :
          SetHash(req.driver, {}, [hash[req.driver] EXCEPT !.orderid = req.oid], ok)
    /\ Proceed("passenger_orderid")
    /\ UNCHANGED history

\* curl_to_cacheserver_set_orderid of the driver's session
SetOrderidDriver ==
    /\ pc = "driver_orderid"
    /\ \E ok \in Results(TRUE) :
          /\ SetHash(req.driver, {},
                     [hash[req.driver] EXCEPT !.orderid = req.oid], ok)
          /\ Advance(req, ok, "passenger_orderid")
    /\ UNCHANGED history

\* curl_to_cacheserver_set_orderid of the passenger's session
SetOrderidPassenger ==
    /\ pc = "passenger_orderid"
    /\ \E ok \in Results(TRUE) :
          /\ SetHash(req.passenger, {},
                     [hash[req.passenger] EXCEPT !.orderid = req.oid], ok)
          /\ Advance(req, ok, "reply")
    /\ UNCHANGED history

-----------------------------------------------------------------------------
(* locationChanged_cb                                                      *)

\* A logged in client reports its position and its status.
LocationRequest ==
    /\ pc = "idle"
    /\ "locationChanged" \in Posts
    /\ \E s \in handed, auto \in BOOLEAN :
       \E status \in Statuses \cap
                       (IF s \in DriverSid THEN DriverStatus ELSE PassengerStatus) :
          /\ auto => status = "driving"
          /\ req' = [NoReq EXCEPT !.op = "locationChanged", !.sid = s,
                         !.isDriver = IF s \in DriverSid THEN "yes" ELSE "no",
                         !.status = status, !.autosend = auto]
    /\ pc' = "exist"
    /\ UNCHANGED <<dataVars, history>>

\* curl_to_cacheserver_existsessionid
ExistSessionid ==
    /\ pc = "exist"
    /\ \E ok \in Results(Exists(req.sid)) :
          /\ ExistKey(req.sid, ok)
          /\ Advance([req EXCEPT !.recode = IF ok THEN "0" ELSE "2"], ok, "touch")
    /\ UNCHANGED history

\* curl_to_cacheserver_lifecycle of the session that polls
TouchSession ==
    /\ pc = "touch"
    /\ \E ok \in Results(Exists(req.sid)) :
          /\ SetLifecycle(req.sid, ok)
          /\ Advance(req, ok, "get_orderid")
    /\ UNCHANGED history

\* Mutant: a driver with a passenger has nothing to remove.
MutDriverBranch(status) ==
    IF status \in {STATUS_DRIVER_IDLE, "catching", "ready"} THEN "rem_geo" ELSE "reply"

\* The first call of the branch a status selects.  The driver's "idle" is not
\* STATUS_DRIVER_IDLE; the test of the passenger's "waiting" lacks its "== 0".
DriverBranch(status) ==
    IF status \in {"driving", STATUS_DRIVER_IDLE, "catching", "ready"}
    THEN "rem_geo" ELSE "reply"

PassengerBranch(status) ==
    IF status = "traveling" \/ (status # "idle" /\ status # "waiting")
    THEN "set_ptemp" ELSE "reply"

\* curl_to_cacheserver_get_orderid
GetOrderid ==
    /\ pc = "get_orderid"
    /\ \E ok \in Results(TRUE) :
          Advance([req EXCEPT !.oid = IF ok THEN hash[req.sid].orderid ELSE Empty],
                  ok, IF req.isDriver = "yes" THEN DriverBranch(req.status)
                                              ELSE PassengerBranch(req.status))
    /\ UNCHANGED <<dataVars, history>>

\* Mutant: a driver that is ready keeps going round the removal.
MutAfterRemGeoLoop ==
    CASE req.status = "driving"  -> IF req.autosend THEN "start_real" ELSE "set_dtemp"
      [] req.status = "catching" -> "set_dtemp"
      [] req.status = "ready"    -> "rem_geo"
      [] OTHER                   -> "reply"

\* The call that follows remGeo.
AfterRemGeo ==
    CASE req.status = "driving"  -> IF req.autosend THEN "start_real" ELSE "set_dtemp"
      [] req.status = "catching" -> "set_dtemp"
      [] req.status = "ready"    -> "add_geo"
      [] OTHER                   -> "reply"

\* curl_to_cacheserver_remGeo: only the idle branch keeps the result.
RemGeo ==
    /\ pc = "rem_geo"
    /\ \E ok \in Results(TRUE) :
          /\ RemZset(req.sid, ok)
          /\ req' = [req EXCEPT !.ok = ok \/ req.status # STATUS_DRIVER_IDLE]
          /\ pc' = AfterRemGeo
    /\ UNCHANGED history

\* curl_to_cacheserver_addGeo, its result dropped
AddToPool ==
    /\ pc = "add_geo"
    /\ \E ok \in Results(TRUE) : AddGeo(req.sid, ok)
    /\ Proceed("reply")
    /\ UNCHANGED history

\* curl_to_cacheserver_startorder_real, its result dropped: the first field is
\* order_status, the others (start_driving_time, ...) are never read back.
StartorderReal ==
    /\ pc = "start_real"
    /\ \E ok \in Results(TRUE) :
          SetHash(req.oid, {}, [hash[req.oid] EXCEPT !.order_status = "ACTIVE"], ok)
    /\ Proceed("set_dtemp")
    /\ UNCHANGED history

\* curl_to_cacheserver_set_dtemp_location, its result dropped; the read of
\* the passenger's position that follows changes nothing.
SetDtempLocation ==
    /\ pc = "set_dtemp"
    /\ \E ok \in Results(TRUE) :
          SetHash(req.oid, {}, [hash[req.oid] EXCEPT !.position = "point"], ok)
    /\ Proceed("reply")
    /\ UNCHANGED history

\* curl_to_cacheserver_set_ptemp_location, its result dropped, and the read
\* of the driver's position
SetPtempLocation ==
    /\ pc = "set_ptemp"
    /\ \E ok \in Results(TRUE) :
          SetHash(req.oid, {}, [hash[req.oid] EXCEPT !.position = "point"], ok)
    /\ Proceed("reply")
    /\ UNCHANGED history

-----------------------------------------------------------------------------
(* finish_order_cb                                                         *)

\* A client posts the orderid it holds: one it was told of, "NONE", or "".
FinishRequest ==
    /\ pc = "idle"
    /\ "finishOrder" \in Posts
    /\ \E o \in told \cup NoOrder :
          req' = [NoReq EXCEPT !.op = "finishOrder", !.oid = o]
    /\ pc' = "get_order"
    /\ UNCHANGED <<dataVars, history>>

\* curl_to_cacheserver_get_orderd: it asks for start_order_time
GetOrderd ==
    /\ pc = "get_order"
    /\ \E ok \in Results(TRUE) :
          Advance(IF ok
                  THEN [req EXCEPT
                          !.passenger = hash[req.oid].passenger_sessionid,
                          !.driver = hash[req.oid].driver_sessionid,
                          !.row.start_order_time = hash[req.oid].start_order_time]
                  ELSE req, ok, "p_name")
    /\ UNCHANGED <<dataVars, history>>

\* curl_to_cacheserver_get_username of the passenger
GetUsernamePassenger ==
    /\ pc = "p_name"
    /\ \E ok \in Results(TRUE) :
          Advance(IF ok
                  THEN [req EXCEPT !.row.passenger_username =
                                        hash[req.passenger].username]
                  ELSE req, ok, "d_name")
    /\ UNCHANGED <<dataVars, history>>

\* Mutant: the passenger's session again.
MutNameOfPassengerTwice ==
    /\ pc = "d_name"
    /\ \E ok \in Results(TRUE) :
          Advance([req EXCEPT !.row.driver_username = hash[req.passenger].username],
                  ok, "insert")
    /\ UNCHANGED <<dataVars, history>>

\* curl_to_cacheserver_get_username of the driver
GetUsernameDriver ==
    /\ pc = "d_name"
    /\ \E ok \in Results(TRUE) :
          Advance(IF ok
                  THEN [req EXCEPT !.row.driver_username =
                                        hash[req.driver].username]
                  ELSE req, ok, "insert")
    /\ UNCHANGED <<dataVars, history>>

\* Mutant: the order is released and deleted whatever MySQL answered.
MutInsertUnchecked ==
    /\ pc = "insert"
    /\ \E ok \in Results(orderTable[req.oid] = NoRow) :
          InsertOrder(req.oid, req.row, ok)
    /\ Proceed("d_none")
    /\ UNCHANGED history

\* curl_to_dataserver_create_order
DataserverCreateOrder ==
    /\ pc = "insert"
    /\ \E ok \in Results(orderTable[req.oid] = NoRow) :
          /\ InsertOrder(req.oid, req.row, ok)
          /\ Advance(req, ok, "d_none")
    /\ UNCHANGED history

\* Mutant: only the passenger is released.
MutReleaseForgotten ==
    /\ pc = "d_none"
    /\ Proceed("p_none")
    /\ UNCHANGED <<dataVars, history>>

\* Mutant: the result is not looked at.
MutReleaseDriverUnchecked ==
    /\ pc = "d_none"
    /\ \E ok \in Results(TRUE) :
          SetHash(req.driver, {}, [hash[req.driver] EXCEPT !.orderid = None], ok)
    /\ Proceed("p_none")
    /\ UNCHANGED history

\* curl_to_cacheserver_set_orderid(driver, "NONE")
ReleaseDriver ==
    /\ pc = "d_none"
    /\ \E ok \in Results(TRUE) :
          /\ SetHash(req.driver, {},
                     [hash[req.driver] EXCEPT !.orderid = None], ok)
          /\ Advance(req, ok, "p_none")
    /\ UNCHANGED history

\* curl_to_cacheserver_set_orderid(passenger, "NONE")
ReleasePassenger ==
    /\ pc = "p_none"
    /\ \E ok \in Results(TRUE) :
          /\ SetHash(req.passenger, {},
                     [hash[req.passenger] EXCEPT !.orderid = None], ok)
          /\ Advance(req, ok, "delete")
    /\ UNCHANGED history

\* curl_to_cacheserver_delete_key, its result dropped
DeleteOrder ==
    /\ pc = "delete"
    /\ \E ok \in Results(Exists(req.oid)) : DeleteKey(req.oid, ok)
    /\ Proceed("reply")
    /\ UNCHANGED history

-----------------------------------------------------------------------------
(* The reply, and what happens to the server                               *)

\* The handler answers and returns to the event loop.  The client may be gone
\* before the answer arrives; a session id or an orderid is in the answer
\* only when the result is "ok".
Reply ==
    /\ pc = "reply"
    /\ \E delivered \in Results(TRUE) :
          /\ handed' = IF delivered /\ req.ok /\ req.op \in {"login", "reg"}
                       THEN handed \cup {req.sid} ELSE handed
          /\ told' = IF delivered /\ req.ok /\ req.op = "locationChanged"
                     THEN told \cup ({req.oid} \cap OrderId) ELSE told
    /\ pc' = "idle"
    /\ req' = NoReq
    /\ UNCHANGED <<dataVars, owner, orders>>

\* A deadline passes in Redis.
SessionExpires ==
    /\ \E s \in SessionId : Expire(s)
    /\ UNCHANGED <<webVars, history>>

\* start-up.sh kills the server in the middle of a handler and starts another.
Restart ==
    /\ pc \in Flaky \ {"idle"}
    /\ pc' = "idle"
    /\ req' = NoReq
    /\ UNCHANGED <<dataVars, history>>

-----------------------------------------------------------------------------
\* What clients post.
ClientRequest == \/ LoginRequest \/ RegRequest
                 \/ OrderRequest \/ LocationRequest \/ FinishRequest

\* What the server does by itself once it has accepted a request.
ServerStep ==
    \/ DataserverLogin \/ DataserverReg
    \/ CacheserverSession \/ CacheserverLifecycle
    \/ CacheserverRadiusGeo \/ CacheserverCreateOrder
    \/ SetOrderidDriver \/ SetOrderidPassenger
    \/ ExistSessionid \/ TouchSession \/ GetOrderid
    \/ RemGeo \/ AddToPool \/ StartorderReal
    \/ SetDtempLocation \/ SetPtempLocation
    \/ GetOrderd \/ GetUsernamePassenger \/ GetUsernameDriver
    \/ DataserverCreateOrder \/ ReleaseDriver \/ ReleasePassenger
    \/ DeleteOrder \/ Reply

Next == ClientRequest \/ ServerStep \/ SessionExpires \/ Restart

Spec == Init /\ [][Next]_vars

\* A handler that runs goes on: the loop has nothing else to do.  Nothing is
\* assumed of clients, of Redis's clock or of whoever restarts the server.
FairSpec == Spec /\ WF_vars(ServerStep)

-----------------------------------------------------------------------------
(* Safety                                                                  *)

Parties(o) == {hash[o].passenger_sessionid, hash[o].driver_sessionid}

\* The sessions and the orders of which Redis refuses no write.
SafeSession == SessionId \ Refused
SafeOrder   == OrderId \ Refused

\* A session that holds an order (set_order.c:119-127) holds one that is in
\* the cache and that names the session as its passenger or its driver: no
\* failed call, expiry or restart leaves a client pointing at a deleted order or
\* at somebody else's.  Only a refused HSET of the session or of the order does,
\* which setHash does not notice (redis_op.cpp:346).
NoDanglingOrder ==
    \A s \in SafeSession, o \in SafeOrder :
        hash[s].orderid = o => s \in Parties(o)

\* "ok" to finishOrder (finish_order.c:101) means done: the order is in MySQL
\* and no session holds it any more, but where the HSET of "NONE" into a session
\* was refused and counted as done (redis_op.cpp:344-356).
FinishedIsDone ==
    pc = "reply" /\ req.op = "finishOrder" /\ req.ok /\ req.oid \in OrderId =>
        /\ orderTable[req.oid] # NoRow
        /\ req.oid \in SafeOrder => \A s \in SafeSession : hash[s].orderid # req.oid

\* "ok" to startSetOrder (set_order.c:129) means assigned: the order is in the
\* cache, and each of its sessions holds it unless it expired meanwhile; but what
\* Redis refused to write is not there (redis_op.cpp:344-356).
OrderedIsAssigned ==
    pc = "reply" /\ req.op = "setOrder" /\ req.ok =>
        /\ req.oid \in SafeOrder => Parties(req.oid) = {req.passenger, req.driver}
        /\ \A s \in {req.passenger, req.driver} \cap SafeSession :
              hash[s].orderid \in {req.oid, Empty}

\* A session a client holds and that carries its user name has a deadline
\* (login.c:78, reg.c:80): a session that would live for ever is never given
\* to anyone.
HandedSessionExpires ==
    \A s \in handed : hash[s].username # Empty => s \in volatile

\* A session carries the name of the user it was created for, and that user is
\* in MySQL with the role the session id shows (login.c:72-76, reg.c:68-78).
SessionIsRegistered ==
    \A s \in SessionId :
        hash[s].username # Empty =>
            /\ hash[s].username = owner[s]
            /\ s \in SidOf(userTable[owner[s]])
            /\ userTable[owner[s]] # Empty

\* An order leaves the cache (finish_order.c:99) only once it is in MySQL.
NoOrderLost ==
    [][\A o \in OrderId : Exists(o) /\ ~Exists(o)' => orderTable[o] # NoRow]_vars

\* An order that is in MySQL and no longer in the cache stays out of it: no
\* late position report (location_changed.c:118,125,136) writes it again, but one
\* of a session that Redis refused to take the order from.
NoResurrection ==
    [][\A o \in SafeOrder :
          orderTable[o] # NoRow /\ ~Exists(o) /\ req.sid \notin Refused
             => ~Exists(o)']_vars

\* A row written to MySQL names the users whose sessions the order carries, or
\* nobody where a session expired before finish_order.c:83,86 read it; the two
\* are never exchanged or taken from another order.
RightNames ==
    [][\A o \in SafeOrder :
          orderTable'[o] # orderTable[o] =>
            \E p \in PassengerSid, d \in DriverSid :
              /\ Parties(o) = {p, d}
              /\ orderTable'[o].passenger_username \in {owner[p], Empty}
              /\ orderTable'[o].driver_username \in {owner[d], Empty}]_vars

\* A position is written into an order (location_changed.c:118,125,136) only
\* for one of its own two sessions, although the server takes the order from
\* the session it read a few calls earlier.
OwnPosition ==
    [][\A o \in SafeOrder :
          hash'[o].position \notin {hash[o].position, Empty} /\ req.sid \notin Refused
             => req.sid \in Parties(o)]_vars

\* A driver who is on the way to a passenger or with one is offered to nobody
\* else: after the ok to such a report the driver is not in the pool, although
\* it was added by a report of a moment before (location_changed.c:109-129).
BusyIsNotPooled ==
    pc = "reply" /\ req.op = "locationChanged" /\ req.ok
    /\ req.status \in {"catching", "driving"}
        => req.sid \notin geo

(* What the comments of the repository say and the handlers do not do       *)

\* A client whose session is gone is told so by recode "1", RECODE_SESSION_ERROR
\* (PassengerLocationChanged.cpp:118).
ExpiredIsToldSo ==
    [][pc = "exist" /\ ~Exists(req.sid) => req'.recode = "1"]_vars

\* The report of a waiting passenger who has an order writes its position and
\* reads the driver's (PassengerLocationChanged.cpp:91-94, location_changed.c:144).
WaitingIsServed ==
    [][pc = "get_orderid" /\ req.status = "waiting" /\ req'.oid \in OrderId
          => pc' = "set_ptemp"]_vars

\* The row of an order whose ride was started has the time it was started
\* (remote_store.c:794-806, create_table_order.sql:7).
StartTimeRecorded ==
    [][\A o \in OrderId :
          orderTable'[o] # orderTable[o] /\ hash[o].order_status = "ACTIVE"
             => orderTable'[o].start_order_time # Empty]_vars

\* A driver is "idle", "ready", "catching" or "driving" (Data.h:104), and the
\* pool is for the ready ones: after the ok to a report of another status the
\* driver is not in it (location_changed.c:109-129).
OnlyReadyIsPooled ==
    pc = "reply" /\ req.op = "locationChanged" /\ req.isDriver = "yes" /\ req.ok
        => req.status = "ready" \/ req.sid \notin geo

(* Liveness                                                                *)

\* Every accepted request is answered, or the server is killed: no chain of
\* calls in the handlers comes back to an earlier call or has no next one.
EveryRequestEnds == pc # "idle" ~> pc = "idle"
=============================================================================
