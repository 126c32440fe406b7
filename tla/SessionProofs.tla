---------------------------- MODULE SessionProofs ----------------------------
(***************************************************************************)
(* Type correctness of WebServer, the life of a session and the pool of    *)
(* drivers, for every value of the constants.  The types alone are not     *)
(* inductive: the locals a handler passes from one call to the next have   *)
(* to be of the right kind as well.  The invariant of the sessions says    *)
(* what login_cb and reg_cb know of the user and of the session they are   *)
(* about to hand over, that of the pool what locationChanged_cb knows of a *)
(* driver on its way.                                                      *)
(***************************************************************************)
EXTENDS WebServer, TLAPS

AuthSteps   == {"login", "reg", "session", "lifecycle"}
AssignSteps == {"radius", "create_order", "driver_orderid", "passenger_orderid"}
ReportSteps == {"exist", "touch", "get_orderid", "rem_geo", "add_geo",
                "start_real", "set_dtemp", "set_ptemp"}
FinishSteps == {"get_order", "p_name", "d_name", "insert", "d_none", "p_none",
                "delete"}

\* The locals q a handler has before its call p: a call belongs to the handler
\* that makes it, the session a call is about is known and has the role the
\* locals carry, and only a driver's handler touches the pool.
LocalsFor(p, q) ==
    /\ p \in AuthSteps   => q.op \in {"login", "reg"}
    /\ p \in AssignSteps => q.op = "setOrder"
    /\ p \in ReportSteps => q.op = "locationChanged"
    /\ p \in FinishSteps => q.op = "finishOrder"
    /\ p \in {"login", "reg", "session"} =>
          q.user \in User /\ q.isDriver \in {"yes", "no"}
    /\ p \in {"lifecycle"} \cup ReportSteps => q.sid \in SessionId
    /\ p \in ReportSteps /\ q.isDriver = "yes" => q.sid \in DriverSid
    /\ p \in {"rem_geo", "add_geo"} => q.isDriver = "yes"
    /\ p = "reply" /\ q.ok /\ q.op \in {"login", "reg"} => q.sid \in SessionId

TypeInv == TypeOK /\ LocalsFor(pc, req)

-----------------------------------------------------------------------------
(* Types of the data server's commands *)

\* A hash of which Redis refused some fields has each from the old or the new one.
LEMMA MixedFields ==
    ASSUME NEW old, NEW new, NEW h \in Mixed(old, new)
    PROVE  /\ h.username \in {old.username, new.username}
           /\ h.orderid \in {old.orderid, new.orderid}
           /\ h.passenger_sessionid \in {old.passenger_sessionid, new.passenger_sessionid}
           /\ h.driver_sessionid \in {old.driver_sessionid, new.driver_sessionid}
           /\ h.position \in {old.position, new.position}
BY DEF Mixed

LEMMA MixedType ==
    ASSUME NEW old \in Hash, NEW new \in Hash, NEW h \in Mixed(old, new)
    PROVE  h \in Hash
BY DEF Mixed, Hash

\* A pipeline of HSETs that writes a well-formed hash keeps the types, also where
\* Redis refuses some of it.
LEMMA SetHashType ==
    ASSUME DataTypeOK, NEW k \in Key, NEW partial \in SUBSET Hash,
           NEW full \in Hash, NEW ok \in BOOLEAN, SetHash(k, partial, full, ok)
    PROVE  DataTypeOK'
<1>1. hash \in [Key -> Hash]  BY DEF DataTypeOK
<1>2. hash[k] \in Hash /\ Mixed(hash[k], full) \subseteq Hash
  BY <1>1, MixedType
<1>3. PICK h \in Hash : hash' = [hash EXCEPT ![k] = h]
  BY <1>2 DEF SetHash
<1> QED  BY <1>3 DEF DataTypeOK, SetHash

\* A key that is removed reads as Blank, which is a well-formed hash.
LEMMA RemoveType ==
    ASSUME DataTypeOK, NEW k \in Key, Remove(k)
    PROVE  DataTypeOK'
<1>1. Blank \in Hash  BY DEF Blank, Hash, OrderKey
<1> QED  BY <1>1 DEF DataTypeOK, Remove

\* Setting a deadline keeps the types, whether or not it has passed already.
LEMMA SetLifecycleType ==
    ASSUME DataTypeOK, NEW k \in SessionId, NEW ok \in BOOLEAN, SetLifecycle(k, ok)
    PROVE  DataTypeOK'
<1>1. k \in Key  BY DEF Key
<1>2. CASE Remove(k)  BY <1>1, <1>2, RemoveType
<1>3. CASE ~Remove(k)  BY <1>3 DEF SetLifecycle, DataTypeOK, dataVars
<1> QED  BY <1>2, <1>3

\* A command that changes nothing keeps the types.
LEMMA SameDataType ==
    ASSUME DataTypeOK, UNCHANGED dataVars  PROVE DataTypeOK'
BY DEF DataTypeOK, dataVars

LEMMA ResultsAreBoolean ==
    ASSUME NEW own \in BOOLEAN, NEW ok \in Results(own)  PROVE ok \in BOOLEAN
BY DEF Results

LEMMA NoReqType == NoReq \in Request
BY DEF NoReq, Request, Row, OrderKey

\* A request keeps its type when one of its fields is written.
LEMMA RequestFields ==
    ASSUME NEW r \in Request
    PROVE  /\ \A x \in {"none", "login", "reg", "setOrder", "locationChanged", "finishOrder"} :
                 [r EXCEPT !.op = x] \in Request
           /\ \A x \in User \cup {Empty} : [r EXCEPT !.user = x] \in Request
           /\ \A x \in {Empty, "yes", "no"} : [r EXCEPT !.isDriver = x] \in Request
           /\ \A x \in SessionId \cup {Empty} : [r EXCEPT !.sid = x] \in Request
           /\ \A x \in DriverStatus \cup PassengerStatus \cup {Empty} :
                 [r EXCEPT !.status = x] \in Request
           /\ \A x \in BOOLEAN : [r EXCEPT !.autosend = x] \in Request
           /\ \A x \in OrderKey : [r EXCEPT !.oid = x] \in Request
           /\ \A x \in DriverSid \cup {Empty} : [r EXCEPT !.driver = x] \in Request
           /\ \A x \in PassengerSid \cup {Empty} : [r EXCEPT !.passenger = x] \in Request
           /\ \A x \in Row : [r EXCEPT !.row = x] \in Request
           /\ \A x \in {"0", "2", "3"} : [r EXCEPT !.recode = x] \in Request
           /\ \A x \in BOOLEAN : [r EXCEPT !.ok = x] \in Request
<1>1. \A x \in {"none", "login", "reg", "setOrder", "locationChanged", "finishOrder"} :
          [r EXCEPT !.op = x] \in Request  BY DEF Request
<1>2. \A x \in User \cup {Empty} : [r EXCEPT !.user = x] \in Request  BY DEF Request
<1>3. \A x \in {Empty, "yes", "no"} : [r EXCEPT !.isDriver = x] \in Request  BY DEF Request
<1>4. \A x \in SessionId \cup {Empty} : [r EXCEPT !.sid = x] \in Request  BY DEF Request
<1>5. \A x \in DriverStatus \cup PassengerStatus \cup {Empty} :
          [r EXCEPT !.status = x] \in Request  BY DEF Request
<1>6. \A x \in BOOLEAN : [r EXCEPT !.autosend = x] \in Request  BY DEF Request
<1>7. \A x \in OrderKey : [r EXCEPT !.oid = x] \in Request  BY DEF Request
<1>8. \A x \in DriverSid \cup {Empty} : [r EXCEPT !.driver = x] \in Request  BY DEF Request
<1>9. \A x \in PassengerSid \cup {Empty} : [r EXCEPT !.passenger = x] \in Request
  BY DEF Request
<1>10. \A x \in Row : [r EXCEPT !.row = x] \in Request  BY DEF Request
<1>11. \A x \in {"0", "2", "3"} : [r EXCEPT !.recode = x] \in Request  BY DEF Request
<1>12. \A x \in BOOLEAN : [r EXCEPT !.ok = x] \in Request  BY DEF Request
<1> QED  BY <1>1, <1>2, <1>3, <1>4, <1>5, <1>6, <1>7, <1>8, <1>9, <1>10, <1>11, <1>12

\* A hash keeps its type when one of the fields of an order is written.
LEMMA HashFields ==
    ASSUME NEW h \in Hash
    PROVE  /\ [h EXCEPT !.order_status = "INIT"] \in Hash
           /\ \A x \in PassengerSid \cup {Empty} :
                 [h EXCEPT !.passenger_sessionid = x] \in Hash
           /\ \A x \in DriverSid \cup {Empty} :
                 [h EXCEPT !.driver_sessionid = x] \in Hash
<1>1. [h EXCEPT !.order_status = "INIT"] \in Hash  BY DEF Hash
<1>2. \A x \in PassengerSid \cup {Empty} : [h EXCEPT !.passenger_sessionid = x] \in Hash
  BY DEF Hash
<1>3. \A x \in DriverSid \cup {Empty} : [h EXCEPT !.driver_sessionid = x] \in Hash
  BY DEF Hash
<1> QED  BY <1>1, <1>2, <1>3

\* What a handler that failed answers with.
LEMMA ResetType ==
    ASSUME NEW q \in Request, NEW r \in Request
    PROVE  [q EXCEPT !.op = r.op, !.sid = r.sid, !.recode = r.recode, !.ok = FALSE]
             \in Request
<1>1. /\ r.op \in {"none", "login", "reg", "setOrder", "locationChanged", "finishOrder"}
      /\ r.sid \in SessionId \cup {Empty} /\ r.recode \in {"0", "2", "3"}
  BY DEF Request
<1>2. [q EXCEPT !.op = r.op] \in Request  BY <1>1, RequestFields
<1>3. [q EXCEPT !.op = r.op, !.sid = r.sid] \in Request  BY <1>1, <1>2, RequestFields
<1>4. [q EXCEPT !.op = r.op, !.sid = r.sid, !.recode = r.recode] \in Request
  BY <1>1, <1>3, RequestFields
<1> QED  BY <1>4, RequestFields

\* Where a handler goes after a call it checks, and what it remembers.
LEMMA AdvanceType ==
    ASSUME NEW r \in Request, NEW ok \in BOOLEAN, NEW next \in Steps,
           Advance(r, ok, next)
    PROVE  /\ req' \in Request /\ pc' \in Steps
           /\ ok => req' = r /\ pc' = next
           /\ ~ok => /\ pc' = "reply" /\ ~req'.ok
                     /\ req'.op = r.op /\ req'.oid = Empty
<1>1. NoReq \in Request  BY NoReqType
<1>2. [NoReq EXCEPT !.op = r.op, !.sid = r.sid, !.recode = r.recode, !.ok = FALSE]
        \in Request
  BY <1>1, ResetType
<1>3. "reply" \in Steps  BY DEF Steps
<1> QED  BY <1>2, <1>3 DEF Advance, NoReq

USE DEF AuthSteps, AssignSteps, ReportSteps, FinishSteps

\* The control part of TypeInv after a call the handler checks.
LEMMA GoOn ==
    ASSUME NEW r \in Request, NEW ok \in BOOLEAN, NEW next \in Steps,
           Advance(r, ok, next), ok => LocalsFor(next, r)
    PROVE  pc' \in Steps /\ req' \in Request /\ LocalsFor(pc, req)'
<1>1. CASE ok   BY <1>1, AdvanceType
<1>2. CASE ~ok  BY <1>2, AdvanceType DEF LocalsFor
<1> QED  BY <1>1, <1>2

\* What is left to show once the data server's part is done.
LEMMA TypeFrame ==
    ASSUME TypeInv, DataTypeOK', pc' \in Steps, req' \in Request,
           LocalsFor(pc, req)', UNCHANGED history
    PROVE  TypeInv'
BY DEF TypeInv, TypeOK, WebTypeOK, history

LEMMA AuthRequestType ==
    ASSUME TypeInv, NEW op \in {"login", "reg"}, AuthRequest(op)
    PROVE  TypeInv'
<1>1. DataTypeOK'  BY SameDataType DEF TypeInv, TypeOK, AuthRequest
<1>2. PICK u \in User, role \in {"yes", "no"} :
          req' = [NoReq EXCEPT !.op = op, !.user = u, !.isDriver = role]
  BY DEF AuthRequest
<1>3. pc' \in Steps /\ req' \in Request /\ LocalsFor(pc, req)'
  BY <1>2, NoReqType DEF AuthRequest, Steps, LocalsFor, Request, NoReq
<1> QED  BY <1>1, <1>3, TypeFrame DEF AuthRequest

LEMMA DataserverLoginType ==
    ASSUME TypeInv, DataserverLogin  PROVE TypeInv'
<1>1. PICK ok \in Results(userTable[req.user] = req.isDriver) :
          /\ QueryUser(req.user, req.isDriver, ok)
          /\ Advance(req, ok, "session")
  BY DEF DataserverLogin
<1>2. ok \in BOOLEAN  BY ResultsAreBoolean
<1>3. DataTypeOK'  BY <1>1, SameDataType DEF TypeInv, TypeOK, QueryUser
<1>4. LocalsFor("session", req) /\ "session" \in Steps /\ req \in Request
  BY DEF DataserverLogin, TypeInv, TypeOK, WebTypeOK, LocalsFor, Steps
<1> QED  BY <1>1, <1>2, <1>3, <1>4, GoOn, TypeFrame DEF DataserverLogin

LEMMA DataserverRegType ==
    ASSUME TypeInv, DataserverReg  PROVE TypeInv'
<1>1. PICK ok \in Results(userTable[req.user] = Empty) :
          /\ InsertUser(req.user, req.isDriver, ok)
          /\ Advance(req, ok, "session")
  BY DEF DataserverReg
<1>2. ok \in BOOLEAN  BY ResultsAreBoolean
<1>3. req.isDriver \in {"yes", "no"}  BY DEF DataserverReg, TypeInv, LocalsFor
<1>4. DataTypeOK'
  BY <1>1, <1>3 DEF TypeInv, TypeOK, DataTypeOK, InsertUser, dataVars
<1>5. LocalsFor("session", req) /\ "session" \in Steps /\ req \in Request
  BY DEF DataserverReg, TypeInv, TypeOK, WebTypeOK, LocalsFor, Steps
<1> QED  BY <1>1, <1>2, <1>4, <1>5, GoOn, TypeFrame DEF DataserverReg

LEMMA CacheserverSessionType ==
    ASSUME TypeInv, CacheserverSession  PROVE TypeInv'
<1> DEFINE partial(s) == {[hash[s] EXCEPT !.username = req.user]}
           full(s)    == [hash[s] EXCEPT !.username = req.user, !.orderid = None]
<1>1. PICK s \in FreshSid(req.isDriver), ok \in Results(TRUE) :
          /\ SetHash(s, partial(s), full(s), ok)
          /\ owner' = [owner EXCEPT ![s] = req.user]
          /\ Advance([req EXCEPT !.sid = s], ok, "lifecycle")
  BY DEF CacheserverSession
<1>2. ok \in BOOLEAN  BY ResultsAreBoolean
<1>3. s \in SessionId /\ s \in Key
  BY DEF FreshSid, SidOf, SessionId, Key
<1>4. req.user \in User /\ req \in Request /\ req.op \in {"login", "reg"}
  BY DEF CacheserverSession, TypeInv, TypeOK, WebTypeOK, LocalsFor
<1>5. hash[s] \in Hash  BY <1>3 DEF TypeInv, TypeOK, DataTypeOK
<1>6. partial(s) \in SUBSET Hash /\ full(s) \in Hash
  BY <1>4, <1>5 DEF Hash, OrderKey
<1>7. DataTypeOK'
  <2> HIDE DEF partial, full
  <2> QED  BY <1>1, <1>2, <1>3, <1>6, SetHashType DEF TypeInv, TypeOK
<1>8. [req EXCEPT !.sid = s] \in Request /\ "lifecycle" \in Steps
  BY <1>3, <1>4 DEF Request, Steps
<1>9. LocalsFor("lifecycle", [req EXCEPT !.sid = s])
  BY <1>3, <1>4 DEF LocalsFor, Request
<1>10. pc' \in Steps /\ req' \in Request /\ LocalsFor(pc, req)'
  BY <1>1, <1>2, <1>8, <1>9, GoOn
<1>11. owner' \in [SessionId -> User \cup {Empty}]
  BY <1>1, <1>4 DEF TypeInv, TypeOK, WebTypeOK
<1> QED  BY <1>7, <1>10, <1>11 DEF TypeInv, TypeOK, WebTypeOK, CacheserverSession

LEMMA CacheserverLifecycleType ==
    ASSUME TypeInv, CacheserverLifecycle  PROVE TypeInv'
<1>1. PICK ok \in Results(Exists(req.sid)) :
          /\ SetLifecycle(req.sid, ok)
          /\ Advance(req, ok, "reply")
  BY DEF CacheserverLifecycle
<1>2. ok \in BOOLEAN  BY ResultsAreBoolean DEF Exists
<1>3. req.sid \in SessionId  BY DEF CacheserverLifecycle, TypeInv, LocalsFor
<1>4. DataTypeOK'  BY <1>1, <1>2, <1>3, SetLifecycleType DEF TypeInv, TypeOK
<1>5. LocalsFor("reply", req) /\ "reply" \in Steps /\ req \in Request
  BY <1>3 DEF TypeInv, TypeOK, WebTypeOK, LocalsFor, Steps
<1> QED  BY <1>1, <1>2, <1>4, <1>5, GoOn, TypeFrame DEF CacheserverLifecycle

LEMMA OrderRequestType ==
    ASSUME TypeInv, OrderRequest  PROVE TypeInv'
<1>1. DataTypeOK'  BY SameDataType DEF TypeInv, TypeOK, OrderRequest
<1>2. PICK s \in handed \cap PassengerSid :
          req' = [NoReq EXCEPT !.op = "setOrder", !.sid = s, !.passenger = s]
  BY DEF OrderRequest
<1>3. s \in SessionId  BY DEF SessionId
<1>4. pc' \in Steps /\ req' \in Request /\ LocalsFor(pc, req)'
  BY <1>2, <1>3, NoReqType DEF OrderRequest, Steps, LocalsFor, Request, NoReq
<1> QED  BY <1>1, <1>4, TypeFrame DEF OrderRequest

LEMMA CacheserverRadiusGeoType ==
    ASSUME TypeInv, CacheserverRadiusGeo  PROVE TypeInv'
<1> DEFINE r(d, ok) == [req EXCEPT !.driver = d,
                                   !.recode = IF ok /\ d = Empty THEN "3" ELSE "0"]
<1>1. PICK d \in DriverSid \cup {Empty}, ok \in Results(TRUE) :
          RadiusGeo(d, ok) /\ Advance(r(d, ok), ok /\ d # Empty, "create_order")
  BY DEF CacheserverRadiusGeo
<1>2. DataTypeOK'  BY <1>1, SameDataType DEF TypeInv, TypeOK, RadiusGeo
<1>3. r(d, ok) \in Request /\ "create_order" \in Steps
  <2>1. req \in Request  BY DEF TypeInv, TypeOK, WebTypeOK
  <2>2. ASSUME NEW c \in {"0", "2", "3"}
        PROVE  [req EXCEPT !.driver = d, !.recode = c] \in Request
    BY <2>1 DEF Request
  <2> QED  BY <2>2 DEF Steps
<1>4. LocalsFor("create_order", r(d, ok))
  BY DEF CacheserverRadiusGeo, TypeInv, TypeOK, WebTypeOK, LocalsFor, Request
<1>5. (ok /\ d # Empty) \in BOOLEAN  OBVIOUS
<1> HIDE DEF r
<1> QED  BY <1>1, <1>2, <1>3, <1>4, <1>5, GoOn, TypeFrame DEF CacheserverRadiusGeo

\* The hash an order is created with, whole or cut off half way.
LEMMA NewOrderType ==
    ASSUME NEW h \in Hash, NEW p \in PassengerSid \cup {Empty},
           NEW d \in DriverSid \cup {Empty}
    PROVE  LET init   == [h EXCEPT !.order_status = "INIT"]
               withP  == [init EXCEPT !.passenger_sessionid = p]
               withPD == [withP EXCEPT !.driver_sessionid = d]
           IN  {init, withP} \in SUBSET Hash /\ withPD \in Hash
<1>1. [h EXCEPT !.order_status = "INIT"] \in Hash  BY HashFields
<1>2. [[h EXCEPT !.order_status = "INIT"] EXCEPT !.passenger_sessionid = p] \in Hash
  BY <1>1, HashFields
<1>3. [[[h EXCEPT !.order_status = "INIT"] EXCEPT !.passenger_sessionid = p]
          EXCEPT !.driver_sessionid = d] \in Hash
  BY <1>2, HashFields
<1> QED  BY <1>1, <1>2, <1>3

LEMMA CacheserverCreateOrderType ==
    ASSUME TypeInv, CacheserverCreateOrder  PROVE TypeInv'
<1> DEFINE init(o)   == [hash[o] EXCEPT !.order_status = "INIT"]
           withP(o)  == [init(o) EXCEPT !.passenger_sessionid = req.passenger]
           withPD(o) == [withP(o) EXCEPT !.driver_sessionid = req.driver]
<1>1. PICK o \in OrderId \ orders, ok \in Results(TRUE) :
          /\ SetHash(o, {init(o), withP(o)}, withPD(o), ok)
          /\ orders' = orders \cup {o}
          /\ Advance([req EXCEPT !.oid = o], ok, "driver_orderid")
  BY DEF CacheserverCreateOrder
<1>2. ok \in BOOLEAN  BY ResultsAreBoolean
<1>3. req \in Request /\ o \in Key /\ o \in OrderKey
  BY DEF TypeInv, TypeOK, WebTypeOK, Key, OrderKey
<1>4. {init(o), withP(o)} \in SUBSET Hash /\ withPD(o) \in Hash
  <2>1. hash[o] \in Hash  BY <1>3 DEF TypeInv, TypeOK, DataTypeOK
  <2>2. req.passenger \in PassengerSid \cup {Empty} /\ req.driver \in DriverSid \cup {Empty}
    BY <1>3 DEF Request
  <2> QED  BY <2>1, <2>2, NewOrderType
<1>5. DataTypeOK'
  <2> HIDE DEF init, withP, withPD
  <2> QED  BY <1>1, <1>2, <1>3, <1>4, SetHashType DEF TypeInv, TypeOK
<1>6. [req EXCEPT !.oid = o] \in Request /\ "driver_orderid" \in Steps
  BY <1>3 DEF Request, Steps
<1>7. LocalsFor("driver_orderid", [req EXCEPT !.oid = o])
  BY <1>3 DEF CacheserverCreateOrder, TypeInv, LocalsFor, Request
<1>8. pc' \in Steps /\ req' \in Request /\ LocalsFor(pc, req)'
  BY <1>1, <1>2, <1>6, <1>7, GoOn
<1>9. orders' \subseteq OrderId  BY <1>1 DEF TypeInv, TypeOK, WebTypeOK
<1> QED  BY <1>5, <1>8, <1>9 DEF TypeInv, TypeOK, WebTypeOK, CacheserverCreateOrder

\* Writing or clearing the order of a session, or of the absent session.
LEMMA SetOrderidType ==
    ASSUME TypeInv, NEW k \in SessionId \cup {Empty}, NEW o \in OrderKey,
           NEW ok \in BOOLEAN,
           SetHash(k, {}, [hash[k] EXCEPT !.orderid = o], ok)
    PROVE  DataTypeOK'
<1>1. k \in Key  BY DEF Key, OrderKey
<1>2. [hash[k] EXCEPT !.orderid = o] \in Hash
  BY <1>1 DEF TypeInv, TypeOK, DataTypeOK, Hash
<1> QED  BY <1>1, <1>2, SetHashType DEF TypeInv, TypeOK

LEMMA SetOrderidDriverType ==
    ASSUME TypeInv, SetOrderidDriver  PROVE TypeInv'
<1>1. PICK ok \in Results(TRUE) :
          /\ SetHash(req.driver, {}, [hash[req.driver] EXCEPT !.orderid = req.oid], ok)
          /\ Advance(req, ok, "passenger_orderid")
  BY DEF SetOrderidDriver
<1>2. ok \in BOOLEAN  BY ResultsAreBoolean
<1>3. req \in Request  BY DEF TypeInv, TypeOK, WebTypeOK
<1>4. DataTypeOK'
  BY <1>1, <1>2, <1>3, SetOrderidType DEF Request, SessionId
<1>5. LocalsFor("passenger_orderid", req) /\ "passenger_orderid" \in Steps
  BY DEF SetOrderidDriver, TypeInv, LocalsFor, Steps
<1> QED  BY <1>1, <1>2, <1>3, <1>4, <1>5, GoOn, TypeFrame DEF SetOrderidDriver

LEMMA SetOrderidPassengerType ==
    ASSUME TypeInv, SetOrderidPassenger  PROVE TypeInv'
<1>1. PICK ok \in Results(TRUE) :
          /\ SetHash(req.passenger, {},
                     [hash[req.passenger] EXCEPT !.orderid = req.oid], ok)
          /\ Advance(req, ok, "reply")
  BY DEF SetOrderidPassenger
<1>2. ok \in BOOLEAN  BY ResultsAreBoolean
<1>3. req \in Request  BY DEF TypeInv, TypeOK, WebTypeOK
<1>4. DataTypeOK'
  BY <1>1, <1>2, <1>3, SetOrderidType DEF Request, SessionId
<1>5. LocalsFor("reply", req) /\ "reply" \in Steps
  BY DEF SetOrderidPassenger, TypeInv, LocalsFor, Steps
<1> QED  BY <1>1, <1>2, <1>3, <1>4, <1>5, GoOn, TypeFrame DEF SetOrderidPassenger

LEMMA LocationRequestType ==
    ASSUME TypeInv, LocationRequest  PROVE TypeInv'
<1>1. DataTypeOK'  BY SameDataType DEF TypeInv, TypeOK, LocationRequest
<1>2. PICK s \in handed, auto \in BOOLEAN,
           status \in DriverStatus \cup PassengerStatus,
           role \in {"yes", "no"} :
          /\ role = "yes" => s \in DriverSid
          /\ req' = [NoReq EXCEPT !.op = "locationChanged", !.sid = s,
                         !.isDriver = role, !.status = status, !.autosend = auto]
  BY DEF LocationRequest
<1>3. s \in SessionId  BY DEF TypeInv, TypeOK, WebTypeOK
<1>4. pc' \in Steps /\ req' \in Request /\ LocalsFor(pc, req)'
  BY <1>2, <1>3, NoReqType DEF LocationRequest, Steps, LocalsFor, Request, NoReq
<1> QED  BY <1>1, <1>4, TypeFrame DEF LocationRequest

LEMMA ExistSessionidType ==
    ASSUME TypeInv, ExistSessionid  PROVE TypeInv'
<1> DEFINE r(ok) == [req EXCEPT !.recode = IF ok THEN "0" ELSE "2"]
<1>1. PICK ok \in Results(Exists(req.sid)) :
          ExistKey(req.sid, ok) /\ Advance(r(ok), ok, "touch")
  BY DEF ExistSessionid
<1>2. ok \in BOOLEAN  BY ResultsAreBoolean DEF Exists
<1>3. DataTypeOK'  BY <1>1, SameDataType DEF TypeInv, TypeOK, ExistKey
<1>4. req \in Request  BY DEF TypeInv, TypeOK, WebTypeOK
<1>5. r(ok) \in Request /\ "touch" \in Steps
  <2>1. ASSUME NEW c \in {"0", "2", "3"}  PROVE [req EXCEPT !.recode = c] \in Request
    BY <1>4 DEF Request
  <2> QED  BY <2>1 DEF Steps
<1>6. LocalsFor("touch", r(ok))
  BY <1>4 DEF ExistSessionid, TypeInv, LocalsFor, Request
<1> HIDE DEF r
<1> QED  BY <1>1, <1>2, <1>3, <1>5, <1>6, GoOn, TypeFrame DEF ExistSessionid

LEMMA TouchSessionType ==
    ASSUME TypeInv, TouchSession  PROVE TypeInv'
<1>1. PICK ok \in Results(Exists(req.sid)) :
          SetLifecycle(req.sid, ok) /\ Advance(req, ok, "get_orderid")
  BY DEF TouchSession
<1>2. ok \in BOOLEAN  BY ResultsAreBoolean DEF Exists
<1>3. req.sid \in SessionId  BY DEF TouchSession, TypeInv, LocalsFor
<1>4. DataTypeOK'  BY <1>1, <1>2, <1>3, SetLifecycleType DEF TypeInv, TypeOK
<1>5. LocalsFor("get_orderid", req) /\ "get_orderid" \in Steps /\ req \in Request
  BY DEF TouchSession, TypeInv, TypeOK, WebTypeOK, LocalsFor, Steps
<1> QED  BY <1>1, <1>2, <1>4, <1>5, GoOn, TypeFrame DEF TouchSession

LEMMA GetOrderidType ==
    ASSUME TypeInv, GetOrderid  PROVE TypeInv'
<1> DEFINE o(ok) == IF ok THEN hash[req.sid].orderid ELSE Empty
           next  == IF req.isDriver = "yes" THEN DriverBranch(req.status)
                                            ELSE PassengerBranch(req.status)
<1>1. PICK ok \in Results(TRUE) : Advance([req EXCEPT !.oid = o(ok)], ok, next)
  BY DEF GetOrderid
<1>2. ok \in BOOLEAN  BY ResultsAreBoolean
<1>3. DataTypeOK'  BY SameDataType DEF TypeInv, TypeOK, GetOrderid
<1>4. req \in Request /\ req.op = "locationChanged" /\ req.sid \in SessionId
      /\ (req.isDriver = "yes" => req.sid \in DriverSid)
  BY DEF GetOrderid, TypeInv, TypeOK, WebTypeOK, LocalsFor
<1>5. o(ok) \in OrderKey
  <2>1. hash[req.sid].orderid \in OrderKey
    BY <1>4 DEF TypeInv, TypeOK, DataTypeOK, Hash, Key
  <2> QED  BY <2>1 DEF OrderKey
<1>6. [req EXCEPT !.oid = o(ok)] \in Request  BY <1>4, <1>5 DEF Request
<1>7. next \in {"rem_geo", "set_ptemp", "reply"} /\ next \in Steps
      /\ (next = "rem_geo" => req.isDriver = "yes")
  BY DEF DriverBranch, PassengerBranch, Steps
<1>8. LocalsFor(next, [req EXCEPT !.oid = o(ok)])
  <2> HIDE DEF next, o
  <2> QED  BY <1>4, <1>7 DEF LocalsFor, Request
<1> HIDE DEF next, o
<1> QED  BY <1>1, <1>2, <1>3, <1>6, <1>7, <1>8, GoOn, TypeFrame DEF GetOrderid

LEMMA RemGeoType ==
    ASSUME TypeInv, RemGeo  PROVE TypeInv'
<1>1. PICK ok \in Results(TRUE) :
          /\ RemZset(req.sid, ok)
          /\ req' = [req EXCEPT !.ok = ok \/ req.status # STATUS_DRIVER_IDLE]
  BY DEF RemGeo
<1>2. DataTypeOK'
  BY <1>1 DEF RemZset, TypeInv, TypeOK, DataTypeOK
<1>3. req' \in Request
  <2>1. ASSUME NEW b \in BOOLEAN  PROVE [req EXCEPT !.ok = b] \in Request
    BY DEF TypeInv, TypeOK, WebTypeOK, Request
  <2>2. (ok \/ req.status # STATUS_DRIVER_IDLE) \in BOOLEAN  OBVIOUS
  <2> QED  BY <1>1, <2>1, <2>2
<1>4. pc' \in {"start_real", "set_dtemp", "add_geo", "reply"} /\ pc' \in Steps
  BY DEF RemGeo, AfterRemGeo, Steps
<1>5. LocalsFor(pc, req)'
  BY <1>1, <1>4 DEF RemGeo, TypeInv, TypeOK, WebTypeOK, Request, LocalsFor
<1> QED  BY <1>2, <1>3, <1>4, <1>5, TypeFrame DEF RemGeo

LEMMA AddToPoolType ==
    ASSUME TypeInv, AddToPool  PROVE TypeInv'
<1>1. req.sid \in DriverSid  BY DEF AddToPool, TypeInv, LocalsFor
<1>2. DataTypeOK'
  BY <1>1 DEF AddToPool, AddGeo, TypeInv, TypeOK, DataTypeOK
<1>3. pc' \in Steps /\ req' \in Request /\ LocalsFor(pc, req)'
  BY DEF AddToPool, Proceed, TypeInv, TypeOK, WebTypeOK, LocalsFor, Steps
<1> QED  BY <1>2, <1>3, TypeFrame DEF AddToPool

LEMMA StartorderRealType ==
    ASSUME TypeInv, StartorderReal  PROVE TypeInv'
<1>1. PICK ok \in Results(TRUE) :
          SetHash(req.oid, {}, [hash[req.oid] EXCEPT !.order_status = "ACTIVE"], ok)
  BY DEF StartorderReal
<1>2. ok \in BOOLEAN  BY ResultsAreBoolean
<1>3. req \in Request /\ req.oid \in Key
  BY DEF TypeInv, TypeOK, WebTypeOK, Request, Key
<1>4. [hash[req.oid] EXCEPT !.order_status = "ACTIVE"] \in Hash
  BY <1>3 DEF TypeInv, TypeOK, DataTypeOK, Hash
<1>5. DataTypeOK'  BY <1>1, <1>2, <1>3, <1>4, SetHashType DEF TypeInv, TypeOK
<1>6. pc' \in Steps /\ req' \in Request /\ LocalsFor(pc, req)'
  BY <1>3 DEF StartorderReal, Proceed, TypeInv, LocalsFor, Steps
<1> QED  BY <1>5, <1>6, TypeFrame DEF StartorderReal

LEMMA SetDtempLocationType ==
    ASSUME TypeInv, SetDtempLocation  PROVE TypeInv'
<1>1. PICK ok \in Results(TRUE) :
          SetHash(req.oid, {}, [hash[req.oid] EXCEPT !.position = "point"], ok)
  BY DEF SetDtempLocation
<1>2. ok \in BOOLEAN  BY ResultsAreBoolean
<1>3. req \in Request /\ req.oid \in Key
  BY DEF TypeInv, TypeOK, WebTypeOK, Request, Key
<1>4. [hash[req.oid] EXCEPT !.position = "point"] \in Hash
  BY <1>3 DEF TypeInv, TypeOK, DataTypeOK, Hash
<1>5. DataTypeOK'  BY <1>1, <1>2, <1>3, <1>4, SetHashType DEF TypeInv, TypeOK
<1>6. pc' \in Steps /\ req' \in Request /\ LocalsFor(pc, req)'
  BY <1>3 DEF SetDtempLocation, Proceed, TypeInv, LocalsFor, Steps
<1> QED  BY <1>5, <1>6, TypeFrame DEF SetDtempLocation

LEMMA SetPtempLocationType ==
    ASSUME TypeInv, SetPtempLocation  PROVE TypeInv'
<1>1. PICK ok \in Results(TRUE) :
          SetHash(req.oid, {}, [hash[req.oid] EXCEPT !.position = "point"], ok)
  BY DEF SetPtempLocation
<1>2. ok \in BOOLEAN  BY ResultsAreBoolean
<1>3. req \in Request /\ req.oid \in Key
  BY DEF TypeInv, TypeOK, WebTypeOK, Request, Key
<1>4. [hash[req.oid] EXCEPT !.position = "point"] \in Hash
  BY <1>3 DEF TypeInv, TypeOK, DataTypeOK, Hash
<1>5. DataTypeOK'  BY <1>1, <1>2, <1>3, <1>4, SetHashType DEF TypeInv, TypeOK
<1>6. pc' \in Steps /\ req' \in Request /\ LocalsFor(pc, req)'
  BY <1>3 DEF SetPtempLocation, Proceed, TypeInv, LocalsFor, Steps
<1> QED  BY <1>5, <1>6, TypeFrame DEF SetPtempLocation

LEMMA FinishRequestType ==
    ASSUME TypeInv, FinishRequest  PROVE TypeInv'
<1>1. DataTypeOK'  BY SameDataType DEF TypeInv, TypeOK, FinishRequest
<1>2. PICK o \in told \cup NoOrder :
          req' = [NoReq EXCEPT !.op = "finishOrder", !.oid = o]
  BY DEF FinishRequest
<1>3. o \in OrderKey  BY Bounds DEF TypeInv, TypeOK, WebTypeOK, OrderKey
<1>4. pc' \in Steps /\ req' \in Request /\ LocalsFor(pc, req)'
  BY <1>2, <1>3, NoReqType DEF FinishRequest, Steps, LocalsFor, Request, NoReq
<1> QED  BY <1>1, <1>4, TypeFrame DEF FinishRequest

\* What the finish of an order takes from its hash.
LEMMA FoundOrderType ==
    ASSUME NEW q \in Request, NEW h \in Hash
    PROVE  [q EXCEPT !.passenger = h.passenger_sessionid, !.driver = h.driver_sessionid,
                     !.row.start_order_time = h.start_order_time] \in Request
<1>1. /\ h.passenger_sessionid \in PassengerSid \cup {Empty}
      /\ h.driver_sessionid \in DriverSid \cup {Empty}
      /\ h.start_order_time \in {Empty, "time"}
  BY DEF Hash
<1>2. q.row \in Row  BY DEF Request
<1>3. PICK w \in Row : w = [q.row EXCEPT !.start_order_time = h.start_order_time]
  BY <1>1, <1>2 DEF Row
<1>4. [q EXCEPT !.passenger = h.passenger_sessionid] \in Request  BY <1>1, RequestFields
<1>5. [q EXCEPT !.passenger = h.passenger_sessionid,
                !.driver = h.driver_sessionid] \in Request
  BY <1>1, <1>4, RequestFields
<1>6. [q EXCEPT !.passenger = h.passenger_sessionid, !.driver = h.driver_sessionid,
                !.row = w] \in Request
  BY <1>5, RequestFields
<1> QED  BY <1>3, <1>6 DEF Request

LEMMA GetOrderdType ==
    ASSUME TypeInv, GetOrderd  PROVE TypeInv'
<1> DEFINE r == [req EXCEPT
                   !.passenger = hash[req.oid].passenger_sessionid,
                   !.driver = hash[req.oid].driver_sessionid,
                   !.row.start_order_time = hash[req.oid].start_order_time]
<1>1. PICK ok \in Results(TRUE) : Advance(IF ok THEN r ELSE req, ok, "p_name")
  BY DEF GetOrderd
<1>2. ok \in BOOLEAN  BY ResultsAreBoolean
<1>3. DataTypeOK'  BY SameDataType DEF TypeInv, TypeOK, GetOrderd
<1>4. req \in Request /\ req.op = "finishOrder"
  BY DEF GetOrderd, TypeInv, TypeOK, WebTypeOK, LocalsFor
<1>5. hash[req.oid] \in Hash
  BY <1>4 DEF TypeInv, TypeOK, DataTypeOK, Request, Key
<1>6. r \in Request /\ r.op = "finishOrder"
  <2>1. r \in Request  BY <1>4, <1>5, FoundOrderType
  <2>2. r.op = "finishOrder"  BY <1>4 DEF Request
  <2> QED  BY <2>1, <2>2
<1>7. "p_name" \in Steps  BY DEF Steps
<1>8. LocalsFor("p_name", r)  BY <1>6 DEF LocalsFor
<1> HIDE DEF r
<1> QED  BY <1>1, <1>2, <1>3, <1>4, <1>6, <1>7, <1>8, GoOn, TypeFrame DEF GetOrderd

LEMMA GetUsernamePassengerType ==
    ASSUME TypeInv, GetUsernamePassenger  PROVE TypeInv'
<1> DEFINE r == [req EXCEPT !.row.passenger_username = hash[req.passenger].username]
<1>1. PICK ok \in Results(TRUE) : Advance(IF ok THEN r ELSE req, ok, "d_name")
  BY DEF GetUsernamePassenger
<1>2. ok \in BOOLEAN  BY ResultsAreBoolean
<1>3. DataTypeOK'  BY SameDataType DEF TypeInv, TypeOK, GetUsernamePassenger
<1>4. req \in Request /\ req.op = "finishOrder"
  BY DEF GetUsernamePassenger, TypeInv, TypeOK, WebTypeOK, LocalsFor
<1>5. hash[req.passenger].username \in User \cup {Empty}
  <2>1. req.passenger \in Key  BY <1>4 DEF Request, Key, SessionId, OrderKey
  <2> QED  BY <2>1 DEF TypeInv, TypeOK, DataTypeOK, Hash
<1>6. r \in Request /\ r.op = "finishOrder"
  BY <1>4, <1>5 DEF Request, Row
<1>7. "d_name" \in Steps  BY DEF Steps
<1>8. LocalsFor("d_name", r)  BY <1>6 DEF LocalsFor
<1> HIDE DEF r
<1> QED  BY <1>1, <1>2, <1>3, <1>4, <1>6, <1>7, <1>8, GoOn, TypeFrame DEF GetUsernamePassenger

LEMMA GetUsernameDriverType ==
    ASSUME TypeInv, GetUsernameDriver  PROVE TypeInv'
<1> DEFINE r == [req EXCEPT !.row.driver_username = hash[req.driver].username]
<1>1. PICK ok \in Results(TRUE) : Advance(IF ok THEN r ELSE req, ok, "insert")
  BY DEF GetUsernameDriver
<1>2. ok \in BOOLEAN  BY ResultsAreBoolean
<1>3. DataTypeOK'  BY SameDataType DEF TypeInv, TypeOK, GetUsernameDriver
<1>4. req \in Request /\ req.op = "finishOrder"
  BY DEF GetUsernameDriver, TypeInv, TypeOK, WebTypeOK, LocalsFor
<1>5. hash[req.driver].username \in User \cup {Empty}
  <2>1. req.driver \in Key  BY <1>4 DEF Request, Key, SessionId, OrderKey
  <2> QED  BY <2>1 DEF TypeInv, TypeOK, DataTypeOK, Hash
<1>6. r \in Request /\ r.op = "finishOrder"
  BY <1>4, <1>5 DEF Request, Row
<1>7. "insert" \in Steps  BY DEF Steps
<1>8. LocalsFor("insert", r)  BY <1>6 DEF LocalsFor
<1> HIDE DEF r
<1> QED  BY <1>1, <1>2, <1>3, <1>4, <1>6, <1>7, <1>8, GoOn, TypeFrame DEF GetUsernameDriver

LEMMA DataserverCreateOrderType ==
    ASSUME TypeInv, DataserverCreateOrder  PROVE TypeInv'
<1>1. PICK ok \in Results(orderTable[req.oid] = NoRow) :
          InsertOrder(req.oid, req.row, ok) /\ Advance(req, ok, "d_none")
  BY DEF DataserverCreateOrder
<1>2. ok \in BOOLEAN  BY ResultsAreBoolean
<1>3. req \in Request  BY DEF TypeInv, TypeOK, WebTypeOK
<1>4. DataTypeOK'
  <2>1. req.row \in Row  BY <1>3 DEF Request
  <2> QED  BY <1>1, <2>1 DEF TypeInv, TypeOK, DataTypeOK, InsertOrder, dataVars
<1>5. LocalsFor("d_none", req) /\ "d_none" \in Steps
  BY DEF DataserverCreateOrder, TypeInv, LocalsFor, Steps
<1> QED  BY <1>1, <1>2, <1>3, <1>4, <1>5, GoOn, TypeFrame DEF DataserverCreateOrder

LEMMA ReleaseDriverType ==
    ASSUME TypeInv, ReleaseDriver  PROVE TypeInv'
<1>1. PICK ok \in Results(TRUE) :
          /\ SetHash(req.driver, {}, [hash[req.driver] EXCEPT !.orderid = None], ok)
          /\ Advance(req, ok, "p_none")
  BY DEF ReleaseDriver
<1>2. ok \in BOOLEAN  BY ResultsAreBoolean
<1>3. req \in Request  BY DEF TypeInv, TypeOK, WebTypeOK
<1>4. DataTypeOK'
  BY <1>1, <1>2, <1>3, SetOrderidType DEF Request, SessionId, OrderKey
<1>5. LocalsFor("p_none", req) /\ "p_none" \in Steps
  BY DEF ReleaseDriver, TypeInv, LocalsFor, Steps
<1> QED  BY <1>1, <1>2, <1>3, <1>4, <1>5, GoOn, TypeFrame DEF ReleaseDriver

LEMMA ReleasePassengerType ==
    ASSUME TypeInv, ReleasePassenger  PROVE TypeInv'
<1>1. PICK ok \in Results(TRUE) :
          /\ SetHash(req.passenger, {}, [hash[req.passenger] EXCEPT !.orderid = None], ok)
          /\ Advance(req, ok, "delete")
  BY DEF ReleasePassenger
<1>2. ok \in BOOLEAN  BY ResultsAreBoolean
<1>3. req \in Request  BY DEF TypeInv, TypeOK, WebTypeOK
<1>4. DataTypeOK'
  BY <1>1, <1>2, <1>3, SetOrderidType DEF Request, SessionId, OrderKey
<1>5. LocalsFor("delete", req) /\ "delete" \in Steps
  BY DEF ReleasePassenger, TypeInv, LocalsFor, Steps
<1> QED  BY <1>1, <1>2, <1>3, <1>4, <1>5, GoOn, TypeFrame DEF ReleasePassenger

LEMMA DeleteOrderType ==
    ASSUME TypeInv, DeleteOrder  PROVE TypeInv'
<1>1. PICK ok \in Results(Exists(req.oid)) : DeleteKey(req.oid, ok)
  BY DEF DeleteOrder
<1>2. req \in Request /\ req.oid \in Key
  BY DEF TypeInv, TypeOK, WebTypeOK, Request, Key
<1>3. DataTypeOK'
  <2>1. CASE Remove(req.oid)  BY <1>2, <2>1, RemoveType DEF TypeInv, TypeOK
  <2>2. CASE UNCHANGED dataVars  BY <2>2, SameDataType DEF TypeInv, TypeOK
  <2> QED  BY <1>1, <2>1, <2>2 DEF DeleteKey
<1>4. pc' \in Steps /\ req' \in Request /\ LocalsFor(pc, req)'
  BY <1>2 DEF DeleteOrder, Proceed, TypeInv, LocalsFor, Steps
<1> QED  BY <1>3, <1>4, TypeFrame DEF DeleteOrder

LEMMA ReplyType ==
    ASSUME TypeInv, Reply  PROVE TypeInv'
<1>1. DataTypeOK'  BY SameDataType DEF TypeInv, TypeOK, Reply
<1>2. pc' \in Steps /\ req' \in Request /\ LocalsFor(pc, req)'
  BY NoReqType DEF Reply, Steps, LocalsFor, NoReq
<1>3. handed' \subseteq SessionId
  BY DEF Reply, TypeInv, TypeOK, WebTypeOK, LocalsFor
<1>4. told' \subseteq OrderId
  BY DEF Reply, TypeInv, TypeOK, WebTypeOK
<1> QED  BY <1>1, <1>2, <1>3, <1>4 DEF Reply, TypeInv, TypeOK, WebTypeOK

LEMMA SessionExpiresType ==
    ASSUME TypeInv, SessionExpires  PROVE TypeInv'
<1>1. PICK s \in SessionId : Remove(s)  BY DEF SessionExpires, Expire
<1>2. DataTypeOK'  BY <1>1, RemoveType DEF TypeInv, TypeOK, Key
<1> QED
  BY <1>2 DEF SessionExpires, webVars, history, TypeInv, TypeOK, WebTypeOK

LEMMA RestartType ==
    ASSUME TypeInv, Restart  PROVE TypeInv'
<1>1. DataTypeOK'  BY SameDataType DEF TypeInv, TypeOK, Restart
<1>2. pc' \in Steps /\ req' \in Request /\ LocalsFor(pc, req)'
  BY NoReqType DEF Restart, Steps, LocalsFor, NoReq
<1> QED  BY <1>1, <1>2, TypeFrame DEF Restart

LEMMA TypeInit == Init => TypeInv
<1> SUFFICES ASSUME Init  PROVE TypeInv
  OBVIOUS
<1>1. Blank \in Hash  BY DEF Blank, Hash, OrderKey
<1>2. DataTypeOK  BY <1>1 DEF Init, DataInit, DataTypeOK
<1>3. WebTypeOK  BY NoReqType DEF Init, WebTypeOK, Steps
<1>4. LocalsFor(pc, req)  BY DEF Init, LocalsFor
<1> QED  BY <1>2, <1>3, <1>4 DEF TypeInv, TypeOK

LEMMA TypeStep == TypeInv /\ [Next]_vars => TypeInv'
<1> SUFFICES ASSUME TypeInv, [Next]_vars  PROVE TypeInv'
  OBVIOUS
<1>1. CASE ClientRequest
  BY <1>1, AuthRequestType, OrderRequestType, LocationRequestType, FinishRequestType
     DEF ClientRequest, LoginRequest, RegRequest
<1>2. CASE ServerStep
  BY <1>2, DataserverLoginType, DataserverRegType, CacheserverSessionType,
     CacheserverLifecycleType, CacheserverRadiusGeoType,
     CacheserverCreateOrderType, SetOrderidDriverType,
     SetOrderidPassengerType, ExistSessionidType, TouchSessionType,
     GetOrderidType, RemGeoType, AddToPoolType, StartorderRealType,
     SetDtempLocationType, SetPtempLocationType, GetOrderdType,
     GetUsernamePassengerType, GetUsernameDriverType,
     DataserverCreateOrderType, ReleaseDriverType, ReleasePassengerType,
     DeleteOrderType, ReplyType
     DEF ServerStep
<1>3. CASE SessionExpires  BY <1>3, SessionExpiresType
<1>4. CASE Restart  BY <1>4, RestartType
<1>5. CASE UNCHANGED vars
  BY <1>5 DEF vars, TypeInv, TypeOK, DataTypeOK, WebTypeOK
<1> QED  BY <1>1, <1>2, <1>3, <1>4, <1>5 DEF Next

\* At each call a handler has in its locals what the call needs (the session,
\* the role, the name), wherever the calls before it failed or the server died.
THEOREM LocalsAreReady == Spec => []TypeInv
BY TypeInit, TypeStep, PTL DEF Spec

\* Every variable of the two servers keeps its type: no command is given an
\* absent session, and only a driver's session joins the pool of drivers.
THEOREM TypesHold == Spec => []TypeOK
<1>1. TypeInv => TypeOK  BY DEF TypeInv
<1> QED  BY <1>1, LocalsAreReady, PTL

-----------------------------------------------------------------------------
(* The life of a session *)

AuthOps == {"login", "reg"}

\* What the handlers that log somebody in have established by each call: the user
\* is in MySQL with the role, the session was created, and it has a deadline.
LoggingIn ==
    /\ pc = "session" => userTable[req.user] = req.isDriver
    /\ pc = "lifecycle" => owner[req.sid] # Empty
    /\ pc = "reply" /\ req.op \in AuthOps /\ req.ok =>
          /\ owner[req.sid] # Empty
          /\ hash[req.sid].username # Empty => req.sid \in volatile

\* A session that was handed out is one that was created.
HandedAreOwned == \A s \in handed : owner[s] # Empty

SessionInv ==
    /\ TypeInv
    /\ SessionIsRegistered /\ HandedSessionExpires
    /\ HandedAreOwned
    /\ LoggingIn

-----------------------------------------------------------------------------
(* What a step may do to the sessions *)

\* A session keeps its name and its deadline, or it goes.
SessionsKept ==
    /\ \A s \in SessionId : hash'[s].username # Empty =>
          /\ hash'[s].username = hash[s].username
          /\ s \in volatile => s \in volatile'
    /\ UNCHANGED owner

SameUsers == UNCHANGED userTable

\* A session a handler writes keeps its name; the other keys are no sessions.
LEMMA SessionWriteKeeps ==
    ASSUME TypeInv, NEW k \in Key, NEW partial, NEW full, NEW ok,
           SetHash(k, partial, full, ok), UNCHANGED owner,
           k \in SessionId =>
              \A h \in partial \cup {full} : h.username = hash[k].username
    PROVE  SessionsKept /\ SameUsers
<1>1. PICK h : /\ hash' = [hash EXCEPT ![k] = h]
               /\ k \in SessionId => h.username = hash[k].username
  <2>1. \A h \in Mixed(hash[k], full) : h.username \in {hash[k].username, full.username}
    BY MixedFields
  <2> QED  BY <2>1 DEF SetHash
<1>2. hash \in [Key -> Hash] /\ SessionId \subseteq Key
  BY DEF TypeInv, TypeOK, DataTypeOK, Key
<1> QED  BY <1>1, <1>2 DEF SessionsKept, SameUsers, SetHash

\* The hash of a session whose order is written has the name it had.
LEMMA OrderidKeepsName ==
    ASSUME TypeInv, NEW k \in Key, NEW o
    PROVE  [hash[k] EXCEPT !.orderid = o].username = hash[k].username
<1>1. hash[k] \in Hash  BY DEF TypeInv, TypeOK, DataTypeOK
<1> QED  BY <1>1 DEF Hash

\* A key that goes takes its name with it.
LEMMA RemovalKeeps ==
    ASSUME TypeInv, NEW k \in Key, Remove(k), UNCHANGED owner
    PROVE  SessionsKept /\ SameUsers
<1>1. hash \in [Key -> Hash] /\ SessionId \subseteq Key
  BY DEF TypeInv, TypeOK, DataTypeOK, Key
<1> QED  BY <1>1 DEF SessionsKept, SameUsers, Remove, Blank

\* A deadline does not take a name away, unless it has passed.
LEMMA DeadlineKeeps ==
    ASSUME TypeInv, NEW k \in SessionId, NEW ok, SetLifecycle(k, ok), UNCHANGED owner
    PROVE  SessionsKept /\ SameUsers
<1>1. CASE Remove(k)  BY <1>1, RemovalKeeps DEF Key
<1>2. CASE ~Remove(k)
  BY <1>2 DEF SetLifecycle, SessionsKept, SameUsers, dataVars
<1> QED  BY <1>1, <1>2

LEMMA SameDataKeeps ==
    ASSUME UNCHANGED dataVars, UNCHANGED owner  PROVE SessionsKept /\ SameUsers
BY DEF dataVars, SessionsKept, SameUsers

\* What is kept of the invariant when the sessions are kept and nobody registers.
LEMMA KeptData ==
    ASSUME SessionInv, SessionsKept, SameUsers, UNCHANGED handed
    PROVE  SessionIsRegistered' /\ HandedSessionExpires' /\ HandedAreOwned'
<1>1. SessionIsRegistered'
  BY DEF SessionInv, SessionIsRegistered, SessionsKept, SameUsers
<1>2. handed \subseteq SessionId  BY DEF SessionInv, TypeInv, TypeOK, WebTypeOK
<1>3. HandedSessionExpires'
  BY <1>2 DEF SessionInv, HandedSessionExpires, SessionsKept
<1>4. HandedAreOwned'  BY DEF SessionInv, HandedAreOwned, SessionsKept
<1> QED  BY <1>1, <1>3, <1>4

-----------------------------------------------------------------------------
(* login_cb and reg_cb *)

\* A call that fails hands nothing over.
LEMMA NothingHanded ==
    ASSUME NEW r \in Request, NEW ok \in BOOLEAN, NEW next \in Steps,
           Advance(r, ok, next), ~ok
    PROVE  LoggingIn'
<1>1. pc' = "reply" /\ ~req'.ok  BY AdvanceType
<1> QED  BY <1>1 DEF LoggingIn

LEMMA AuthRequestSession ==
    ASSUME SessionInv, TypeInv', NEW op \in AuthOps, AuthRequest(op)
    PROVE  SessionInv'
<1>1. SessionsKept /\ SameUsers /\ UNCHANGED handed
  BY SameDataKeeps DEF AuthRequest, history
<1>2. pc' = op  BY DEF AuthRequest
<1>3. LoggingIn'  BY <1>2 DEF LoggingIn, AuthOps
<1> QED  BY <1>1, <1>3, KeptData DEF SessionInv

\* A query that is answered "ok" found the user with the role.
LEMMA DataserverLoginSession ==
    ASSUME SessionInv, TypeInv', DataserverLogin  PROVE SessionInv'
<1>1. PICK ok \in Results(userTable[req.user] = req.isDriver) :
          /\ QueryUser(req.user, req.isDriver, ok)
          /\ Advance(req, ok, "session")
  BY DEF DataserverLogin
<1>2. ok \in BOOLEAN  BY ResultsAreBoolean
<1>3. req \in Request /\ "session" \in Steps
  BY DEF SessionInv, TypeInv, TypeOK, WebTypeOK, Steps
<1>4. UNCHANGED dataVars /\ UNCHANGED owner /\ UNCHANGED handed
  BY <1>1 DEF QueryUser, DataserverLogin, history
<1>5. LoggingIn'
  <2>1. CASE ok
    <3>1. pc' = "session" /\ req' = req  BY <1>1, <1>2, <1>3, <2>1, AdvanceType
    <3>2. userTable'[req.user] = req.isDriver
      BY <1>1, <1>4, <2>1 DEF QueryUser, dataVars
    <3> QED  BY <3>1, <3>2 DEF LoggingIn
  <2>2. CASE ~ok  BY <1>1, <1>2, <1>3, <2>2, NothingHanded
  <2> QED  BY <2>1, <2>2
<1> QED  BY <1>4, <1>5, SameDataKeeps, KeptData DEF SessionInv

\* A registration writes a row where there was none, and so nobody's who has a
\* session.
LEMMA DataserverRegSession ==
    ASSUME SessionInv, TypeInv', DataserverReg  PROVE SessionInv'
<1>1. PICK ok \in Results(userTable[req.user] = Empty) :
          /\ InsertUser(req.user, req.isDriver, ok)
          /\ Advance(req, ok, "session")
  BY DEF DataserverReg
<1>2. ok \in BOOLEAN  BY ResultsAreBoolean
<1>3. /\ req \in Request /\ "session" \in Steps
      /\ req.user \in User /\ req.isDriver \in {"yes", "no"}
      /\ userTable \in [User -> {Empty, "yes", "no"}]
  BY DEF SessionInv, TypeInv, TypeOK, DataTypeOK, WebTypeOK, Steps, LocalsFor,
         DataserverReg
<1>4. /\ UNCHANGED <<hash, volatile>> /\ UNCHANGED owner /\ UNCHANGED handed
      /\ \A u \in User : userTable[u] # Empty => userTable'[u] = userTable[u]
      /\ ok => userTable'[req.user] = req.isDriver
  BY <1>1, <1>3 DEF InsertUser, dataVars, DataserverReg, history
<1>5. SessionIsRegistered'
  <2> SUFFICES ASSUME NEW s \in SessionId, hash'[s].username # Empty
               PROVE  /\ hash'[s].username = owner'[s]
                      /\ s \in SidOf(userTable'[owner'[s]])
                      /\ userTable'[owner'[s]] # Empty
    BY DEF SessionIsRegistered, SidOf
  <2>1. /\ hash[s].username = owner[s] /\ s \in SidOf(userTable[owner[s]])
        /\ userTable[owner[s]] # Empty
    BY <1>4 DEF SessionInv, SessionIsRegistered
  <2>2. owner[s] \in User
    BY <1>4, <2>1 DEF SessionInv, TypeInv, TypeOK, WebTypeOK
  <2> QED  BY <1>4, <2>1, <2>2
<1>6. HandedSessionExpires' /\ HandedAreOwned'
  BY <1>4 DEF SessionInv, HandedSessionExpires, HandedAreOwned
<1>7. LoggingIn'
  <2>1. CASE ok
    <3>1. pc' = "session" /\ req' = req  BY <1>1, <1>2, <1>3, <2>1, AdvanceType
    <3> QED  BY <1>4, <2>1, <3>1 DEF LoggingIn
  <2>2. CASE ~ok  BY <1>1, <1>2, <1>3, <2>2, NothingHanded
  <2> QED  BY <2>1, <2>2
<1> QED  BY <1>5, <1>6, <1>7 DEF SessionInv

\* A new session is given the name of the user who was looked up or inserted,
\* wherever the writing stops; nobody was given this session before.
LEMMA CacheserverSessionSession ==
    ASSUME SessionInv, TypeInv', CacheserverSession  PROVE SessionInv'
<1> DEFINE partial(s) == {[hash[s] EXCEPT !.username = req.user]}
           full(s)    == [hash[s] EXCEPT !.username = req.user, !.orderid = None]
<1>1. PICK s \in FreshSid(req.isDriver), ok \in Results(TRUE) :
          /\ SetHash(s, partial(s), full(s), ok)
          /\ owner' = [owner EXCEPT ![s] = req.user]
          /\ Advance([req EXCEPT !.sid = s], ok, "lifecycle")
  BY DEF CacheserverSession
<1>2. ok \in BOOLEAN  BY ResultsAreBoolean
<1>3. /\ s \in SessionId /\ s \in Key /\ owner[s] = Empty
      /\ s \in SidOf(req.isDriver)
  BY DEF FreshSid, SidOf, SessionId, Key
<1>4. /\ hash \in [Key -> Hash] /\ SessionId \subseteq Key
      /\ owner \in [SessionId -> User \cup {Empty}] /\ handed \subseteq SessionId
      /\ req \in Request /\ req.user \in User /\ req.user # Empty
      /\ req.isDriver \in {"yes", "no"}
      /\ userTable[req.user] = req.isDriver
  BY Identifiers DEF SessionInv, LoggingIn, TypeInv, TypeOK, DataTypeOK, WebTypeOK, LocalsFor,
     CacheserverSession, Key
<1>5. hash[s].username = Empty
  BY <1>3 DEF SessionInv, SessionIsRegistered
<1>6. PICK h : hash' = [hash EXCEPT ![s] = h] /\ h.username \in {Empty, req.user}
  <2>1. hash[s] \in Hash  BY <1>3, <1>4
  <2>2. full(s).username = req.user /\ \A h \in partial(s) : h.username = req.user
    BY <2>1 DEF Hash
  <2> HIDE DEF partial, full
  <2>3. \A h \in Mixed(hash[s], full(s)) :
          h.username \in {hash[s].username, full(s).username}
    BY MixedFields
  <2> QED  BY <1>1, <1>5, <2>2, <2>3 DEF SetHash
<1>7. UNCHANGED <<volatile, userTable>> /\ UNCHANGED handed
  BY <1>1 DEF SetHash, CacheserverSession
<1>8. SessionIsRegistered'
  <2> SUFFICES ASSUME NEW t \in SessionId, hash'[t].username # Empty
               PROVE  /\ hash'[t].username = owner'[t]
                      /\ t \in SidOf(userTable'[owner'[t]])
                      /\ userTable'[owner'[t]] # Empty
    BY DEF SessionIsRegistered, SidOf
  <2>1. CASE t = s
    <3>1. hash'[t].username = req.user /\ owner'[t] = req.user
      BY <1>1, <1>3, <1>4, <1>6, <2>1
    <3>2. req.isDriver # Empty  BY <1>4 DEF Empty
    <3> QED  BY <1>3, <1>4, <1>7, <2>1, <3>1, <3>2
  <2>2. CASE t # s
    <3>1. hash'[t] = hash[t] /\ owner'[t] = owner[t]  BY <1>1, <1>4, <1>6, <2>2
    <3> QED  BY <1>7, <3>1 DEF SessionInv, SessionIsRegistered
  <2> QED  BY <2>1, <2>2
<1>9. s \notin handed  BY <1>3 DEF SessionInv, HandedAreOwned
<1>10. \A t \in handed : hash'[t] = hash[t] /\ owner'[t] = owner[t]
  BY <1>1, <1>4, <1>6, <1>9
<1>11. HandedSessionExpires' /\ HandedAreOwned'
  BY <1>7, <1>10 DEF SessionInv, HandedSessionExpires, HandedAreOwned
<1>12. LoggingIn'
  <2>1. [req EXCEPT !.sid = s] \in Request /\ "lifecycle" \in Steps
    BY <1>3, <1>4 DEF Request, Steps
  <2>2. CASE ok
    <3>1. pc' = "lifecycle" /\ req' = [req EXCEPT !.sid = s]
      BY <1>1, <1>2, <2>1, <2>2, AdvanceType
    <3>2. req'.sid = s /\ owner'[s] = req.user  BY <1>1, <1>3, <1>4, <3>1 DEF Request
    <3> QED  BY <1>4, <3>1, <3>2 DEF LoggingIn
  <2>3. CASE ~ok  BY <1>1, <1>2, <2>1, <2>3, NothingHanded
  <2> QED  BY <2>2, <2>3
<1> QED  BY <1>8, <1>11, <1>12 DEF SessionInv

\* An "ok" means that the session has its deadline, or is gone already.
LEMMA CacheserverLifecycleSession ==
    ASSUME SessionInv, TypeInv', CacheserverLifecycle  PROVE SessionInv'
<1>1. PICK ok \in Results(Exists(req.sid)) :
          /\ SetLifecycle(req.sid, ok)
          /\ Advance(req, ok, "reply")
  BY DEF CacheserverLifecycle
<1>2. ok \in BOOLEAN  BY ResultsAreBoolean DEF Exists
<1>3. /\ req \in Request /\ "reply" \in Steps /\ req.sid \in SessionId
      /\ owner[req.sid] # Empty
  BY DEF SessionInv, LoggingIn, TypeInv, TypeOK, WebTypeOK, Steps, LocalsFor,
         CacheserverLifecycle
<1>4. SessionsKept /\ SameUsers /\ UNCHANGED handed /\ UNCHANGED owner
  BY <1>1, <1>3, DeadlineKeeps DEF SessionInv, CacheserverLifecycle, history
<1>5. LoggingIn'
  <2>1. CASE ok
    <3>1. pc' = "reply" /\ req' = req  BY <1>1, <1>2, <1>3, <2>1, AdvanceType
    <3>2. hash \in [Key -> Hash] /\ req.sid \in Key
      BY <1>3 DEF SessionInv, TypeInv, TypeOK, DataTypeOK, Key
    <3>3. hash'[req.sid].username # Empty => req.sid \in volatile'
      BY <1>1, <2>1, <3>2 DEF SetLifecycle, Remove, Blank
    <3> QED  BY <1>3, <1>4, <3>1, <3>3 DEF LoggingIn
  <2>2. CASE ~ok  BY <1>1, <1>2, <1>3, <2>2, NothingHanded
  <2> QED  BY <2>1, <2>2
<1> QED  BY <1>4, <1>5, KeptData DEF SessionInv

-----------------------------------------------------------------------------
(* The other handlers                                                      *)

\* A step of a handler that hands no session over.
LEMMA OtherHandler ==
    ASSUME SessionInv, TypeInv', SessionsKept, SameUsers, UNCHANGED handed,
           pc' \notin {"session", "lifecycle"}, req'.op \notin AuthOps
    PROVE  SessionInv'
<1>1. LoggingIn'  BY DEF LoggingIn
<1> QED  BY <1>1, KeptData DEF SessionInv

\* Whatever the result of a call, its handler remains the one it is.
LEMMA SameHandler ==
    ASSUME NEW r, NEW ok, NEW next, Advance(r, ok, next), r.op \notin AuthOps,
           next \notin {"session", "lifecycle"}
    PROVE  pc' \notin {"session", "lifecycle"} /\ req'.op \notin AuthOps
<1>1. CASE ok   BY <1>1 DEF Advance
<1>2. CASE ~ok  BY <1>2 DEF Advance, NoReq
<1> QED  BY <1>1, <1>2

\* The calls of the other three handlers belong to their requests.
LEMMA OtherRequest ==
    ASSUME SessionInv, pc \in AssignSteps \cup ReportSteps \cup FinishSteps
    PROVE  req.op \notin AuthOps /\ req \in Request
BY DEF SessionInv, TypeInv, TypeOK, WebTypeOK, LocalsFor, AuthOps

\* No order is a session.
LEMMA OrdersAreNoSessions ==
    ASSUME NEW o \in OrderKey  PROVE o \in Key /\ o \notin SessionId
BY Identifiers DEF OrderKey, Key

LEMMA RequestSession ==
    ASSUME SessionInv, TypeInv', OrderRequest \/ LocationRequest \/ FinishRequest
    PROVE  SessionInv'
<1>1. SessionsKept /\ SameUsers /\ UNCHANGED handed
  BY SameDataKeeps DEF OrderRequest, LocationRequest, FinishRequest, history
<1>2. pc' \notin {"session", "lifecycle"}
  BY DEF OrderRequest, LocationRequest, FinishRequest
<1>3. req'.op \in {"setOrder", "locationChanged", "finishOrder"}
  BY DEF OrderRequest, LocationRequest, FinishRequest, NoReq
<1> QED  BY <1>1, <1>2, <1>3, OtherHandler DEF AuthOps

\* The calls that only read.
LEMMA ReadSession ==
    ASSUME SessionInv, TypeInv',
           \/ CacheserverRadiusGeo \/ ExistSessionid \/ GetOrderid
           \/ GetOrderd \/ GetUsernamePassenger \/ GetUsernameDriver
    PROVE  SessionInv'
<1>1. UNCHANGED dataVars /\ UNCHANGED owner /\ UNCHANGED handed
  BY DEF CacheserverRadiusGeo, ExistSessionid, GetOrderid, GetOrderd,
         GetUsernamePassenger, GetUsernameDriver, RadiusGeo, ExistKey, history
<1>2. SessionsKept /\ SameUsers  BY <1>1, SameDataKeeps
<1>3. req.op \notin AuthOps /\ req \in Request
  BY OtherRequest DEF CacheserverRadiusGeo, ExistSessionid, GetOrderid, GetOrderd,
         GetUsernamePassenger, GetUsernameDriver
<1>4. CASE CacheserverRadiusGeo
  <2> DEFINE r(d, ok) == [req EXCEPT !.driver = d,
                                     !.recode = IF ok /\ d = Empty THEN "3" ELSE "0"]
  <2>1. PICK d, ok : Advance(r(d, ok), ok /\ d # Empty, "create_order")
    BY <1>4 DEF CacheserverRadiusGeo
  <2>2. r(d, ok).op = req.op  BY <1>3 DEF Request
  <2> HIDE DEF r
  <2> QED  BY <1>1, <1>2, <1>3, <2>1, <2>2, SameHandler, OtherHandler
<1>5. CASE ExistSessionid
  <2>1. PICK r, ok : Advance(r, ok, "touch") /\ r.op = req.op
    BY <1>3, <1>5 DEF ExistSessionid, Request
  <2> QED  BY <1>1, <1>2, <1>3, <2>1, SameHandler, OtherHandler
<1>6. CASE GetOrderid
  <2>1. PICK r, ok, next : /\ Advance(r, ok, next) /\ r.op = req.op
                           /\ next \in {"rem_geo", "set_ptemp", "reply"}
    BY <1>3, <1>6 DEF GetOrderid, Request, DriverBranch, PassengerBranch
  <2> QED  BY <1>1, <1>2, <1>3, <2>1, SameHandler, OtherHandler
<1>7. CASE GetOrderd
  <2>1. PICK ok \in Results(TRUE) :
          Advance(IF ok
                  THEN [req EXCEPT
                          !.passenger = hash[req.oid].passenger_sessionid,
                          !.driver = hash[req.oid].driver_sessionid,
                          !.row.start_order_time = hash[req.oid].start_order_time]
                  ELSE req, ok, "p_name")
    BY <1>7 DEF GetOrderd
  <2>2. (IF ok
         THEN [req EXCEPT
                 !.passenger = hash[req.oid].passenger_sessionid,
                 !.driver = hash[req.oid].driver_sessionid,
                 !.row.start_order_time = hash[req.oid].start_order_time]
         ELSE req).op = req.op
    BY <1>3 DEF Request
  <2> QED  BY <1>1, <1>2, <1>3, <2>1, <2>2, SameHandler, OtherHandler
<1>8. CASE GetUsernamePassenger
  <2>1. PICK r, ok : Advance(r, ok, "d_name") /\ r.op = req.op
    BY <1>3, <1>8 DEF GetUsernamePassenger, Request
  <2> QED  BY <1>1, <1>2, <1>3, <2>1, SameHandler, OtherHandler
<1>9. CASE GetUsernameDriver
  <2>1. PICK r, ok : Advance(r, ok, "insert") /\ r.op = req.op
    BY <1>3, <1>9 DEF GetUsernameDriver, Request
  <2> QED  BY <1>1, <1>2, <1>3, <2>1, SameHandler, OtherHandler
<1> QED  BY <1>4, <1>5, <1>6, <1>7, <1>8, <1>9

\* A poll gives its session a new deadline.
LEMMA TouchSessionSession ==
    ASSUME SessionInv, TypeInv', TouchSession  PROVE SessionInv'
<1>1. PICK ok \in Results(Exists(req.sid)) :
          SetLifecycle(req.sid, ok) /\ Advance(req, ok, "get_orderid")
  BY DEF TouchSession
<1>2. req.op \notin AuthOps  BY OtherRequest DEF TouchSession
<1>3. req.sid \in SessionId  BY DEF SessionInv, TypeInv, LocalsFor, TouchSession
<1>4. SessionsKept /\ SameUsers /\ UNCHANGED handed
  BY <1>1, <1>3, DeadlineKeeps DEF SessionInv, TouchSession, history
<1> QED  BY <1>1, <1>2, <1>4, SameHandler, OtherHandler

\* The pool is not the sessions.
LEMMA PoolSession ==
    ASSUME SessionInv, TypeInv', RemGeo \/ AddToPool  PROVE SessionInv'
<1>1. SessionsKept /\ SameUsers /\ UNCHANGED handed
  BY DEF RemGeo, AddToPool, RemZset, AddGeo, SessionsKept, SameUsers, history
<1>2. req.op \notin AuthOps /\ req \in Request
  BY OtherRequest DEF RemGeo, AddToPool
<1>3. pc' \notin {"session", "lifecycle"}
  BY DEF RemGeo, AddToPool, AfterRemGeo, Proceed
<1>4. req'.op = req.op  BY <1>2 DEF RemGeo, AddToPool, Proceed, Request
<1> QED  BY <1>1, <1>2, <1>3, <1>4, OtherHandler

\* What is written into an order is not written into a session.
LEMMA WriteOrderSession ==
    ASSUME SessionInv, TypeInv', StartorderReal \/ SetDtempLocation \/ SetPtempLocation
    PROVE  SessionInv'
<1>1. req.op \notin AuthOps /\ req \in Request
  BY OtherRequest DEF StartorderReal, SetDtempLocation, SetPtempLocation
<1>2. req.oid \in Key /\ req.oid \notin SessionId
  BY <1>1, OrdersAreNoSessions DEF Request
<1>3. /\ \E full, ok : SetHash(req.oid, {}, full, ok)
      /\ UNCHANGED owner /\ UNCHANGED handed
      /\ pc' \in {"set_dtemp", "reply"} /\ req' = req
  BY DEF StartorderReal, SetDtempLocation, SetPtempLocation, Proceed, history
<1>4. SessionsKept /\ SameUsers
  BY <1>2, <1>3, SessionWriteKeeps DEF SessionInv
<1> QED  BY <1>1, <1>3, <1>4, OtherHandler

LEMMA CacheserverCreateOrderSession ==
    ASSUME SessionInv, TypeInv', CacheserverCreateOrder  PROVE SessionInv'
<1>1. PICK o \in OrderId : \E partial, full, ok :
          /\ SetHash(o, partial, full, ok)
          /\ Advance([req EXCEPT !.oid = o], ok, "driver_orderid")
  BY DEF CacheserverCreateOrder
<1>2. req.op \notin AuthOps /\ req \in Request
  BY OtherRequest DEF CacheserverCreateOrder
<1>3. o \in Key /\ o \notin SessionId  BY OrdersAreNoSessions DEF OrderKey
<1>4. SessionsKept /\ SameUsers /\ UNCHANGED handed
  BY <1>1, <1>3, SessionWriteKeeps DEF SessionInv, CacheserverCreateOrder
<1> DEFINE r == [req EXCEPT !.oid = o]
<1>5. r.op = req.op /\ \E ok : Advance(r, ok, "driver_orderid")  BY <1>1, <1>2 DEF Request
<1> HIDE DEF r
<1>6. pc' \notin {"session", "lifecycle"} /\ req'.op \notin AuthOps
  BY <1>2, <1>5, SameHandler
<1> QED  BY <1>4, <1>6, OtherHandler

\* set_orderid writes the order of a session, or of no session.
LEMMA WriteOrderid ==
    ASSUME SessionInv, TypeInv', NEW k \in SessionId \cup {Empty}, NEW o, NEW ok,
           NEW next, SetHash(k, {}, [hash[k] EXCEPT !.orderid = o], ok),
           Advance(req, ok, next), req.op \notin AuthOps,
           next \notin {"session", "lifecycle"}, UNCHANGED history
    PROVE  SessionInv'
<1>1. k \in Key  BY DEF Key, OrderKey
<1>2. [hash[k] EXCEPT !.orderid = o].username = hash[k].username
  BY <1>1, OrderidKeepsName DEF SessionInv
<1>3. SessionsKept /\ SameUsers /\ UNCHANGED handed
  <2> DEFINE full == [hash[k] EXCEPT !.orderid = o]
  <2>1. full.username = hash[k].username /\ SetHash(k, {}, full, ok)  BY <1>2
  <2> HIDE DEF full
  <2> QED  BY <1>1, <2>1, SessionWriteKeeps DEF SessionInv, history
<1> QED  BY <1>3, SameHandler, OtherHandler

LEMMA SetOrderidSession ==
    ASSUME SessionInv, TypeInv',
           SetOrderidDriver \/ SetOrderidPassenger \/ ReleaseDriver \/ ReleasePassenger
    PROVE  SessionInv'
<1>1. req.op \notin AuthOps /\ req \in Request
  BY OtherRequest DEF SetOrderidDriver, SetOrderidPassenger, ReleaseDriver, ReleasePassenger
<1>2. /\ req.driver \in SessionId \cup {Empty}
      /\ req.passenger \in SessionId \cup {Empty}
  BY <1>1 DEF Request, SessionId
<1>3. CASE SetOrderidDriver
  BY <1>1, <1>2, <1>3, WriteOrderid DEF SetOrderidDriver
<1>4. CASE SetOrderidPassenger
  BY <1>1, <1>2, <1>4, WriteOrderid DEF SetOrderidPassenger
<1>5. CASE ReleaseDriver
  BY <1>1, <1>2, <1>5, WriteOrderid DEF ReleaseDriver
<1>6. CASE ReleasePassenger
  BY <1>1, <1>2, <1>6, WriteOrderid DEF ReleasePassenger
<1> QED  BY <1>3, <1>4, <1>5, <1>6

LEMMA DataserverCreateOrderSession ==
    ASSUME SessionInv, TypeInv', DataserverCreateOrder  PROVE SessionInv'
<1>1. PICK ok : InsertOrder(req.oid, req.row, ok) /\ Advance(req, ok, "d_none")
  BY DEF DataserverCreateOrder
<1>2. req.op \notin AuthOps  BY OtherRequest DEF DataserverCreateOrder
<1>3. SessionsKept /\ SameUsers /\ UNCHANGED handed
  BY <1>1 DEF InsertOrder, dataVars, SessionsKept, SameUsers, DataserverCreateOrder,
     history
<1> QED  BY <1>1, <1>2, <1>3, SameHandler, OtherHandler

LEMMA DeleteOrderSession ==
    ASSUME SessionInv, TypeInv', DeleteOrder  PROVE SessionInv'
<1>1. PICK ok : DeleteKey(req.oid, ok)  BY DEF DeleteOrder
<1>2. req.op \notin AuthOps /\ req \in Request  BY OtherRequest DEF DeleteOrder
<1>3. req.oid \in Key  BY <1>2, OrdersAreNoSessions DEF Request
<1>4. UNCHANGED owner /\ UNCHANGED handed /\ pc' = "reply" /\ req' = req
  BY DEF DeleteOrder, Proceed, history
<1>5. SessionsKept /\ SameUsers
  BY <1>1, <1>3, <1>4, RemovalKeeps, SameDataKeeps DEF DeleteKey, SessionInv
<1> QED  BY <1>2, <1>4, <1>5, OtherHandler

-----------------------------------------------------------------------------
(* The reply, and what happens to the server                               *)

\* What is handed over was created, and has a deadline.
LEMMA ReplySession ==
    ASSUME SessionInv, TypeInv', Reply  PROVE SessionInv'
<1>1. SessionsKept /\ SameUsers
  BY SameDataKeeps DEF Reply
<1>2. SessionIsRegistered'
  BY <1>1 DEF SessionInv, SessionIsRegistered, SessionsKept, SameUsers
<1>3. \A s \in handed' : \/ s \in handed
                         \/ s = req.sid /\ req.ok /\ req.op \in AuthOps
  BY DEF Reply, AuthOps
<1>4. HandedSessionExpires'
  BY <1>3 DEF SessionInv, HandedSessionExpires, LoggingIn, Reply, dataVars
<1>5. HandedAreOwned'
  BY <1>3 DEF SessionInv, HandedAreOwned, LoggingIn, Reply
<1>6. LoggingIn'  BY DEF Reply, LoggingIn
<1> QED  BY <1>2, <1>4, <1>5, <1>6 DEF SessionInv

\* A session that expires while its own handler runs is handed over gone.
LEMMA SessionExpiresSession ==
    ASSUME SessionInv, TypeInv', SessionExpires  PROVE SessionInv'
<1>1. PICK s \in SessionId : Remove(s)  BY DEF SessionExpires, Expire
<1>2. UNCHANGED <<pc, req>> /\ UNCHANGED owner /\ UNCHANGED handed
  BY DEF SessionExpires, webVars, history
<1>3. SessionsKept /\ SameUsers
  BY <1>1, <1>2, RemovalKeeps DEF SessionInv, Key
<1>4. pc = "reply" /\ req.op \in AuthOps /\ req.ok => req.sid \in SessionId
  BY DEF SessionInv, TypeInv, LocalsFor, AuthOps
<1>5. LoggingIn'
  BY <1>2, <1>3, <1>4 DEF SessionInv, LoggingIn, SessionsKept, SameUsers
<1> QED  BY <1>2, <1>3, <1>5, KeptData DEF SessionInv

LEMMA RestartSession ==
    ASSUME SessionInv, TypeInv', Restart  PROVE SessionInv'
<1>1. SessionsKept /\ SameUsers /\ UNCHANGED handed
  BY SameDataKeeps DEF Restart, history
<1>2. pc' = "idle" /\ req'.op = "none"  BY DEF Restart, NoReq
<1> QED  BY <1>1, <1>2, OtherHandler DEF AuthOps

-----------------------------------------------------------------------------
(* The theorems                                                            *)

LEMMA SessionInit == Init => SessionInv
<1> SUFFICES ASSUME Init  PROVE SessionInv
  OBVIOUS
<1>1. TypeInv  BY TypeInit
<1>2. \A s \in SessionId : hash[s].username = Empty
  BY DEF Init, DataInit, Blank, Key
<1> QED
  BY <1>1, <1>2 DEF SessionInv, SessionIsRegistered, HandedSessionExpires, HandedAreOwned,
     LoggingIn, Init

LEMMA SessionStep == SessionInv /\ [Next]_vars => SessionInv'
<1> SUFFICES ASSUME SessionInv, [Next]_vars  PROVE SessionInv'
  OBVIOUS
<1>1. TypeInv'  BY TypeStep DEF SessionInv
<1>2. CASE ClientRequest
  BY <1>1, <1>2, AuthRequestSession, RequestSession
     DEF ClientRequest, LoginRequest, RegRequest, AuthOps
<1>3. CASE ServerStep
  BY <1>1, <1>3, DataserverLoginSession, DataserverRegSession, CacheserverSessionSession,
     CacheserverLifecycleSession, ReadSession, TouchSessionSession, PoolSession,
     WriteOrderSession, CacheserverCreateOrderSession, SetOrderidSession,
     DataserverCreateOrderSession, DeleteOrderSession, ReplySession
     DEF ServerStep
<1>4. CASE SessionExpires  BY <1>1, <1>4, SessionExpiresSession
<1>5. CASE Restart  BY <1>1, <1>5, RestartSession
<1>6. CASE UNCHANGED vars
  BY <1>1, <1>6 DEF vars, SessionInv, SessionIsRegistered, HandedSessionExpires,
     HandedAreOwned, LoggingIn
<1> QED  BY <1>2, <1>3, <1>4, <1>5, <1>6 DEF Next

LEMMA SessionInvHolds == Spec => []SessionInv
BY SessionInit, SessionStep, PTL DEF Spec

\* A session carries the name of the user it was created for, who is in MySQL with
\* the role of the session (login.c:72-76, reg.c:68-78), whatever fails.
THEOREM SessionsAreRegistered == Spec => []SessionIsRegistered
<1>1. SessionInv => SessionIsRegistered  BY DEF SessionInv
<1> QED  BY <1>1, SessionInvHolds, PTL

\* No client is given a session that would live for ever (login.c:78, reg.c:80).
THEOREM HandedSessionsExpire == Spec => []HandedSessionExpires
<1>1. SessionInv => HandedSessionExpires  BY DEF SessionInv
<1> QED  BY <1>1, SessionInvHolds, PTL

-----------------------------------------------------------------------------
(* The pool of drivers *)

\* A report of a driver that is on the way to a passenger or with one.
OnTheWay(q) == q.op = "locationChanged" /\ q.status \in {"catching", "driving"}

\* Such a report is a driver's, it goes through the removal from the pool, and
\* after that the driver is not in it.
OutOfPool ==
    OnTheWay(req) =>
        /\ req.isDriver = "yes"
        /\ pc \in {"exist", "touch", "get_orderid", "rem_geo", "start_real",
                   "set_dtemp", "reply"}
        /\ pc \in {"start_real", "set_dtemp", "reply"} => req.sid \notin geo

PoolInv == TypeInv /\ OutOfPool

\* A handler of another request is no report, and does not become one.
LEMMA OtherThanReport ==
    ASSUME TypeInv, pc \in AuthSteps \cup AssignSteps \cup FinishSteps,
           NEW r, NEW ok, NEW next, Advance(r, ok, next), r.op = req.op
    PROVE  OutOfPool'
<1>1. req.op # "locationChanged"  BY DEF TypeInv, LocalsFor
<1>2. req'.op = r.op  BY DEF Advance, NoReq
<1> QED  BY <1>1, <1>2 DEF OutOfPool, OnTheWay

\* The same for a call whose result is dropped.
LEMMA OtherProceeds ==
    ASSUME TypeInv, pc \in AuthSteps \cup AssignSteps \cup FinishSteps, UNCHANGED req
    PROVE  OutOfPool'
BY DEF TypeInv, LocalsFor, OutOfPool, OnTheWay

\* The calls of the other three handlers.
LEMMA OtherHandlerPool ==
    ASSUME PoolInv,
           \/ DataserverLogin \/ DataserverReg
           \/ CacheserverSession \/ CacheserverLifecycle
           \/ CacheserverRadiusGeo \/ CacheserverCreateOrder
           \/ SetOrderidDriver \/ SetOrderidPassenger
           \/ GetOrderd \/ GetUsernamePassenger \/ GetUsernameDriver
           \/ DataserverCreateOrder \/ ReleaseDriver \/ ReleasePassenger
           \/ DeleteOrder
    PROVE  OutOfPool'
<1>1. req \in Request  BY DEF PoolInv, TypeInv, TypeOK, WebTypeOK
<1>2. \A x : /\ [req EXCEPT !.sid = x].op = req.op
             /\ [req EXCEPT !.oid = x].op = req.op
             /\ \A y : [req EXCEPT !.driver = x, !.recode = y].op = req.op
             /\ [req EXCEPT !.row.passenger_username = x].op = req.op
             /\ [req EXCEPT !.row.driver_username = x].op = req.op
  BY <1>1 DEF Request
<1>3. CASE DataserverLogin
  BY <1>3, OtherThanReport DEF DataserverLogin, PoolInv
<1>4. CASE DataserverReg
  BY <1>4, OtherThanReport DEF DataserverReg, PoolInv
<1>5. CASE CacheserverSession
  BY <1>2, <1>5, OtherThanReport DEF CacheserverSession, PoolInv
<1>6. CASE CacheserverLifecycle
  BY <1>6, OtherThanReport DEF CacheserverLifecycle, PoolInv
<1>7. CASE CacheserverRadiusGeo
  BY <1>2, <1>7, OtherThanReport DEF CacheserverRadiusGeo, PoolInv
<1>8. CASE CacheserverCreateOrder
  BY <1>2, <1>8, OtherThanReport DEF CacheserverCreateOrder, PoolInv
<1>9. CASE SetOrderidDriver
  BY <1>9, OtherThanReport DEF SetOrderidDriver, PoolInv
<1>10. CASE SetOrderidPassenger
  BY <1>10, OtherThanReport DEF SetOrderidPassenger, PoolInv
<1>11. CASE GetOrderd
  <2>1. PICK ok, r :
           /\ r = IF ok
                  THEN [req EXCEPT
                          !.passenger = hash[req.oid].passenger_sessionid,
                          !.driver = hash[req.oid].driver_sessionid,
                          !.row.start_order_time = hash[req.oid].start_order_time]
                  ELSE req
           /\ Advance(r, ok, "p_name")
    BY <1>11 DEF GetOrderd
  <2>2. r.op = req.op  BY <1>1, <2>1 DEF Request
  <2> QED  BY <1>11, <2>1, <2>2, OtherThanReport DEF GetOrderd, PoolInv
<1>12. CASE GetUsernamePassenger
  BY <1>2, <1>12, OtherThanReport DEF GetUsernamePassenger, PoolInv
<1>13. CASE GetUsernameDriver
  BY <1>2, <1>13, OtherThanReport DEF GetUsernameDriver, PoolInv
<1>14. CASE DataserverCreateOrder
  BY <1>14, OtherThanReport DEF DataserverCreateOrder, PoolInv
<1>15. CASE ReleaseDriver
  BY <1>15, OtherThanReport DEF ReleaseDriver, PoolInv
<1>16. CASE ReleasePassenger
  BY <1>16, OtherThanReport DEF ReleasePassenger, PoolInv
<1>17. CASE DeleteOrder
  BY <1>17, OtherProceeds DEF DeleteOrder, Proceed, PoolInv
<1> QED
  BY <1>3, <1>4, <1>5, <1>6, <1>7, <1>8, <1>9, <1>10, <1>11, <1>12, <1>13, <1>14,
     <1>15, <1>16, <1>17

\* A request of a client is not a report, or it begins one.
LEMMA RequestPool ==
    ASSUME PoolInv, ClientRequest  PROVE OutOfPool'
<1>1. CASE \E op \in {"login", "reg"} : AuthRequest(op)
  BY <1>1 DEF AuthRequest, NoReq, OutOfPool, OnTheWay
<1>2. CASE OrderRequest
  BY <1>2 DEF OrderRequest, NoReq, OutOfPool, OnTheWay
<1>3. CASE FinishRequest
  BY <1>3 DEF FinishRequest, NoReq, OutOfPool, OnTheWay
<1>4. CASE LocationRequest
  <2>1. PICK s \in handed, auto \in BOOLEAN :
           \E status \in Statuses \cap
                 (IF s \in DriverSid THEN DriverStatus ELSE PassengerStatus) :
              req' = [NoReq EXCEPT !.op = "locationChanged", !.sid = s,
                         !.isDriver = IF s \in DriverSid THEN "yes" ELSE "no",
                         !.status = status, !.autosend = auto]
    BY <1>4 DEF LocationRequest
  <2>2. PICK status \in IF s \in DriverSid THEN DriverStatus ELSE PassengerStatus :
           req' = [NoReq EXCEPT !.op = "locationChanged", !.sid = s,
                      !.isDriver = IF s \in DriverSid THEN "yes" ELSE "no",
                      !.status = status, !.autosend = auto]
    BY <2>1
  <2>3. /\ req'.isDriver = IF s \in DriverSid THEN "yes" ELSE "no"
        /\ req'.status = status
    BY <2>2 DEF NoReq
  <2>4. pc' = "exist"  BY <1>4 DEF LocationRequest
  <2> QED  BY <2>2, <2>3, <2>4 DEF OutOfPool, OnTheWay, PassengerStatus
<1> QED
  BY <1>1, <1>2, <1>3, <1>4 DEF ClientRequest, LoginRequest, RegRequest

\* The calls up to the one that reads the order leave the pool as it is, and a
\* driver on the way goes to the removal.
LEMMA ReportBeginsPool ==
    ASSUME PoolInv, ExistSessionid \/ TouchSession \/ GetOrderid
    PROVE  OutOfPool'
<1>1. req \in Request  BY DEF PoolInv, TypeInv, TypeOK, WebTypeOK
<1>2. CASE ExistSessionid
  <2>1. PICK ok \in Results(Exists(req.sid)) :
           Advance([req EXCEPT !.recode = IF ok THEN "0" ELSE "2"], ok, "touch")
    BY <1>2 DEF ExistSessionid
  <2>2. CASE ok
    <3>1. req' = [req EXCEPT !.recode = "0"] /\ pc' = "touch"
      BY <2>1, <2>2 DEF Advance
    <3> QED  BY <1>1, <1>2, <3>1 DEF ExistSessionid, PoolInv, OutOfPool, OnTheWay, Request
  <2>3. CASE ~ok
    <3>1. req'.status = Empty  BY <2>1, <2>3 DEF Advance, NoReq
    <3> QED  BY <3>1 DEF OutOfPool, OnTheWay, Empty
  <2> QED  BY <2>2, <2>3
<1>3. CASE TouchSession
  <2>1. PICK ok \in Results(Exists(req.sid)) : Advance(req, ok, "get_orderid")
    BY <1>3 DEF TouchSession
  <2>2. CASE ok
    <3>1. req' = req /\ pc' = "get_orderid"  BY <2>1, <2>2 DEF Advance
    <3> QED  BY <1>3, <3>1 DEF TouchSession, PoolInv, OutOfPool, OnTheWay
  <2>3. CASE ~ok
    <3>1. req'.status = Empty  BY <2>1, <2>3 DEF Advance, NoReq
    <3> QED  BY <3>1 DEF OutOfPool, OnTheWay, Empty
  <2> QED  BY <2>2, <2>3
<1>4. CASE GetOrderid
  <2>1. PICK ok \in Results(TRUE) :
           Advance([req EXCEPT !.oid = IF ok THEN hash[req.sid].orderid ELSE Empty],
                   ok, IF req.isDriver = "yes" THEN DriverBranch(req.status)
                                               ELSE PassengerBranch(req.status))
    BY <1>4 DEF GetOrderid
  <2>2. CASE ok
    <3>1. PICK o : o = hash[req.sid].orderid  OBVIOUS
    <3>2. /\ req' = [req EXCEPT !.oid = o]
          /\ pc' = IF req.isDriver = "yes" THEN DriverBranch(req.status)
                                           ELSE PassengerBranch(req.status)
      BY <2>1, <2>2, <3>1 DEF Advance
    <3>3. /\ req'.op = req.op /\ req'.status = req.status
          /\ req'.isDriver = req.isDriver
      BY <1>1, <3>2 DEF Request
    <3>4. ASSUME OnTheWay(req)'  PROVE req'.isDriver = "yes" /\ pc' = "rem_geo"
      BY <3>2, <3>3, <3>4 DEF PoolInv, OutOfPool, OnTheWay, DriverBranch
    <3> QED  BY <3>4 DEF OutOfPool
  <2>3. CASE ~ok
    <3>1. req'.status = Empty  BY <2>1, <2>3 DEF Advance, NoReq
    <3> QED  BY <3>1 DEF OutOfPool, OnTheWay, Empty
  <2> QED  BY <2>2, <2>3
<1> QED  BY <1>2, <1>3, <1>4

\* A removal that neither fails nor is refused takes the driver out of the pool.
LEMMA RemGeoPool ==
    ASSUME "rem_geo" \notin Flaky, KEY_ONLINE_DRIVERS_GEO_ZSET \notin Refused,
           PoolInv, RemGeo
    PROVE  OutOfPool'
<1>1. req \in Request /\ pc = "rem_geo"
  BY DEF PoolInv, TypeInv, TypeOK, WebTypeOK, RemGeo
<1>2. PICK ok \in Results(TRUE) :
         /\ RemZset(req.sid, ok)
         /\ req' = [req EXCEPT !.ok = ok \/ req.status # STATUS_DRIVER_IDLE]
  BY DEF RemGeo
<1>3. ok = TRUE  BY <1>1, <1>2 DEF Results
<1>4. geo' = geo \ {req.sid}  BY <1>2, <1>3 DEF RemZset
<1>5. /\ req'.op = req.op /\ req'.status = req.status
      /\ req'.sid = req.sid /\ req'.isDriver = req.isDriver
  BY <1>1, <1>2 DEF Request
<1>6. ASSUME OnTheWay(req)'
      PROVE  req'.isDriver = "yes" /\ pc' \in {"start_real", "set_dtemp"}
  BY <1>5, <1>6 DEF PoolInv, OutOfPool, OnTheWay, RemGeo, AfterRemGeo
<1> QED  BY <1>4, <1>5, <1>6 DEF OutOfPool

\* What follows the removal does not put the driver back.
LEMMA ReportGoesOnPool ==
    ASSUME PoolInv, \/ AddToPool \/ StartorderReal
                    \/ SetDtempLocation \/ SetPtempLocation
    PROVE  OutOfPool'
<1>1. UNCHANGED req
  BY DEF AddToPool, StartorderReal, SetDtempLocation, SetPtempLocation, Proceed
<1>2. CASE AddToPool \/ SetPtempLocation
  <2>1. ~OnTheWay(req)
    BY <1>2 DEF PoolInv, OutOfPool, AddToPool, SetPtempLocation
  <2> QED  BY <1>1, <2>1 DEF OutOfPool, OnTheWay
<1>3. CASE StartorderReal \/ SetDtempLocation
  <2>1. UNCHANGED geo /\ pc' \in {"set_dtemp", "reply"}
        /\ pc \in {"start_real", "set_dtemp"}
    BY <1>3 DEF StartorderReal, SetDtempLocation, SetHash, Proceed
  <2> QED  BY <1>1, <2>1 DEF PoolInv, OutOfPool, OnTheWay
<1> QED  BY <1>2, <1>3

LEMMA PoolStep ==
    ASSUME "rem_geo" \notin Flaky, KEY_ONLINE_DRIVERS_GEO_ZSET \notin Refused,
           PoolInv, [Next]_vars
    PROVE  PoolInv'
<1>1. TypeInv'  BY TypeStep DEF PoolInv
<1>2. CASE ClientRequest  BY <1>1, <1>2, RequestPool DEF PoolInv
<1>3. CASE ServerStep
  <2>1. CASE Reply
    BY <1>1, <2>1 DEF Reply, NoReq, PoolInv, OutOfPool, OnTheWay
  <2>2. CASE ~Reply
    BY <1>1, <1>3, <2>2, OtherHandlerPool, ReportBeginsPool, RemGeoPool,
       ReportGoesOnPool DEF ServerStep, PoolInv
  <2> QED  BY <2>1, <2>2
<1>4. CASE SessionExpires
  <2>1. UNCHANGED <<geo, pc, req>>
    BY <1>4 DEF SessionExpires, Expire, Remove, webVars
  <2> QED  BY <1>1, <2>1 DEF PoolInv, OutOfPool, OnTheWay
<1>5. CASE Restart
  BY <1>1, <1>5 DEF Restart, NoReq, PoolInv, OutOfPool, OnTheWay
<1>6. CASE UNCHANGED vars
  BY <1>1, <1>6 DEF vars, PoolInv, OutOfPool, OnTheWay
<1> QED  BY <1>2, <1>3, <1>4, <1>5, <1>6 DEF Next

\* After the ok to a report from the way the driver is not in the pool, also when
\* a report of a moment before put it there, as long as the removal itself neither
\* fails nor is refused by Redis: the branch drops its result, and the data server
\* that of Redis (location_changed.c:109-129, deal_cache.c:284-286).
THEOREM BusyDriversAreNotOffered ==
    ASSUME "rem_geo" \notin Flaky, KEY_ONLINE_DRIVERS_GEO_ZSET \notin Refused
    PROVE  Spec => []BusyIsNotPooled
<1>1. Init => PoolInv
  BY TypeInit DEF Init, NoReq, PoolInv, OutOfPool, OnTheWay
<1>2. PoolInv /\ [Next]_vars => PoolInv'  BY PoolStep
<1>3. PoolInv => BusyIsNotPooled
  BY DEF PoolInv, OutOfPool, OnTheWay, BusyIsNotPooled
<1> QED  BY <1>1, <1>2, <1>3, PTL DEF Spec
=============================================================================
