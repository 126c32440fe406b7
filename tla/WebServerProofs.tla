--------------------------- MODULE WebServerProofs ---------------------------
(***************************************************************************)
(* The life of an order, for every value of the constants of WebServer:    *)
(* what an order's sessions hold, what "ok" means, and when an order may   *)
(* leave the cache.  The inductive invariant ties the locals of a running  *)
(* handler to what Redis and MySQL hold at that point of its chain.        *)
(***************************************************************************)
EXTENDS SessionProofs

\* The keys nobody has created an order under are free in both databases.
UnusedOrders ==
    \A o \in OrderId \ orders : hash[o] = Blank /\ orderTable[o] = NoRow

\* No session holds an order that was not created.
HeldAreCreated ==
    \A s \in SessionId, o \in OrderId : hash[s].orderid = o => o \in orders

\* What holds of the data between any two calls.
DataInv ==
    /\ NoDanglingOrder
    /\ HeldAreCreated
    /\ UnusedOrders
    /\ told \subseteq orders

\* set_order_cb: the locals are the sessions of the order, the driver's first,
\* as far as Redis has not refused to write them.
Assigning ==
    /\ pc \in AssignSteps => req.passenger \in PassengerSid
    /\ pc \in AssignSteps \ {"radius"} => req.driver \in DriverSid
    /\ pc \in {"driver_orderid", "passenger_orderid"} =>
          /\ req.oid \in OrderId \cap orders
          /\ req.oid \in SafeOrder =>
                /\ hash[req.oid].driver_sessionid = req.driver
                /\ hash[req.oid].passenger_sessionid = req.passenger
    /\ pc = "passenger_orderid" /\ req.driver \in SafeSession =>
          hash[req.driver].orderid \in {req.oid, Empty}

\* An order a report of the session s may name: it was created, and it is there.
Nameable(s, o) ==
    /\ o \in orders
    /\ s \in SafeSession /\ o \in SafeOrder => Exists(o)

\* locationChanged_cb: its order was read from its session.
Reporting ==
    req.op = "locationChanged" /\ req.oid \in OrderId => Nameable(req.sid, req.oid)

\* finish_order_cb: the order was created and the locals are its sessions; it
\* is in MySQL before they are released, the driver's first.
Finishing ==
    req.op = "finishOrder" /\ req.oid \in OrderId =>
        /\ req.oid \in orders
        /\ pc \in FinishSteps \ {"get_order"} =>
              /\ hash[req.oid].driver_sessionid = req.driver
              /\ hash[req.oid].passenger_sessionid = req.passenger
        /\ pc \in {"d_none", "p_none", "delete"} => orderTable[req.oid] # NoRow
        /\ pc \in {"p_none", "delete"} /\ req.oid \in SafeOrder =>
              \A s \in DriverSid \cap SafeSession : hash[s].orderid # req.oid
        /\ pc = "delete" /\ req.oid \in SafeOrder =>
              \A s \in PassengerSid \cap SafeSession : hash[s].orderid # req.oid

\* What holds of the running handler.
HandlerInv == Assigning /\ Reporting /\ Finishing /\ FinishedIsDone /\ OrderedIsAssigned

OrderInv == TypeInv /\ DataInv /\ HandlerInv

-----------------------------------------------------------------------------
(* Facts used in several places *)

\* An order some session holds was created, and is in the cache unless Redis
\* refused a write.
LEMMA HeldOrderKnown ==
    ASSUME DataInv, NEW s \in SessionId, NEW o \in OrderId, hash[s].orderid = o
    PROVE  Nameable(s, o)
<1>1. o \in orders  BY DEF DataInv, HeldAreCreated
<1>2. ASSUME s \in SafeSession, o \in SafeOrder  PROVE Exists(o)
  <2>1. s \in Parties(o)  BY <1>2 DEF DataInv, NoDanglingOrder
  <2>2. s # Empty  BY Identifiers
  <2> QED  BY <2>1, <2>2 DEF Parties, Exists, Blank
<1> QED  BY <1>1, <1>2 DEF Nameable

\* Of a hash one field is written, or it is left as it was, and an "ok" says which
\* unless Redis may refuse the write.
LEMMA WriteField ==
    ASSUME TypeInv, NEW k \in Key, NEW full \in Hash, NEW ok,
           \E v : full \in { [hash[k] EXCEPT !.orderid = v],
                             [hash[k] EXCEPT !.order_status = v],
                             [hash[k] EXCEPT !.position = v] },
           SetHash(k, {}, full, ok)
    PROVE  \E h \in {hash[k], full} :
              /\ hash' = [hash EXCEPT ![k] = h]
              /\ ok /\ k \notin Refused => h = full
<1>1. hash[k] \in Hash  BY DEF TypeInv, TypeOK, DataTypeOK
<1>2. ASSUME NEW h \in Mixed(hash[k], full)  PROVE h \in {hash[k], full}
  BY <1>1 DEF Mixed, Hash
<1> QED  BY <1>2 DEF SetHash

\* The four kinds of key do not overlap.
LEMMA KeysDiffer ==
    /\ \A s \in SessionId, o \in OrderId : s # o
    /\ None \notin SessionId /\ Empty \notin SessionId
    /\ None \notin OrderId /\ Empty \notin OrderId
    /\ \A p \in PassengerSid, d \in DriverSid : p # d
    /\ DriverSid \subseteq SessionId /\ PassengerSid \subseteq SessionId
BY Identifiers DEF SessionId, None, Empty

\* A step that writes no order, gives no order to a session and tells nobody
\* of one: a session it writes keeps its order or has none.
Harmless ==
    /\ \A o \in OrderId : hash'[o] = hash[o]
    /\ \A s \in SessionId : hash'[s].orderid \in {hash[s].orderid, None, Empty}
    /\ UNCHANGED <<orderTable, orders, told>>

LEMMA HarmlessData ==
    ASSUME OrderInv, Harmless  PROVE DataInv'
<1>1. NoDanglingOrder'
  <2> SUFFICES ASSUME NEW s \in SafeSession, NEW o \in SafeOrder, hash'[s].orderid = o
               PROVE  s \in Parties(o)'
    BY DEF NoDanglingOrder
  <2>1. hash[s].orderid = o /\ s \in SessionId /\ o \in OrderId
    BY KeysDiffer DEF Harmless, SafeSession, SafeOrder
  <2> QED  BY <2>1 DEF OrderInv, DataInv, NoDanglingOrder, Parties, Harmless
<1>2. UnusedOrders'  BY DEF OrderInv, DataInv, UnusedOrders, Harmless
<1>3. HeldAreCreated'
  BY KeysDiffer DEF OrderInv, DataInv, HeldAreCreated, Harmless
<1> QED  BY <1>1, <1>2, <1>3 DEF OrderInv, DataInv, Harmless

\* Writes to a session that do not give it an order, and its removal.
LEMMA SetSessionHarmless ==
    ASSUME OrderInv, NEW k \in SessionId \cup {Empty}, NEW partial, NEW full,
           NEW ok, SetHash(k, partial, full, ok), UNCHANGED <<orders, told>>,
           \A h \in partial \cup {full} : h.orderid \in {hash[k].orderid, None, Empty}
    PROVE  Harmless
<1>1. PICK h : /\ hash' = [hash EXCEPT ![k] = h]
               /\ h.orderid \in {hash[k].orderid, None, Empty}
  <2>1. \A h \in Mixed(hash[k], full) : h.orderid \in {hash[k].orderid, full.orderid}
    BY MixedFields
  <2> QED  BY <2>1 DEF SetHash
<1>2. hash \in [Key -> Hash]  BY DEF OrderInv, TypeInv, TypeOK, DataTypeOK
<1>3. \A o \in OrderId : o \in Key /\ o # k  BY KeysDiffer DEF Key, OrderKey
<1>4. \A s \in SessionId : s \in Key  BY DEF Key
<1> QED  BY <1>1, <1>2, <1>3, <1>4 DEF Harmless, SetHash

LEMMA RemoveSessionHarmless ==
    ASSUME OrderInv, NEW k \in SessionId, Remove(k), UNCHANGED <<orders, told>>
    PROVE  Harmless
<1>1. hash \in [Key -> Hash]  BY DEF OrderInv, TypeInv, TypeOK, DataTypeOK
<1>2. \A o \in OrderId : o \in Key /\ o # k  BY KeysDiffer DEF Key, OrderKey
<1>3. \A s \in SessionId : s \in Key  BY DEF Key
<1> QED  BY <1>1, <1>2, <1>3 DEF Harmless, Remove, Blank

LEMMA SetLifecycleHarmless ==
    ASSUME OrderInv, NEW k \in SessionId, NEW ok, SetLifecycle(k, ok),
           UNCHANGED <<orders, told>>
    PROVE  Harmless
<1>1. CASE Remove(k)  BY <1>1, RemoveSessionHarmless
<1>2. CASE ~Remove(k)  BY <1>2 DEF SetLifecycle, Harmless, dataVars
<1> QED  BY <1>1, <1>2

LEMMA SameDataHarmless ==
    ASSUME UNCHANGED dataVars, UNCHANGED <<orders, told>>  PROVE Harmless
BY DEF dataVars, Harmless

\* A handler that is idle, logs somebody in, or has no order and owes no "ok".
LEMMA NothingOwed ==
    ASSUME pc' \notin AssignSteps,
           req'.oid \notin OrderId \/ req'.op \in {"login", "reg"},
           ~(pc' = "reply" /\ req'.op = "setOrder" /\ req'.ok)
    PROVE  HandlerInv'
BY DEF HandlerInv, Assigning, Reporting, Finishing, FinishedIsDone,
       OrderedIsAssigned, AssignSteps

\* A call that failed sends the handler to its reply.
LEMMA FailedHandler ==
    ASSUME NEW r \in Request, NEW ok \in BOOLEAN, NEW next \in Steps,
           Advance(r, ok, next), ~ok
    PROVE  HandlerInv'
<1>1. pc' = "reply" /\ ~req'.ok /\ req'.oid = Empty  BY AdvanceType
<1>2. pc' \notin AssignSteps  BY <1>1 DEF AssignSteps
<1> QED  BY <1>1, <1>2, KeysDiffer, NothingOwed

\* The handler of a position report that knows its order, if it has one.
LEMMA ReportHandler ==
    ASSUME req'.op = "locationChanged", pc' \notin AssignSteps,
           req'.oid \in OrderId => Nameable(req.sid, req.oid)'
    PROVE  HandlerInv'
BY DEF HandlerInv, Assigning, Reporting, Finishing, FinishedIsDone,
       OrderedIsAssigned, AssignSteps

-----------------------------------------------------------------------------
(* login_cb and reg_cb *)

LEMMA AuthRequestOrder ==
    ASSUME OrderInv, NEW op \in {"login", "reg"}, AuthRequest(op)
    PROVE  DataInv' /\ HandlerInv'
<1>1. DataInv'
  BY SameDataHarmless, HarmlessData DEF AuthRequest, history
<1>2. pc' = op /\ req'.op = op  BY DEF AuthRequest, NoReq
<1>3. pc' \notin AssignSteps /\ pc' # "reply"  BY <1>2 DEF AssignSteps
<1> QED  BY <1>1, <1>2, <1>3, NothingOwed

\* The handler after a call of login_cb or reg_cb.
LEMMA AuthHandler ==
    ASSUME NEW r \in Request, NEW ok \in BOOLEAN,
           NEW next \in {"session", "lifecycle", "reply"},
           Advance(r, ok, next), r.op \in {"login", "reg"}
    PROVE  HandlerInv'
<1>1. next \in Steps /\ next \notin AssignSteps  BY DEF Steps, AssignSteps
<1>2. CASE ok
  <2>1. pc' = next /\ req' = r  BY <1>1, <1>2, AdvanceType
  <2> QED  BY <1>1, <2>1, NothingOwed
<1>3. CASE ~ok  BY <1>1, <1>3, FailedHandler
<1> QED  BY <1>2, <1>3

LEMMA DataserverLoginOrder ==
    ASSUME OrderInv, DataserverLogin  PROVE DataInv' /\ HandlerInv'
<1>1. PICK ok \in Results(userTable[req.user] = req.isDriver) :
          /\ QueryUser(req.user, req.isDriver, ok)
          /\ Advance(req, ok, "session")
  BY DEF DataserverLogin
<1>2. ok \in BOOLEAN  BY ResultsAreBoolean
<1>3. req \in Request /\ req.op \in {"login", "reg"}
  BY DEF DataserverLogin, OrderInv, TypeInv, TypeOK, WebTypeOK, LocalsFor, AuthSteps
<1>4. DataInv'
  BY <1>1, SameDataHarmless, HarmlessData DEF QueryUser, DataserverLogin, history
<1> QED  BY <1>1, <1>2, <1>3, <1>4, AuthHandler

LEMMA DataserverRegOrder ==
    ASSUME OrderInv, DataserverReg  PROVE DataInv' /\ HandlerInv'
<1>1. PICK ok \in Results(userTable[req.user] = Empty) :
          /\ InsertUser(req.user, req.isDriver, ok)
          /\ Advance(req, ok, "session")
  BY DEF DataserverReg
<1>2. ok \in BOOLEAN  BY ResultsAreBoolean
<1>3. req \in Request /\ req.op \in {"login", "reg"}
  BY DEF DataserverReg, OrderInv, TypeInv, TypeOK, WebTypeOK, LocalsFor, AuthSteps
<1>4. Harmless
  BY <1>1 DEF InsertUser, dataVars, Harmless, DataserverReg, history
<1> QED  BY <1>1, <1>2, <1>3, <1>4, HarmlessData, AuthHandler

LEMMA CacheserverSessionOrder ==
    ASSUME OrderInv, CacheserverSession  PROVE DataInv' /\ HandlerInv'
<1> DEFINE partial(s) == {[hash[s] EXCEPT !.username = req.user]}
           full(s)    == [hash[s] EXCEPT !.username = req.user, !.orderid = None]
<1>1. PICK s \in FreshSid(req.isDriver), ok \in Results(TRUE) :
          /\ SetHash(s, partial(s), full(s), ok)
          /\ Advance([req EXCEPT !.sid = s], ok, "lifecycle")
  BY DEF CacheserverSession
<1>2. ok \in BOOLEAN  BY ResultsAreBoolean
<1>3. s \in SessionId /\ s \in Key  BY DEF FreshSid, SidOf, SessionId, Key
<1>4. req \in Request /\ req.op \in {"login", "reg"}
  BY DEF CacheserverSession, OrderInv, TypeInv, TypeOK, WebTypeOK, LocalsFor, AuthSteps
<1>5. hash[s] \in Hash  BY <1>3 DEF OrderInv, TypeInv, TypeOK, DataTypeOK
<1>6. \A h \in partial(s) \cup {full(s)} : h.orderid \in {hash[s].orderid, None, Empty}
  BY <1>5 DEF Hash
<1>7. Harmless
  <2> HIDE DEF partial, full
  <2> QED  BY <1>1, <1>3, <1>6, SetSessionHarmless DEF CacheserverSession
<1>8. [req EXCEPT !.sid = s] \in Request /\ [req EXCEPT !.sid = s].op \in {"login", "reg"}
  BY <1>3, <1>4 DEF Request
<1> QED  BY <1>1, <1>2, <1>7, <1>8, HarmlessData, AuthHandler

LEMMA CacheserverLifecycleOrder ==
    ASSUME OrderInv, CacheserverLifecycle  PROVE DataInv' /\ HandlerInv'
<1>1. PICK ok \in Results(Exists(req.sid)) :
          SetLifecycle(req.sid, ok) /\ Advance(req, ok, "reply")
  BY DEF CacheserverLifecycle
<1>2. ok \in BOOLEAN  BY ResultsAreBoolean DEF Exists
<1>3. req \in Request /\ req.op \in {"login", "reg"} /\ req.sid \in SessionId
  BY DEF CacheserverLifecycle, OrderInv, TypeInv, TypeOK, WebTypeOK, LocalsFor, AuthSteps
<1>4. Harmless
  BY <1>1, <1>3, SetLifecycleHarmless DEF CacheserverLifecycle, history
<1> QED  BY <1>1, <1>2, <1>3, <1>4, HarmlessData, AuthHandler

-----------------------------------------------------------------------------
(* locationChanged_cb *)

LEMMA LocationRequestOrder ==
    ASSUME OrderInv, LocationRequest  PROVE DataInv' /\ HandlerInv'
<1>1. DataInv'
  BY SameDataHarmless, HarmlessData DEF LocationRequest, history
<1>2. pc' = "exist" /\ req'.oid = Empty  BY DEF LocationRequest, NoReq
<1> QED  BY <1>1, <1>2, KeysDiffer, NothingOwed DEF AssignSteps

\* The handler after a call of locationChanged_cb that writes no order.
LEMMA ReportGoesOn ==
    ASSUME OrderInv, NEW r \in Request, NEW ok \in BOOLEAN,
           NEW next \in ReportSteps \cup {"reply"},
           Advance(r, ok, next), r.op = "locationChanged", Harmless,
           r.oid \in OrderId => Nameable(r.sid, r.oid)
    PROVE  HandlerInv'
<1>1. next \in Steps /\ next \notin AssignSteps
  BY DEF Steps, AssignSteps, ReportSteps
<1>2. CASE ok
  <2>1. pc' = next /\ req' = r  BY <1>1, <1>2, AdvanceType
  <2>2. req'.oid \in OrderId => Nameable(req.sid, req.oid)'
    BY <2>1 DEF Harmless, Nameable, Exists
  <2> QED  BY <1>1, <2>1, <2>2, ReportHandler
<1>3. CASE ~ok  BY <1>1, <1>3, FailedHandler
<1> QED  BY <1>2, <1>3

LEMMA ExistSessionidOrder ==
    ASSUME OrderInv, TypeInv', ExistSessionid  PROVE DataInv' /\ HandlerInv'
<1> DEFINE r(ok) == [req EXCEPT !.recode = IF ok THEN "0" ELSE "2"]
<1>1. PICK ok \in Results(Exists(req.sid)) :
          ExistKey(req.sid, ok) /\ Advance(r(ok), ok, "touch")
  BY DEF ExistSessionid
<1>2. ok \in BOOLEAN  BY ResultsAreBoolean DEF Exists
<1>3. Harmless
  BY <1>1, SameDataHarmless DEF ExistSessionid, ExistKey, history
<1>4. req \in Request /\ req.op = "locationChanged"
  BY DEF ExistSessionid, OrderInv, TypeInv, TypeOK, WebTypeOK, LocalsFor, ReportSteps
<1>5. /\ r(ok) \in Request /\ r(ok).op = "locationChanged"
      /\ r(ok).oid = req.oid /\ r(ok).sid = req.sid
  <2>1. ASSUME NEW c \in {"0", "2", "3"}
        PROVE  LET q == [req EXCEPT !.recode = c]
               IN  /\ q \in Request /\ q.op = "locationChanged"
                   /\ q.oid = req.oid /\ q.sid = req.sid
    BY <1>4 DEF Request
  <2> QED  BY <2>1
<1>6. req.oid \in OrderId => Nameable(req.sid, req.oid)
  BY <1>4 DEF OrderInv, HandlerInv, Reporting
<1> HIDE DEF r
<1> QED  BY <1>1, <1>2, <1>3, <1>5, <1>6, HarmlessData, ReportGoesOn DEF ReportSteps

LEMMA TouchSessionOrder ==
    ASSUME OrderInv, TouchSession  PROVE DataInv' /\ HandlerInv'
<1>1. PICK ok \in Results(Exists(req.sid)) :
          SetLifecycle(req.sid, ok) /\ Advance(req, ok, "get_orderid")
  BY DEF TouchSession
<1>2. ok \in BOOLEAN  BY ResultsAreBoolean DEF Exists
<1>3. req \in Request /\ req.op = "locationChanged" /\ req.sid \in SessionId
  BY DEF TouchSession, OrderInv, TypeInv, TypeOK, WebTypeOK, LocalsFor, ReportSteps
<1>4. Harmless  BY <1>1, <1>3, SetLifecycleHarmless DEF TouchSession, history
<1>5. req.oid \in OrderId => Nameable(req.sid, req.oid)
  BY <1>3 DEF OrderInv, HandlerInv, Reporting
<1> QED
  BY <1>1, <1>2, <1>3, <1>4, <1>5, HarmlessData, ReportGoesOn DEF ReportSteps

LEMMA GetOrderidOrder ==
    ASSUME OrderInv, GetOrderid  PROVE DataInv' /\ HandlerInv'
<1> DEFINE o(ok) == IF ok THEN hash[req.sid].orderid ELSE Empty
           next  == IF req.isDriver = "yes" THEN DriverBranch(req.status)
                                            ELSE PassengerBranch(req.status)
           r(ok) == [req EXCEPT !.oid = o(ok)]
<1>1. PICK ok \in Results(TRUE) : Advance(r(ok), ok, next)
  BY DEF GetOrderid
<1>2. ok \in BOOLEAN  BY ResultsAreBoolean
<1>3. Harmless  BY SameDataHarmless DEF GetOrderid, history
<1>4. req \in Request /\ req.op = "locationChanged" /\ req.sid \in SessionId
  BY DEF GetOrderid, OrderInv, TypeInv, TypeOK, WebTypeOK, LocalsFor, ReportSteps
<1>5. o(ok) \in OrderKey
  <2>1. hash[req.sid].orderid \in OrderKey
    BY <1>4 DEF OrderInv, TypeInv, TypeOK, DataTypeOK, Hash, Key
  <2> QED  BY <2>1 DEF OrderKey
<1>6. /\ r(ok) \in Request /\ r(ok).op = "locationChanged"
      /\ r(ok).oid = o(ok) /\ r(ok).sid = req.sid
  <2> HIDE DEF o
  <2> QED  BY <1>4, <1>5 DEF Request
<1>7. next \in ReportSteps \cup {"reply"}
  BY DEF DriverBranch, PassengerBranch, ReportSteps
<1>8. o(ok) \in OrderId => Nameable(req.sid, o(ok))
  BY <1>4, KeysDiffer, HeldOrderKnown DEF OrderInv
<1> HIDE DEF next, o, r
<1> QED
  BY <1>1, <1>2, <1>3, <1>6, <1>7, <1>8, HarmlessData, ReportGoesOn

LEMMA PoolOrder ==
    ASSUME OrderInv, RemGeo \/ AddToPool  PROVE DataInv' /\ HandlerInv'
<1>1. Harmless
  BY DEF RemGeo, AddToPool, RemZset, AddGeo, Harmless, history
<1>2. req.op = "locationChanged" /\ req \in Request
  BY DEF RemGeo, AddToPool, OrderInv, TypeInv, TypeOK, WebTypeOK, LocalsFor, ReportSteps
<1>3. req'.op = req.op /\ req'.oid = req.oid /\ req'.sid = req.sid
  BY <1>2 DEF RemGeo, AddToPool, Proceed, Request
<1>4. pc' \notin AssignSteps
  BY DEF RemGeo, AddToPool, Proceed, AfterRemGeo, AssignSteps
<1>5. req'.oid \in OrderId => Nameable(req.sid, req.oid)'
  BY <1>1, <1>2, <1>3 DEF OrderInv, HandlerInv, Reporting, Harmless, Nameable, Exists
<1> QED  BY <1>1, <1>2, <1>3, <1>4, <1>5, HarmlessData, ReportHandler

\* A report that writes into its order leaves the order its sessions.
LEMMA WriteReportOrder ==
    ASSUME OrderInv, req.op = "locationChanged", NEW full \in Hash, NEW ok,
           \E v : full \in { [hash[req.oid] EXCEPT !.order_status = v],
                             [hash[req.oid] EXCEPT !.position = v] },
           SetHash(req.oid, {}, full, ok), full # Blank,
           full.passenger_sessionid = hash[req.oid].passenger_sessionid,
           full.driver_sessionid = hash[req.oid].driver_sessionid,
           UNCHANGED req, pc' \notin AssignSteps, UNCHANGED history
    PROVE  DataInv' /\ HandlerInv'
<1>2. hash \in [Key -> Hash] /\ req.oid \in OrderKey
  BY DEF OrderInv, TypeInv, TypeOK, DataTypeOK, WebTypeOK, Request
<1>1. PICK h \in {full, hash[req.oid]} : hash' = [hash EXCEPT ![req.oid] = h]
  BY <1>2, WriteField DEF OrderInv, Key
<1>3. \A s \in SessionId : s \in Key /\ s # req.oid
  BY <1>2, KeysDiffer DEF Key, OrderKey
<1>4. \A o \in OrderId : o \in Key  BY DEF Key, OrderKey
<1>5. req.oid \in OrderId => Nameable(req.sid, req.oid) /\ Nameable(req.sid, req.oid)'
  BY <1>1, <1>2, <1>4 DEF OrderInv, HandlerInv, Reporting, Nameable, Exists, history
<1>6. NoDanglingOrder'
  <2>1. \A s \in SessionId : hash'[s] = hash[s]  BY <1>1, <1>2, <1>3
  <2>2. \A o \in OrderId : Parties(o)' = Parties(o)
    BY <1>1, <1>2, <1>4 DEF Parties
  <2> QED  BY <2>1, <2>2 DEF OrderInv, DataInv, NoDanglingOrder, SafeSession, SafeOrder
<1>7. UnusedOrders' /\ HeldAreCreated'
  BY <1>1, <1>2, <1>3, <1>4, <1>5
     DEF OrderInv, DataInv, UnusedOrders, HeldAreCreated, Nameable, SetHash, history
<1>8. DataInv'  BY <1>6, <1>7 DEF OrderInv, DataInv, history
<1> QED  BY <1>5, <1>8, ReportHandler

LEMMA StartorderRealOrder ==
    ASSUME OrderInv, StartorderReal  PROVE DataInv' /\ HandlerInv'
<1> DEFINE full == [hash[req.oid] EXCEPT !.order_status = "ACTIVE"]
<1>1. PICK ok \in Results(TRUE) : SetHash(req.oid, {}, full, ok)
  BY DEF StartorderReal
<1>2. hash[req.oid] \in Hash /\ req.op = "locationChanged"
  BY DEF StartorderReal, OrderInv, TypeInv, TypeOK, DataTypeOK, WebTypeOK, LocalsFor,
         ReportSteps, Request, Key
<1>3. /\ full \in Hash /\ full # Blank
      /\ full.passenger_sessionid = hash[req.oid].passenger_sessionid
      /\ full.driver_sessionid = hash[req.oid].driver_sessionid
  BY <1>2 DEF Hash, Blank, Empty
<1>4. UNCHANGED req /\ pc' \notin AssignSteps /\ UNCHANGED history
  BY DEF StartorderReal, Proceed, AssignSteps
<1>5. \E v : full \in { [hash[req.oid] EXCEPT !.order_status = v],
                        [hash[req.oid] EXCEPT !.position = v] }
  OBVIOUS
<1> HIDE DEF full
<1> QED  BY <1>1, <1>2, <1>3, <1>4, <1>5, WriteReportOrder

LEMMA SetDtempLocationOrder ==
    ASSUME OrderInv, SetDtempLocation  PROVE DataInv' /\ HandlerInv'
<1> DEFINE full == [hash[req.oid] EXCEPT !.position = "point"]
<1>1. PICK ok \in Results(TRUE) : SetHash(req.oid, {}, full, ok)
  BY DEF SetDtempLocation
<1>2. hash[req.oid] \in Hash /\ req.op = "locationChanged"
  BY DEF SetDtempLocation, OrderInv, TypeInv, TypeOK, DataTypeOK, WebTypeOK, LocalsFor,
         ReportSteps, Request, Key
<1>3. /\ full \in Hash /\ full # Blank
      /\ full.passenger_sessionid = hash[req.oid].passenger_sessionid
      /\ full.driver_sessionid = hash[req.oid].driver_sessionid
  BY <1>2 DEF Hash, Blank, Empty
<1>4. UNCHANGED req /\ pc' \notin AssignSteps /\ UNCHANGED history
  BY DEF SetDtempLocation, Proceed, AssignSteps
<1>5. \E v : full \in { [hash[req.oid] EXCEPT !.order_status = v],
                        [hash[req.oid] EXCEPT !.position = v] }
  OBVIOUS
<1> HIDE DEF full
<1> QED  BY <1>1, <1>2, <1>3, <1>4, <1>5, WriteReportOrder

LEMMA SetPtempLocationOrder ==
    ASSUME OrderInv, SetPtempLocation  PROVE DataInv' /\ HandlerInv'
<1> DEFINE full == [hash[req.oid] EXCEPT !.position = "point"]
<1>1. PICK ok \in Results(TRUE) : SetHash(req.oid, {}, full, ok)
  BY DEF SetPtempLocation
<1>2. hash[req.oid] \in Hash /\ req.op = "locationChanged"
  BY DEF SetPtempLocation, OrderInv, TypeInv, TypeOK, DataTypeOK, WebTypeOK, LocalsFor,
         ReportSteps, Request, Key
<1>3. /\ full \in Hash /\ full # Blank
      /\ full.passenger_sessionid = hash[req.oid].passenger_sessionid
      /\ full.driver_sessionid = hash[req.oid].driver_sessionid
  BY <1>2 DEF Hash, Blank, Empty
<1>4. UNCHANGED req /\ pc' \notin AssignSteps /\ UNCHANGED history
  BY DEF SetPtempLocation, Proceed, AssignSteps
<1>5. \E v : full \in { [hash[req.oid] EXCEPT !.order_status = v],
                        [hash[req.oid] EXCEPT !.position = v] }
  OBVIOUS
<1> HIDE DEF full
<1> QED  BY <1>1, <1>2, <1>3, <1>4, <1>5, WriteReportOrder

-----------------------------------------------------------------------------
(* set_order_cb *)

LEMMA OrderRequestOrder ==
    ASSUME OrderInv, OrderRequest  PROVE DataInv' /\ HandlerInv'
<1>1. DataInv'
  BY SameDataHarmless, HarmlessData DEF OrderRequest, history
<1>2. /\ pc' = "radius" /\ req'.op = "setOrder"
      /\ req'.passenger \in PassengerSid /\ req'.oid = Empty
  BY DEF OrderRequest, NoReq
<1>3. HandlerInv'
  BY <1>2 DEF HandlerInv, Assigning, Reporting, Finishing, FinishedIsDone,
              OrderedIsAssigned
<1> QED  BY <1>1, <1>3

LEMMA CacheserverRadiusGeoOrder ==
    ASSUME OrderInv, CacheserverRadiusGeo  PROVE DataInv' /\ HandlerInv'
<1> DEFINE r(d, ok) == [req EXCEPT !.driver = d,
                                   !.recode = IF ok /\ d = Empty THEN "3" ELSE "0"]
<1>1. PICK d \in DriverSid \cup {Empty}, ok \in Results(TRUE) :
          RadiusGeo(d, ok) /\ Advance(r(d, ok), ok /\ d # Empty, "create_order")
  BY DEF CacheserverRadiusGeo
<1>2. DataInv'
  BY <1>1, SameDataHarmless, HarmlessData DEF RadiusGeo, CacheserverRadiusGeo, history
<1>3. req \in Request /\ req.op = "setOrder" /\ req.passenger \in PassengerSid
  BY DEF CacheserverRadiusGeo, OrderInv, TypeInv, TypeOK, WebTypeOK, LocalsFor,
         HandlerInv, Assigning, AssignSteps
<1>4. /\ r(d, ok) \in Request /\ r(d, ok).op = "setOrder"
      /\ r(d, ok).passenger = req.passenger /\ r(d, ok).driver = d
  <2>1. PICK c \in {"0", "2", "3"} : c = IF ok /\ d = Empty THEN "3" ELSE "0"  OBVIOUS
  <2>2. PICK q \in Request : q = [req EXCEPT !.driver = d]  BY <1>3, RequestFields
  <2>3. [q EXCEPT !.recode = c] \in Request  BY RequestFields
  <2>4. /\ q.op = "setOrder" /\ q.passenger = req.passenger /\ q.driver = d
    BY <1>3, <2>2 DEF Request
  <2>5. r(d, ok) = [q EXCEPT !.recode = c]  BY <2>1, <2>2
  <2> QED  BY <2>3, <2>4, <2>5 DEF Request
<1>5. "create_order" \in Steps  BY DEF Steps
<1> HIDE DEF r
<1>6. CASE ok /\ d # Empty
  <2>1. pc' = "create_order" /\ req' = r(d, ok)
    BY <1>1, <1>4, <1>5, <1>6, AdvanceType
  <2> QED
    BY <1>2, <1>3, <1>4, <1>6, <2>1
       DEF HandlerInv, Assigning, Reporting, Finishing, FinishedIsDone, OrderedIsAssigned
<1>7. CASE ~(ok /\ d # Empty)  BY <1>1, <1>2, <1>4, <1>5, <1>7, FailedHandler
<1> QED  BY <1>6, <1>7

LEMMA CacheserverCreateOrderOrder ==
    ASSUME OrderInv, CacheserverCreateOrder  PROVE DataInv' /\ HandlerInv'
<1> DEFINE init(o)   == [hash[o] EXCEPT !.order_status = "INIT"]
           withP(o)  == [init(o) EXCEPT !.passenger_sessionid = req.passenger]
           withPD(o) == [withP(o) EXCEPT !.driver_sessionid = req.driver]
<1>1. PICK o \in OrderId \ orders, ok \in Results(TRUE) :
          /\ SetHash(o, {init(o), withP(o)}, withPD(o), ok)
          /\ orders' = orders \cup {o}
          /\ Advance([req EXCEPT !.oid = o], ok, "driver_orderid")
  BY DEF CacheserverCreateOrder
<1>2. ok \in BOOLEAN  BY ResultsAreBoolean
<1>3. /\ req \in Request /\ req.op = "setOrder"
      /\ req.passenger \in PassengerSid /\ req.driver \in DriverSid
  BY DEF CacheserverCreateOrder, OrderInv, TypeInv, TypeOK, WebTypeOK, LocalsFor,
         HandlerInv, Assigning, AssignSteps
<1>4. hash \in [Key -> Hash] /\ OrderId \subseteq Key /\ SessionId \subseteq Key
  BY DEF OrderInv, TypeInv, TypeOK, DataTypeOK, Key, OrderKey
<1>5. PICK h : hash' = [hash EXCEPT ![o] = h] /\ (ok /\ o \notin Refused => h = withPD(o))
  BY <1>1 DEF SetHash
<1>6. NoDanglingOrder' /\ HeldAreCreated'
  <2>1. \A s \in SessionId : hash'[s] = hash[s]  BY <1>4, <1>5, KeysDiffer
  <2>2. \A q \in OrderId : q # o => Parties(q)' = Parties(q)
    BY <1>4, <1>5 DEF Parties
  <2>3. \A s \in SessionId : hash[s].orderid # o
    BY <1>1 DEF OrderInv, DataInv, HeldAreCreated
  <2>4. NoDanglingOrder'
    BY <2>1, <2>2, <2>3 DEF OrderInv, DataInv, NoDanglingOrder, SafeSession, SafeOrder
  <2> QED  BY <1>1, <2>1, <2>4 DEF OrderInv, DataInv, HeldAreCreated
<1>7. UnusedOrders'
  BY <1>1, <1>4, <1>5 DEF SetHash, OrderInv, DataInv, UnusedOrders
<1>8. DataInv'
  BY <1>1, <1>6, <1>7 DEF OrderInv, DataInv, CacheserverCreateOrder
<1>9. "driver_orderid" \in Steps /\ [req EXCEPT !.oid = o] \in Request
  BY <1>3 DEF Steps, Request, OrderKey
<1>10. CASE ok
  <2>1. pc' = "driver_orderid" /\ req' = [req EXCEPT !.oid = o]
    BY <1>1, <1>2, <1>9, <1>10, AdvanceType
  <2>2. /\ req'.oid = o /\ req'.driver = req.driver
        /\ req'.passenger = req.passenger /\ req'.op = "setOrder"
    BY <1>3, <2>1 DEF Request
  <2>3. o \in SafeOrder => /\ hash'[o].driver_sessionid = req.driver
                           /\ hash'[o].passenger_sessionid = req.passenger
    BY <1>4, <1>5, <1>10 DEF Hash, SafeOrder
  <2> QED
    BY <1>1, <1>3, <1>8, <2>1, <2>2, <2>3
       DEF HandlerInv, Assigning, Reporting, Finishing, FinishedIsDone, OrderedIsAssigned
<1>11. CASE ~ok  BY <1>1, <1>2, <1>8, <1>9, <1>11, FailedHandler
<1> QED  BY <1>10, <1>11

\* What the two calls that assign the order have in common: the session that
\* is written is one of the order's, so nobody gets somebody else's order.
LEMMA AssignOrder ==
    ASSUME OrderInv, pc \in {"driver_orderid", "passenger_orderid"},
           NEW k \in SessionId, req.oid \in SafeOrder => k \in Parties(req.oid), NEW ok,
           SetHash(k, {}, [hash[k] EXCEPT !.orderid = req.oid], ok),
           UNCHANGED history
    PROVE  /\ DataInv'
           /\ \A o \in OrderId : hash'[o] = hash[o]
           /\ \A s \in SessionId \ {k} : hash'[s] = hash[s]
           /\ ok /\ k \in SafeSession => hash'[k].orderid = req.oid
<1>1. hash \in [Key -> Hash] /\ OrderId \subseteq Key /\ SessionId \subseteq Key
  BY DEF OrderInv, TypeInv, TypeOK, DataTypeOK, Key, OrderKey
<1>2. req.oid \in OrderId \cap orders  BY DEF OrderInv, HandlerInv, Assigning
<1>3. hash[k] \in Hash /\ k \in Key  BY <1>1
<1>4. PICK h : /\ hash' = [hash EXCEPT ![k] = h]
               /\ h.orderid \in {hash[k].orderid, req.oid}
               /\ ok /\ k \in SafeSession => h.orderid = req.oid
  <2> DEFINE full == [hash[k] EXCEPT !.orderid = req.oid]
  <2>1. full \in Hash /\ full.orderid = req.oid  BY <1>2, <1>3 DEF Hash, OrderKey
  <2>2. \E v : full = [hash[k] EXCEPT !.orderid = v]  OBVIOUS
  <2>3. SetHash(k, {}, full, ok)  OBVIOUS
  <2> HIDE DEF full
  <2>4. PICK h : /\ hash' = [hash EXCEPT ![k] = h]
                 /\ h \in {hash[k], full}
                 /\ ok /\ k \notin Refused => h = full
    BY <1>3, <2>1, <2>2, <2>3, WriteField DEF OrderInv
  <2>5. /\ h.orderid \in {hash[k].orderid, req.oid}
        /\ ok /\ k \in SafeSession => h.orderid = req.oid
    BY <2>1, <2>4 DEF SafeSession
  <2> QED  BY <2>4, <2>5
<1>5. \A o \in OrderId : hash'[o] = hash[o]  BY <1>1, <1>4, KeysDiffer
<1>6. \A s \in SessionId \ {k} : hash'[s] = hash[s]  BY <1>1, <1>4
<1>7. hash'[k] = h  BY <1>1, <1>4, <1>3
<1>8. NoDanglingOrder'
  BY <1>4, <1>5, <1>6, <1>7
     DEF OrderInv, DataInv, NoDanglingOrder, Parties, SafeSession, SafeOrder
<1>9. UnusedOrders' /\ HeldAreCreated'
  BY <1>2, <1>4, <1>5, <1>6, <1>7
     DEF SetHash, OrderInv, DataInv, UnusedOrders, HeldAreCreated, history
<1> QED  BY <1>4, <1>5, <1>6, <1>7, <1>8, <1>9 DEF OrderInv, DataInv, history

LEMMA SetOrderidDriverOrder ==
    ASSUME OrderInv, SetOrderidDriver  PROVE DataInv' /\ HandlerInv'
<1>1. PICK ok \in Results(TRUE) :
          /\ SetHash(req.driver, {}, [hash[req.driver] EXCEPT !.orderid = req.oid], ok)
          /\ Advance(req, ok, "passenger_orderid")
  BY DEF SetOrderidDriver
<1>2. ok \in BOOLEAN /\ "passenger_orderid" \in Steps
  BY ResultsAreBoolean DEF Steps
<1>3. /\ req \in Request /\ req.op = "setOrder" /\ req.oid \in OrderId \cap orders
      /\ req.passenger \in PassengerSid /\ req.driver \in DriverSid
      /\ req.oid \in SafeOrder => /\ hash[req.oid].driver_sessionid = req.driver
                                 /\ hash[req.oid].passenger_sessionid = req.passenger
  BY DEF SetOrderidDriver, OrderInv, TypeInv, TypeOK, WebTypeOK, LocalsFor,
         HandlerInv, Assigning, AssignSteps
<1>4. /\ req.driver \in SessionId
      /\ req.oid \in SafeOrder => req.driver \in Parties(req.oid)
  BY <1>3 DEF Parties, SessionId
<1>5. /\ DataInv' /\ \A o \in OrderId : hash'[o] = hash[o]
      /\ orders' = orders
      /\ ok /\ req.driver \in SafeSession => hash'[req.driver].orderid = req.oid
  BY <1>1, <1>4, AssignOrder DEF SetOrderidDriver, history
<1>6. CASE ok
  <2>1. pc' = "passenger_orderid" /\ req' = req  BY <1>1, <1>2, <1>3, <1>6, AdvanceType
  <2> QED
    BY <1>3, <1>5, <1>6, <2>1
       DEF HandlerInv, Assigning, Reporting, Finishing, FinishedIsDone, OrderedIsAssigned
<1>7. CASE ~ok  BY <1>1, <1>2, <1>3, <1>5, <1>7, FailedHandler
<1> QED  BY <1>6, <1>7

LEMMA SetOrderidPassengerOrder ==
    ASSUME OrderInv, SetOrderidPassenger  PROVE DataInv' /\ HandlerInv'
<1>1. PICK ok \in Results(TRUE) :
          /\ SetHash(req.passenger, {},
                     [hash[req.passenger] EXCEPT !.orderid = req.oid], ok)
          /\ Advance(req, ok, "reply")
  BY DEF SetOrderidPassenger
<1>2. ok \in BOOLEAN /\ "reply" \in Steps  BY ResultsAreBoolean DEF Steps
<1>3. /\ req \in Request /\ req.op = "setOrder" /\ req.oid \in OrderId \cap orders
      /\ req.passenger \in PassengerSid /\ req.driver \in DriverSid
      /\ req.oid \in SafeOrder => /\ hash[req.oid].driver_sessionid = req.driver
                                 /\ hash[req.oid].passenger_sessionid = req.passenger
      /\ req.driver \in SafeSession => hash[req.driver].orderid \in {req.oid, Empty}
  BY DEF SetOrderidPassenger, OrderInv, TypeInv, TypeOK, WebTypeOK, LocalsFor,
         HandlerInv, Assigning, AssignSteps
<1>4. /\ req.passenger \in SessionId
      /\ req.oid \in SafeOrder => req.passenger \in Parties(req.oid)
  BY <1>3 DEF Parties, SessionId
<1>5. /\ DataInv' /\ \A o \in OrderId : hash'[o] = hash[o]
      /\ \A s \in SessionId \ {req.passenger} : hash'[s] = hash[s]
      /\ ok /\ req.passenger \in SafeSession => hash'[req.passenger].orderid = req.oid
  BY <1>1, <1>4, AssignOrder DEF SetOrderidPassenger
<1>6. CASE ok
  <2>1. pc' = "reply" /\ req' = req  BY <1>1, <1>2, <1>3, <1>6, AdvanceType
  <2>2. hash'[req.driver] = hash[req.driver]  BY <1>3, <1>5, KeysDiffer
  <2>3. req.oid \in SafeOrder => Parties(req.oid)' = {req.passenger, req.driver}
    BY <1>3, <1>5, <2>1 DEF Parties
  <2>4. OrderedIsAssigned'
    BY <1>3, <1>5, <1>6, <2>1, <2>2, <2>3 DEF OrderedIsAssigned
  <2> QED
    BY <1>3, <1>5, <2>1, <2>4
       DEF HandlerInv, Assigning, Reporting, Finishing, FinishedIsDone, AssignSteps
<1>7. CASE ~ok  BY <1>1, <1>2, <1>3, <1>5, <1>7, FailedHandler
<1> QED  BY <1>6, <1>7

-----------------------------------------------------------------------------
(* finish_order_cb *)

LEMMA FinishRequestOrder ==
    ASSUME OrderInv, FinishRequest  PROVE DataInv' /\ HandlerInv'
<1>1. DataInv'
  BY SameDataHarmless, HarmlessData DEF FinishRequest, history
<1>2. PICK o \in told \cup NoOrder :
          req' = [NoReq EXCEPT !.op = "finishOrder", !.oid = o]
  BY DEF FinishRequest
<1>3. o \in OrderId => o \in orders
  BY Bounds, KeysDiffer DEF OrderInv, DataInv
<1>4. pc' = "get_order" /\ req'.op = "finishOrder" /\ req'.oid = o
  BY <1>2 DEF FinishRequest, NoReq
<1>5. orders' = orders  BY DEF FinishRequest, history
<1>6. HandlerInv'
  BY <1>3, <1>4, <1>5 DEF HandlerInv, Assigning, Reporting, Finishing,
                          FinishedIsDone, OrderedIsAssigned, AssignSteps, FinishSteps
<1> QED  BY <1>1, <1>6

\* The handler after a call of finish_order_cb that precedes the insert.
LEMMA FinishGoesOn ==
    ASSUME NEW q \in Request, NEW r \in Request, NEW ok \in BOOLEAN,
           NEW next \in {"p_name", "d_name", "insert"},
           Advance(IF ok THEN r ELSE q, ok, next), r.op = "finishOrder", Harmless,
           r.oid \in OrderId =>
              /\ r.oid \in orders
              /\ hash[r.oid].driver_sessionid = r.driver
              /\ hash[r.oid].passenger_sessionid = r.passenger
    PROVE  HandlerInv'
<1>1. next \in Steps  BY DEF Steps
<1>2. CASE ok
  <2>1. pc' = next /\ req' = r  BY <1>1, <1>2, AdvanceType
  <2>2. Finishing'  BY <2>1 DEF Finishing, Harmless
  <2> QED
    BY <2>1, <2>2 DEF HandlerInv, Assigning, Reporting, FinishedIsDone,
                      OrderedIsAssigned, AssignSteps
<1>3. CASE ~ok  BY <1>1, <1>3, FailedHandler
<1> QED  BY <1>2, <1>3

LEMMA GetOrderdOrder ==
    ASSUME OrderInv, GetOrderd  PROVE DataInv' /\ HandlerInv'
<1> DEFINE r == [req EXCEPT
                   !.passenger = hash[req.oid].passenger_sessionid,
                   !.driver = hash[req.oid].driver_sessionid,
                   !.row.start_order_time = hash[req.oid].start_order_time]
<1>1. PICK ok \in Results(TRUE) : Advance(IF ok THEN r ELSE req, ok, "p_name")
  BY DEF GetOrderd
<1>2. ok \in BOOLEAN  BY ResultsAreBoolean
<1>3. req \in Request /\ req.op = "finishOrder"
  BY DEF GetOrderd, OrderInv, TypeInv, TypeOK, WebTypeOK, LocalsFor, FinishSteps
<1>4. hash[req.oid] \in Hash
  BY <1>3 DEF OrderInv, TypeInv, TypeOK, DataTypeOK, Request, Key
<1>5. /\ r \in Request /\ r.op = "finishOrder" /\ r.oid = req.oid
      /\ r.driver = hash[req.oid].driver_sessionid
      /\ r.passenger = hash[req.oid].passenger_sessionid
  <2>1. r \in Request  BY <1>3, <1>4, FoundOrderType
  <2> QED  BY <1>3, <2>1 DEF Request
<1>6. Harmless  BY SameDataHarmless DEF GetOrderd, history
<1>7. req.oid \in OrderId => req.oid \in orders
  BY <1>3 DEF OrderInv, HandlerInv, Finishing
<1> HIDE DEF r
<1> QED  BY <1>1, <1>2, <1>3, <1>5, <1>6, <1>7, FinishGoesOn, HarmlessData

LEMMA GetUsernamePassengerOrder ==
    ASSUME OrderInv, GetUsernamePassenger  PROVE DataInv' /\ HandlerInv'
<1> DEFINE r == [req EXCEPT !.row.passenger_username = hash[req.passenger].username]
<1>1. PICK ok \in Results(TRUE) : Advance(IF ok THEN r ELSE req, ok, "d_name")
  BY DEF GetUsernamePassenger
<1>2. ok \in BOOLEAN /\ "d_name" \in Steps  BY ResultsAreBoolean DEF Steps
<1>3. req \in Request /\ req.op = "finishOrder"
  BY DEF GetUsernamePassenger, OrderInv, TypeInv, TypeOK, WebTypeOK, LocalsFor, FinishSteps
<1>4. hash[req.passenger].username \in User \cup {Empty}
  <2>1. req.passenger \in Key  BY <1>3 DEF Request, Key, SessionId, OrderKey
  <2> QED  BY <2>1 DEF OrderInv, TypeInv, TypeOK, DataTypeOK, Hash
<1>5. /\ r \in Request /\ r.op = "finishOrder" /\ r.oid = req.oid
      /\ r.driver = req.driver /\ r.passenger = req.passenger
  BY <1>3, <1>4 DEF Request, Row
<1>6. Harmless  BY SameDataHarmless DEF GetUsernamePassenger, history
<1>7. req.oid \in OrderId =>
        /\ req.oid \in orders
        /\ hash[req.oid].driver_sessionid = req.driver
        /\ hash[req.oid].passenger_sessionid = req.passenger
  BY <1>3 DEF GetUsernamePassenger, OrderInv, HandlerInv, Finishing, FinishSteps
<1> HIDE DEF r
<1> QED
  BY <1>1, <1>2, <1>3, <1>5, <1>6, <1>7, FinishGoesOn, HarmlessData

LEMMA GetUsernameDriverOrder ==
    ASSUME OrderInv, GetUsernameDriver  PROVE DataInv' /\ HandlerInv'
<1> DEFINE r == [req EXCEPT !.row.driver_username = hash[req.driver].username]
<1>1. PICK ok \in Results(TRUE) : Advance(IF ok THEN r ELSE req, ok, "insert")
  BY DEF GetUsernameDriver
<1>2. ok \in BOOLEAN /\ "insert" \in Steps  BY ResultsAreBoolean DEF Steps
<1>3. req \in Request /\ req.op = "finishOrder"
  BY DEF GetUsernameDriver, OrderInv, TypeInv, TypeOK, WebTypeOK, LocalsFor, FinishSteps
<1>4. hash[req.driver].username \in User \cup {Empty}
  <2>1. req.driver \in Key  BY <1>3 DEF Request, Key, SessionId, OrderKey
  <2> QED  BY <2>1 DEF OrderInv, TypeInv, TypeOK, DataTypeOK, Hash
<1>5. /\ r \in Request /\ r.op = "finishOrder" /\ r.oid = req.oid
      /\ r.driver = req.driver /\ r.passenger = req.passenger
  BY <1>3, <1>4 DEF Request, Row
<1>6. Harmless  BY SameDataHarmless DEF GetUsernameDriver, history
<1>7. req.oid \in OrderId =>
        /\ req.oid \in orders
        /\ hash[req.oid].driver_sessionid = req.driver
        /\ hash[req.oid].passenger_sessionid = req.passenger
  BY <1>3 DEF GetUsernameDriver, OrderInv, HandlerInv, Finishing, FinishSteps
<1> HIDE DEF r
<1> QED
  BY <1>1, <1>2, <1>3, <1>5, <1>6, <1>7, FinishGoesOn, HarmlessData

LEMMA DataserverCreateOrderOrder ==
    ASSUME OrderInv, DataserverCreateOrder  PROVE DataInv' /\ HandlerInv'
<1>1. PICK ok \in Results(orderTable[req.oid] = NoRow) :
          InsertOrder(req.oid, req.row, ok) /\ Advance(req, ok, "d_none")
  BY DEF DataserverCreateOrder
<1>2. ok \in BOOLEAN /\ "d_none" \in Steps  BY ResultsAreBoolean DEF Steps
<1>3. req \in Request /\ req.op = "finishOrder"
  BY DEF DataserverCreateOrder, OrderInv, TypeInv, TypeOK, WebTypeOK, LocalsFor, FinishSteps
<1>4. req.oid \in OrderId =>
        /\ req.oid \in orders
        /\ hash[req.oid].driver_sessionid = req.driver
        /\ hash[req.oid].passenger_sessionid = req.passenger
  BY <1>3 DEF DataserverCreateOrder, OrderInv, HandlerInv, Finishing, FinishSteps
<1>5. orderTable \in [OrderKey -> Row \cup {NoRow}] /\ req.oid \in OrderKey
  BY <1>3 DEF OrderInv, TypeInv, TypeOK, DataTypeOK, Request
<1>6. UNCHANGED <<hash, orders, told>>
  BY <1>1 DEF InsertOrder, dataVars, DataserverCreateOrder, history
<1>7. DataInv'
  <2>1. \A o \in OrderId : o # req.oid => orderTable'[o] = orderTable[o]
    BY <1>1, <1>5 DEF InsertOrder, dataVars, OrderKey
  <2>2. UnusedOrders'  BY <1>4, <1>6, <2>1 DEF OrderInv, DataInv, UnusedOrders
  <2> QED
    BY <1>6, <2>2 DEF OrderInv, DataInv, NoDanglingOrder, HeldAreCreated, Parties
<1>8. CASE ok
  <2>1. pc' = "d_none" /\ req' = req  BY <1>1, <1>2, <1>3, <1>8, AdvanceType
  <2>2. orderTable'[req.oid] # NoRow
    <3>1. orderTable'[req.oid] = req.row  BY <1>1, <1>5, <1>8 DEF InsertOrder
    <3>2. req.row.passenger_username \in User \cup {Empty}  BY <1>3 DEF Request, Row
    <3>3. None \notin User \cup {Empty}  BY Identifiers DEF None, Empty
    <3> QED  BY <3>1, <3>2, <3>3 DEF NoRow
  <2>3. Finishing'  BY <1>4, <1>6, <2>1, <2>2 DEF Finishing
  <2> QED
    BY <1>3, <1>7, <2>1, <2>3
       DEF HandlerInv, Assigning, Reporting, FinishedIsDone, OrderedIsAssigned, AssignSteps
<1>9. CASE ~ok  BY <1>1, <1>2, <1>3, <1>7, <1>9, FailedHandler
<1> QED  BY <1>8, <1>9

\* Clearing the order of a session, or of the absent session.
LEMMA ReleaseOrder ==
    ASSUME OrderInv, NEW k \in SessionId \cup {Empty}, NEW ok,
           SetHash(k, {}, [hash[k] EXCEPT !.orderid = None], ok), UNCHANGED history
    PROVE  /\ Harmless
           /\ ok /\ k \in SafeSession => hash'[k].orderid = None
<1>1. hash \in [Key -> Hash] /\ k \in Key
  BY DEF OrderInv, TypeInv, TypeOK, DataTypeOK, Key, OrderKey
<1>2. [hash[k] EXCEPT !.orderid = None].orderid = None
  BY <1>1 DEF Hash
<1>3. Harmless  BY <1>2, SetSessionHarmless DEF history
<1>4. ok /\ k \in SafeSession => hash'[k] = [hash[k] EXCEPT !.orderid = None]
  BY <1>1 DEF SetHash, SafeSession
<1> QED  BY <1>2, <1>3, <1>4

LEMMA ReleaseDriverOrder ==
    ASSUME OrderInv, ReleaseDriver  PROVE DataInv' /\ HandlerInv'
<1>1. PICK ok \in Results(TRUE) :
          /\ SetHash(req.driver, {}, [hash[req.driver] EXCEPT !.orderid = None], ok)
          /\ Advance(req, ok, "p_none")
  BY DEF ReleaseDriver
<1>2. ok \in BOOLEAN /\ "p_none" \in Steps  BY ResultsAreBoolean DEF Steps
<1>3. req \in Request /\ req.op = "finishOrder"
  BY DEF ReleaseDriver, OrderInv, TypeInv, TypeOK, WebTypeOK, LocalsFor, FinishSteps
<1>4. req.driver \in SessionId \cup {Empty} /\ req.passenger \in PassengerSid \cup {Empty}
  BY <1>3 DEF Request, SessionId
<1>5. Harmless /\ (ok /\ req.driver \in SafeSession => hash'[req.driver].orderid = None)
  BY <1>1, <1>4, ReleaseOrder DEF ReleaseDriver
<1>6. DataInv'  BY <1>5, HarmlessData
<1>7. req.oid \in OrderId =>
        /\ req.oid \in orders /\ orderTable[req.oid] # NoRow
        /\ hash[req.oid].driver_sessionid = req.driver
        /\ hash[req.oid].passenger_sessionid = req.passenger
  BY <1>3 DEF ReleaseDriver, OrderInv, HandlerInv, Finishing, FinishSteps
<1>8. CASE ok
  <2>1. pc' = "p_none" /\ req' = req  BY <1>1, <1>2, <1>3, <1>8, AdvanceType
  <2>2. ASSUME req.oid \in SafeOrder, NEW s \in DriverSid \cap SafeSession,
               hash'[s].orderid = req.oid
        PROVE  FALSE
    <3>1. hash[s].orderid = req.oid /\ s \in SessionId /\ req.oid \in OrderId
      BY <1>5, <2>2, KeysDiffer DEF Harmless, SafeOrder
    <3>2. s \in {req.passenger, req.driver}
      BY <1>7, <2>2, <3>1 DEF OrderInv, DataInv, NoDanglingOrder, Parties
    <3>3. s = req.driver  BY <1>4, <3>1, <3>2, KeysDiffer
    <3> QED  BY <1>5, <1>8, <2>2, <3>1, <3>3, KeysDiffer
  <2>3. Finishing'  BY <1>5, <1>7, <2>1, <2>2 DEF Finishing, Harmless
  <2> QED
    BY <1>3, <1>6, <2>1, <2>3
       DEF HandlerInv, Assigning, Reporting, FinishedIsDone, OrderedIsAssigned, AssignSteps
<1>9. CASE ~ok  BY <1>1, <1>2, <1>3, <1>6, <1>9, FailedHandler
<1> QED  BY <1>8, <1>9

LEMMA ReleasePassengerOrder ==
    ASSUME OrderInv, ReleasePassenger  PROVE DataInv' /\ HandlerInv'
<1>1. PICK ok \in Results(TRUE) :
          /\ SetHash(req.passenger, {}, [hash[req.passenger] EXCEPT !.orderid = None], ok)
          /\ Advance(req, ok, "delete")
  BY DEF ReleasePassenger
<1>2. ok \in BOOLEAN /\ "delete" \in Steps  BY ResultsAreBoolean DEF Steps
<1>3. req \in Request /\ req.op = "finishOrder"
  BY DEF ReleasePassenger, OrderInv, TypeInv, TypeOK, WebTypeOK, LocalsFor, FinishSteps
<1>4. req.passenger \in SessionId \cup {Empty} /\ req.driver \in DriverSid \cup {Empty}
  BY <1>3 DEF Request, SessionId
<1>5. Harmless /\ (ok /\ req.passenger \in SafeSession => hash'[req.passenger].orderid = None)
  BY <1>1, <1>4, ReleaseOrder DEF ReleasePassenger
<1>6. DataInv'  BY <1>5, HarmlessData
<1>7. req.oid \in OrderId =>
        /\ req.oid \in orders /\ orderTable[req.oid] # NoRow
        /\ hash[req.oid].driver_sessionid = req.driver
        /\ hash[req.oid].passenger_sessionid = req.passenger
        /\ req.oid \in SafeOrder =>
              \A s \in DriverSid \cap SafeSession : hash[s].orderid # req.oid
  BY <1>3 DEF ReleasePassenger, OrderInv, HandlerInv, Finishing, FinishSteps
<1>8. CASE ok
  <2>1. pc' = "delete" /\ req' = req  BY <1>1, <1>2, <1>3, <1>8, AdvanceType
  <2>2. ASSUME req.oid \in SafeOrder, NEW s \in PassengerSid \cap SafeSession,
               hash'[s].orderid = req.oid
        PROVE  FALSE
    <3>1. hash[s].orderid = req.oid /\ s \in SessionId /\ req.oid \in OrderId
      BY <1>5, <2>2, KeysDiffer DEF Harmless, SafeOrder
    <3>2. s \in {req.passenger, req.driver}
      BY <1>7, <2>2, <3>1 DEF OrderInv, DataInv, NoDanglingOrder, Parties
    <3>3. s = req.passenger  BY <1>4, <3>1, <3>2, KeysDiffer
    <3> QED  BY <1>5, <1>8, <2>2, <3>1, <3>3, KeysDiffer
  <2>3. ASSUME req.oid \in SafeOrder, NEW s \in DriverSid \cap SafeSession
        PROVE  hash'[s].orderid # req.oid
    BY <1>5, <1>7, <2>3, KeysDiffer DEF Harmless, SafeOrder
  <2>4. Finishing'  BY <1>5, <1>7, <2>1, <2>2, <2>3 DEF Finishing, Harmless
  <2> QED
    BY <1>3, <1>6, <2>1, <2>4
       DEF HandlerInv, Assigning, Reporting, FinishedIsDone, OrderedIsAssigned, AssignSteps
<1>9. CASE ~ok  BY <1>1, <1>2, <1>3, <1>6, <1>9, FailedHandler
<1> QED  BY <1>8, <1>9

LEMMA DeleteOrderOrder ==
    ASSUME OrderInv, DeleteOrder  PROVE DataInv' /\ HandlerInv'
<1>1. PICK ok \in Results(Exists(req.oid)) : DeleteKey(req.oid, ok)
  BY DEF DeleteOrder
<1>2. /\ req \in Request /\ req.op = "finishOrder" /\ req.oid \in OrderKey
      /\ hash \in [Key -> Hash] /\ OrderKey \subseteq Key /\ SessionId \subseteq Key
  BY DEF DeleteOrder, OrderInv, TypeInv, TypeOK, DataTypeOK, WebTypeOK, LocalsFor,
         FinishSteps, Request, Key
<1>3. hash' = [hash EXCEPT ![req.oid] = Blank] \/ hash' = hash
  BY <1>1 DEF DeleteKey, Remove, dataVars
<1>4. UNCHANGED <<orderTable, orders, told, req>> /\ pc' = "reply"
  BY <1>1 DEF DeleteKey, Remove, dataVars, DeleteOrder, Proceed, history
<1>5. req.oid \in OrderId =>
        /\ req.oid \in orders /\ orderTable[req.oid] # NoRow
        /\ req.oid \in SafeOrder => \A s \in SafeSession : hash[s].orderid # req.oid
  BY <1>2 DEF DeleteOrder, OrderInv, HandlerInv, Finishing, FinishSteps, SessionId,
     SafeSession
<1>6. \A s \in SessionId : s # req.oid  BY <1>2, KeysDiffer DEF OrderKey
<1>7. \A s \in SessionId : hash'[s] = hash[s]  BY <1>2, <1>3, <1>6
<1>8. \A o \in OrderId : o # req.oid => hash'[o] = hash[o]
  BY <1>2, <1>3 DEF OrderKey
<1>9. NoDanglingOrder'
  BY <1>5, <1>7, <1>8 DEF OrderInv, DataInv, NoDanglingOrder, Parties, SafeSession, SafeOrder
<1>10. UnusedOrders' /\ HeldAreCreated'
  BY <1>4, <1>5, <1>7, <1>8 DEF OrderInv, DataInv, UnusedOrders, HeldAreCreated
<1>11. DataInv'  BY <1>4, <1>9, <1>10 DEF OrderInv, DataInv
<1>12. FinishedIsDone'  BY <1>4, <1>5, <1>7 DEF FinishedIsDone, SafeSession
<1> QED
  BY <1>2, <1>4, <1>5, <1>11, <1>12
     DEF HandlerInv, Assigning, Reporting, Finishing, OrderedIsAssigned,
         AssignSteps, FinishSteps

-----------------------------------------------------------------------------
(* The reply, expiry and restarts *)

\* A client is told of an order only by a position report, of one that exists.
LEMMA ReplyOrder ==
    ASSUME OrderInv, Reply  PROVE DataInv' /\ HandlerInv'
<1>1. UNCHANGED <<hash, orderTable, orders>>  BY DEF Reply, dataVars
<1>2. told' \subseteq told \cup ({req.oid} \cap OrderId)
      /\ (told' # told => req.op = "locationChanged")
  BY DEF Reply
<1>3. req.op = "locationChanged" /\ req.oid \in OrderId => req.oid \in orders
  BY DEF OrderInv, HandlerInv, Reporting, Nameable
<1>4. DataInv'
  BY <1>1, <1>2, <1>3 DEF OrderInv, DataInv, NoDanglingOrder, HeldAreCreated, UnusedOrders,
     Parties
<1>5. pc' = "idle" /\ req'.oid = Empty  BY DEF Reply, NoReq
<1> QED  BY <1>4, <1>5, KeysDiffer, NothingOwed DEF AssignSteps

LEMMA SessionExpiresOrder ==
    ASSUME OrderInv, SessionExpires  PROVE DataInv' /\ HandlerInv'
<1>1. PICK k \in SessionId : Remove(k)  BY DEF SessionExpires, Expire
<1>2. Harmless  BY <1>1, RemoveSessionHarmless DEF SessionExpires, history
<1>3. DataInv'  BY <1>2, HarmlessData
<1>4. UNCHANGED <<pc, req, orders>>  BY DEF SessionExpires, webVars, history
<1>5. hash \in [Key -> Hash] /\ SessionId \subseteq Key
      /\ \A s \in SessionId : hash'[s].orderid \in {hash[s].orderid, Empty}
  BY <1>1 DEF OrderInv, TypeInv, TypeOK, DataTypeOK, Key, Remove, Blank
<1>6. Assigning'
  BY <1>2, <1>4, <1>5, KeysDiffer
     DEF OrderInv, HandlerInv, Assigning, Harmless, AssignSteps, SafeSession
<1>7. Reporting'
  BY <1>2, <1>4 DEF OrderInv, HandlerInv, Reporting, Harmless, Nameable, Exists
<1>8. Finishing'
  BY <1>2, <1>4, <1>5, KeysDiffer
     DEF OrderInv, HandlerInv, Finishing, Harmless, SafeSession, SafeOrder
<1>9. FinishedIsDone'
  BY <1>2, <1>4, <1>5, KeysDiffer
     DEF OrderInv, HandlerInv, FinishedIsDone, Harmless, SafeSession, SafeOrder
<1>10. OrderedIsAssigned'
  <2>1. req.oid \in OrderKey /\ hash[req.oid] \in Hash /\ OrderKey \subseteq Key
    BY DEF OrderInv, TypeInv, TypeOK, DataTypeOK, WebTypeOK, Request, Key
  <2>2. \A o \in OrderKey : hash'[o] = hash[o]
    BY <1>1, <1>5, <2>1, KeysDiffer DEF Remove, OrderKey
  <2>3. Parties(req.oid)' = Parties(req.oid)
    BY <1>4, <2>1, <2>2 DEF Parties
  <2> QED
    BY <1>4, <1>5, <2>3 DEF OrderInv, HandlerInv, OrderedIsAssigned, SafeSession
<1> QED  BY <1>3, <1>6, <1>7, <1>8, <1>9, <1>10 DEF HandlerInv

LEMMA RestartOrder ==
    ASSUME OrderInv, Restart  PROVE DataInv' /\ HandlerInv'
<1>1. DataInv'  BY SameDataHarmless, HarmlessData DEF Restart, history
<1>2. pc' = "idle" /\ req'.oid = Empty  BY DEF Restart, NoReq
<1> QED  BY <1>1, <1>2, KeysDiffer, NothingOwed DEF AssignSteps

-----------------------------------------------------------------------------
(* The theorems *)

LEMMA OrderInit == Init => OrderInv
<1> SUFFICES ASSUME Init  PROVE OrderInv
  OBVIOUS
<1>1. TypeInv  BY TypeInit
<1>2. \A k \in Key : hash[k] = Blank  BY DEF Init, DataInit
<1>3. NoDanglingOrder
  BY <1>2, KeysDiffer DEF NoDanglingOrder, Key, Blank, SafeSession, SafeOrder
<1>4. UnusedOrders /\ HeldAreCreated /\ told \subseteq orders
  BY <1>2, KeysDiffer DEF Init, DataInit, UnusedOrders, HeldAreCreated, Key, OrderKey, Blank
<1>5. HandlerInv
  BY KeysDiffer DEF Init, NoReq, HandlerInv, Assigning, Reporting, Finishing,
     FinishedIsDone, OrderedIsAssigned, AssignSteps
<1> QED  BY <1>1, <1>3, <1>4, <1>5 DEF OrderInv, DataInv

LEMMA OrderStep == OrderInv /\ [Next]_vars => OrderInv'
<1> SUFFICES ASSUME OrderInv, [Next]_vars  PROVE OrderInv'
  OBVIOUS
<1>1. TypeInv'  BY TypeStep DEF OrderInv
<1>2. CASE ClientRequest
  BY <1>1, <1>2, AuthRequestOrder, OrderRequestOrder, LocationRequestOrder,
     FinishRequestOrder DEF ClientRequest, LoginRequest, RegRequest, OrderInv
<1>3. CASE ServerStep
  BY <1>1, <1>3,
     DataserverLoginOrder, DataserverRegOrder, CacheserverSessionOrder,
     CacheserverLifecycleOrder, CacheserverRadiusGeoOrder,
     CacheserverCreateOrderOrder, SetOrderidDriverOrder,
     SetOrderidPassengerOrder, ExistSessionidOrder, TouchSessionOrder,
     GetOrderidOrder, StartorderRealOrder, SetDtempLocationOrder,
     SetPtempLocationOrder, GetOrderdOrder, GetUsernamePassengerOrder,
     GetUsernameDriverOrder, DataserverCreateOrderOrder,
     ReleaseDriverOrder, ReleasePassengerOrder, DeleteOrderOrder,
     ReplyOrder, PoolOrder
     DEF ServerStep, OrderInv
<1>4. CASE SessionExpires  BY <1>1, <1>4, SessionExpiresOrder DEF OrderInv
<1>5. CASE Restart  BY <1>1, <1>5, RestartOrder DEF OrderInv
<1>6. CASE UNCHANGED vars
  BY <1>1, <1>6 DEF vars, OrderInv, DataInv, NoDanglingOrder, HeldAreCreated,
     UnusedOrders, Nameable, Parties, HandlerInv, Assigning, Reporting, Finishing,
     FinishedIsDone, OrderedIsAssigned, Exists
<1> QED  BY <1>2, <1>3, <1>4, <1>5, <1>6 DEF Next

LEMMA OrderInvHolds == Spec => []OrderInv
BY OrderInit, OrderStep, PTL DEF Spec

\* No session is left holding an order that was deleted or that is another
\* session's (set_order.c:119-127, finish_order.c:92-100), whatever call
\* fails, whenever a session expires and wherever the server is killed, if Redis
\* refuses no write at the session or the order (redis_op.cpp:344-356).
THEOREM NobodyDangles == Spec => []NoDanglingOrder
<1>1. OrderInv => NoDanglingOrder  BY DEF OrderInv, DataInv
<1> QED  BY <1>1, OrderInvHolds, PTL

\* "ok" to finishOrder means that the order is in MySQL, and that it is held by
\* nobody but sessions of which Redis refuses the writes (redis_op.cpp:344-356).
THEOREM FinishIsFinal == Spec => []FinishedIsDone
<1>1. OrderInv => FinishedIsDone  BY DEF OrderInv, HandlerInv
<1> QED  BY <1>1, OrderInvHolds, PTL

\* "ok" to startSetOrder means that the order has its two sessions and they were
\* given it, each as far as Redis refuses no write at it (redis_op.cpp:344-356).
THEOREM OrderIsAssigned == Spec => []OrderedIsAssigned
<1>1. OrderInv => OrderedIsAssigned  BY DEF OrderInv, HandlerInv
<1> QED  BY <1>1, OrderInvHolds, PTL

-----------------------------------------------------------------------------
(* What a step may do to an order in the cache *)

\* An order leaves the cache once it is in MySQL, and enters it before it is, or
\* by a report where Redis refused a write.
OrdersKept ==
    \A o \in OrderId :
        /\ Exists(o) /\ ~Exists(o)' => orderTable[o] # NoRow
        /\ ~Exists(o) /\ Exists(o)' =>
              \/ orderTable[o] = NoRow
              \/ o \in Refused \/ req.sid \in Refused

\* A write to a key that is no order leaves the orders alone.
LEMMA OtherKeyKeeps ==
    ASSUME NEW k, k \notin OrderId, NEW h, OrderInv, hash' = [hash EXCEPT ![k] = h]
    PROVE  OrdersKept
<1>1. hash \in [Key -> Hash] /\ OrderId \subseteq Key
  BY DEF OrderInv, TypeInv, TypeOK, DataTypeOK, Key, OrderKey
<1>2. \A o \in OrderId : hash'[o] = hash[o]  BY <1>1
<1> QED  BY <1>2 DEF OrdersKept, Exists

LEMMA SameHashKeeps ==
    ASSUME UNCHANGED hash  PROVE OrdersKept
BY DEF OrdersKept, Exists

LEMMA SetSessionKeeps ==
    ASSUME OrderInv, NEW k \in SessionId \cup {Empty}, NEW partial, NEW full,
           NEW ok, SetHash(k, partial, full, ok)
    PROVE  OrdersKept
<1>1. PICK h : hash' = [hash EXCEPT ![k] = h]  BY DEF SetHash
<1>2. k \notin OrderId  BY KeysDiffer
<1> QED  BY <1>1, <1>2, OtherKeyKeeps

LEMMA RemoveSessionKeeps ==
    ASSUME OrderInv, NEW k \in SessionId, Remove(k)  PROVE OrdersKept
<1>1. k \notin OrderId  BY KeysDiffer
<1> QED  BY <1>1, OtherKeyKeeps DEF Remove

LEMMA SetLifecycleKeeps ==
    ASSUME OrderInv, NEW k \in SessionId, NEW ok, SetLifecycle(k, ok)
    PROVE  OrdersKept
BY RemoveSessionKeeps, SameHashKeeps DEF SetLifecycle, dataVars

\* What a report writes does not remove a key.
LEMMA WrittenExists ==
    ASSUME OrderInv, StartorderReal \/ SetDtempLocation \/ SetPtempLocation
    PROVE  \E h : hash' = [hash EXCEPT ![req.oid] = h] /\ (Exists(req.oid) => h # Blank)
<1>1. req.oid \in Key /\ hash[req.oid] \in Hash
  BY DEF OrderInv, TypeInv, TypeOK, DataTypeOK, WebTypeOK, Request, Key
<1>2. PICK full, ok :
        /\ SetHash(req.oid, {}, full, ok)
        /\ full \in { [hash[req.oid] EXCEPT !.order_status = "ACTIVE"],
                      [hash[req.oid] EXCEPT !.position = "point"] }
  BY DEF StartorderReal, SetDtempLocation, SetPtempLocation
<1>3. full \in Hash /\ full # Blank
  <2>1. Blank.order_status = "" /\ Blank.position = ""  BY DEF Blank, Empty
  <2>2. CASE full = [hash[req.oid] EXCEPT !.order_status = "ACTIVE"]
    <3>1. full \in Hash /\ full.order_status = "ACTIVE"  BY <1>1, <2>2 DEF Hash
    <3> QED  BY <2>1, <3>1
  <2>3. CASE full = [hash[req.oid] EXCEPT !.position = "point"]
    <3>1. full \in Hash /\ full.position = "point"  BY <1>1, <2>3 DEF Hash
    <3> QED  BY <2>1, <3>1
  <2> QED  BY <1>2, <2>2, <2>3
<1>4. \E v : full \in { [hash[req.oid] EXCEPT !.orderid = v],
                        [hash[req.oid] EXCEPT !.order_status = v],
                        [hash[req.oid] EXCEPT !.position = v] }
  BY <1>2
<1>5. \E h \in {hash[req.oid], full} : hash' = [hash EXCEPT ![req.oid] = h]
  BY <1>1, <1>2, <1>3, <1>4, WriteField DEF OrderInv
<1> QED  BY <1>3, <1>5 DEF Exists

LEMMA WritesKeep ==
    ASSUME OrderInv, OrderInv', StartorderReal \/ SetDtempLocation \/ SetPtempLocation
    PROVE  OrdersKept
<1>1. PICK h : hash' = [hash EXCEPT ![req.oid] = h] /\ (Exists(req.oid) => h # Blank)
  BY WrittenExists
<1>2. UNCHANGED req /\ req.op = "locationChanged" /\ req.sid \in SessionId
  BY DEF StartorderReal, SetDtempLocation, SetPtempLocation, Proceed, OrderInv,
         TypeInv, LocalsFor, ReportSteps
<1>3. CASE req.oid \notin OrderId  BY <1>1, <1>3, OtherKeyKeeps
<1>4. CASE req.oid \in OrderId
  <2>1. \/ Exists(req.oid)
        \/ req.oid \in Refused \/ req.sid \in Refused
    BY <1>2, <1>4 DEF OrderInv, HandlerInv, Reporting, Nameable, SafeSession, SafeOrder
  <2>2. /\ \A o \in OrderId : o # req.oid => hash'[o] = hash[o]
        /\ Exists(req.oid) => Exists(req.oid)'
    BY <1>1, <1>2, <1>4 DEF OrderInv, TypeInv, TypeOK, DataTypeOK, Key, OrderKey, Exists
  <2> QED  BY <1>2, <2>1, <2>2 DEF OrdersKept, Exists
<1> QED  BY <1>3, <1>4

LEMMA CreateKeeps ==
    ASSUME OrderInv, CacheserverCreateOrder  PROVE OrdersKept
<1>1. PICK o \in OrderId \ orders : \E h : hash' = [hash EXCEPT ![o] = h]
  BY DEF CacheserverCreateOrder, SetHash
<1>2. ~Exists(o) /\ orderTable[o] = NoRow
  BY <1>1 DEF OrderInv, DataInv, UnusedOrders, Exists
<1>3. \A q \in OrderId : q # o => hash'[q] = hash[q]
  BY <1>1 DEF OrderInv, TypeInv, TypeOK, DataTypeOK, Key, OrderKey
<1> QED  BY <1>2, <1>3 DEF OrdersKept, Exists

LEMMA DeleteKeeps ==
    ASSUME OrderInv, DeleteOrder  PROVE OrdersKept
<1>1. hash' = [hash EXCEPT ![req.oid] = Blank] \/ hash' = hash
  BY DEF DeleteOrder, DeleteKey, Remove, dataVars
<1>2. CASE hash' = hash  BY <1>2, SameHashKeeps
<1>3. CASE hash' = [hash EXCEPT ![req.oid] = Blank]
  <2>1. req.oid \in OrderId => orderTable[req.oid] # NoRow
    BY DEF DeleteOrder, OrderInv, HandlerInv, Finishing, TypeInv, LocalsFor, FinishSteps
  <2>2. /\ \A o \in OrderId : o # req.oid => hash'[o] = hash[o]
        /\ req.oid \in OrderId => hash'[req.oid] = Blank
    BY <1>3 DEF OrderInv, TypeInv, TypeOK, DataTypeOK, Key, OrderKey
  <2> QED  BY <2>1, <2>2 DEF OrdersKept, Exists
<1> QED  BY <1>1, <1>2, <1>3

LEMMA OrdersKeptByStep == OrderInv /\ OrderInv' /\ [Next]_vars => OrdersKept
<1> SUFFICES ASSUME OrderInv, OrderInv', [Next]_vars  PROVE OrdersKept
  OBVIOUS
<1>1. CASE ClientRequest
  BY <1>1, SameHashKeeps DEF ClientRequest, LoginRequest, RegRequest, AuthRequest,
     OrderRequest, LocationRequest, FinishRequest, dataVars
<1>2. CASE DataserverLogin \/ DataserverReg \/ CacheserverRadiusGeo \/ ExistSessionid
           \/ GetOrderid \/ RemGeo \/ AddToPool \/ GetOrderd \/ GetUsernamePassenger
           \/ GetUsernameDriver \/ DataserverCreateOrder \/ Reply \/ Restart
  BY <1>2, SameHashKeeps DEF DataserverLogin, DataserverReg, CacheserverRadiusGeo,
     ExistSessionid, GetOrderid, RemGeo, AddToPool, GetOrderd, GetUsernamePassenger,
     GetUsernameDriver, DataserverCreateOrder, Reply, Restart, dataVars, QueryUser,
     InsertUser, RadiusGeo, ExistKey, RemZset, AddGeo, InsertOrder
<1>3. CASE CacheserverSession
  <2>1. FreshSid(req.isDriver) \subseteq SessionId
    BY DEF FreshSid, SidOf, SessionId
  <2> QED  BY <1>3, <2>1, SetSessionKeeps DEF CacheserverSession
<1>4. CASE CacheserverLifecycle \/ TouchSession
  <2>1. req.sid \in SessionId
    BY <1>4 DEF CacheserverLifecycle, TouchSession, OrderInv, TypeInv, LocalsFor,
                ReportSteps
  <2> QED  BY <1>4, <2>1, SetLifecycleKeeps DEF CacheserverLifecycle, TouchSession
<1>5. CASE SetOrderidDriver \/ SetOrderidPassenger \/ ReleaseDriver \/ ReleasePassenger
  <2>1. req.driver \in SessionId \cup {Empty} /\ req.passenger \in SessionId \cup {Empty}
    BY DEF OrderInv, TypeInv, TypeOK, WebTypeOK, Request, SessionId
  <2> QED
    BY <1>5, <2>1, SetSessionKeeps DEF SetOrderidDriver, SetOrderidPassenger,
       ReleaseDriver, ReleasePassenger
<1>6. CASE SessionExpires  BY <1>6, RemoveSessionKeeps DEF SessionExpires, Expire
<1>7. CASE UNCHANGED vars  BY <1>7, SameHashKeeps DEF vars
<1> QED
  BY <1>1, <1>2, <1>3, <1>4, <1>5, <1>6, <1>7, WritesKeep, CreateKeeps, DeleteKeeps
     DEF Next, ServerStep

\* An order leaves the cache only once it is in MySQL: no sequence of
\* failures, expiries and restarts loses a ride.
THEOREM OrdersAreNotLost == Spec => NoOrderLost
<1>1. OrderInv /\ OrderInv' /\ [Next]_vars =>
        [\A o \in OrderId : Exists(o) /\ ~Exists(o)' => orderTable[o] # NoRow]_vars
  BY OrdersKeptByStep DEF OrdersKept
<1> QED  BY <1>1, OrderInvHolds, PTL DEF Spec, NoOrderLost

\* A finished order does not come back to the cache: a position report writes
\* only into an order its session was not yet released from, if Redis refuses no
\* write at the session or the order.
THEOREM OrdersStayFinished == Spec => NoResurrection
<1>1. OrderInv /\ OrderInv' /\ [Next]_vars =>
        [\A o \in SafeOrder :
            orderTable[o] # NoRow /\ ~Exists(o) /\ req.sid \notin Refused
               => ~Exists(o)']_vars
  BY OrdersKeptByStep DEF OrdersKept, SafeOrder
<1> QED  BY <1>1, OrderInvHolds, PTL DEF Spec, NoResurrection
=============================================================================
