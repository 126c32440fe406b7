----------------------------- MODULE PartyProofs -----------------------------
(***************************************************************************)
(* Who an order belongs to, for every value of the constants of WebServer: *)
(* whose position is written into it and whose names its row has.  An      *)
(* order some session holds, or some client was told of, names both of its *)
(* sessions, or has its row; a report and a finish therefore know whom     *)
(* they act for.  With that the web server implements the order book:      *)
(* under the refinement mapping of RideBook each step of a handler, each   *)
(* failure, expiry and restart is a step of OrderBook or none at all.      *)
(* What Redis may refuse to write, SafeSession and SafeOrder leave out.    *)
(***************************************************************************)
EXTENDS WebServerProofs, RideBook

\* An order that was written to its end.
Full(o) ==
    /\ hash[o].passenger_sessionid \in PassengerSid
    /\ hash[o].driver_sessionid \in DriverSid

\* An order the session s has: it is full and names s, but where Redis refused to
\* take the order from s when it was finished.
Own(s, o) ==
    \/ Full(o) /\ s \in Parties(o)
    \/ s \in Refused /\ orderTable[o] # NoRow

HeldAreOwn == \A s \in SessionId, o \in SafeOrder : hash[s].orderid = o => Own(s, o)

ToldAreFull == \A o \in told \cap SafeOrder : Full(o) \/ orderTable[o] # NoRow

\* The order a report has read is one of its own session.
Reporter ==
    req.op = "locationChanged" /\ req.oid \in SafeOrder => Own(req.sid, req.oid)

\* A finish that may still insert its order has the names of the order's users.
Namer ==
    req.op = "finishOrder" /\ req.oid \in SafeOrder =>
        /\ Full(req.oid) \/ orderTable[req.oid] # NoRow
        /\ pc \in {"d_name", "insert"} /\ req.passenger \in PassengerSid =>
              req.row.passenger_username \in {owner[req.passenger], Empty}
        /\ pc = "insert" /\ req.driver \in DriverSid =>
              req.row.driver_username \in {owner[req.driver], Empty}

\* An order that is being assigned was not finished yet.
Fresh == pc \in {"driver_orderid", "passenger_orderid"} => orderTable[req.oid] = NoRow

LocalParty == Reporter /\ Namer /\ Fresh

PartyInv == OrderInv /\ SessionInv /\ HeldAreOwn /\ ToldAreFull /\ LocalParty

-----------------------------------------------------------------------------
(* What a step may do to the orders and to the sessions that hold them *)

SameOrders == \A o \in OrderId : hash'[o] = hash[o]

PartiesKept ==
    \A o \in OrderId :
        /\ hash'[o].passenger_sessionid = hash[o].passenger_sessionid
        /\ hash'[o].driver_sessionid = hash[o].driver_sessionid

RowsKept == \A o \in OrderId : orderTable[o] # NoRow => orderTable'[o] # NoRow

NothingAssigned ==
    \A s \in SessionId : hash'[s].orderid \in {hash[s].orderid, None, Empty}

\* A write to a key that is no order, or none at all.
LEMMA OtherKeySame ==
    ASSUME OrderInv, NEW k, k \notin OrderId, NEW h, hash' = [hash EXCEPT ![k] = h]
    PROVE  SameOrders
BY DEF OrderInv, TypeInv, TypeOK, DataTypeOK, Key, OrderKey, SameOrders

LEMMA SetSessionSame ==
    ASSUME OrderInv, NEW k \in SessionId \cup {Empty}, NEW partial, NEW full, NEW ok,
           SetHash(k, partial, full, ok)
    PROVE  SameOrders
<1>1. PICK h : hash' = [hash EXCEPT ![k] = h]  BY DEF SetHash
<1>2. k \notin OrderId  BY KeysDiffer
<1> QED  BY <1>1, <1>2, OtherKeySame

LEMMA RemoveSessionSame ==
    ASSUME OrderInv, NEW k \in SessionId, Remove(k)  PROVE SameOrders
<1>1. k \notin OrderId  BY KeysDiffer
<1> QED  BY <1>1, OtherKeySame DEF Remove

\* What becomes of the hash a pipeline of HSETs writes.
LEMMA SetHashWrites ==
    ASSUME NEW k, NEW partial, NEW full, NEW ok, SetHash(k, partial, full, ok)
    PROVE  \E h \in {hash[k], full} \cup partial \cup Mixed(hash[k], full) :
              hash' = [hash EXCEPT ![k] = h]
BY DEF SetHash

\* What a report writes: one of two fields of its order, or nothing.
LEMMA ReportWrites ==
    ASSUME OrderInv, StartorderReal \/ SetDtempLocation \/ SetPtempLocation
    PROVE  \E h : /\ hash' = [hash EXCEPT ![req.oid] = h]
                  /\ \/ h = hash[req.oid]
                     \/ h = [hash[req.oid] EXCEPT !.order_status = "ACTIVE"]
                     \/ /\ h = [hash[req.oid] EXCEPT !.position = "point"]
                        /\ ~StartorderReal
<1>1. req.oid \in Key /\ hash[req.oid] \in Hash
  BY DEF OrderInv, TypeInv, TypeOK, DataTypeOK, WebTypeOK, Request, Key
<1>2. PICK full, ok :
        /\ SetHash(req.oid, {}, full, ok)
        /\ \/ full = [hash[req.oid] EXCEPT !.order_status = "ACTIVE"]
           \/ /\ full = [hash[req.oid] EXCEPT !.position = "point"]
              /\ ~StartorderReal
  BY DEF StartorderReal, SetDtempLocation, SetPtempLocation
<1>3. full \in Hash  BY <1>1, <1>2 DEF Hash
<1>4. \E v : full \in { [hash[req.oid] EXCEPT !.orderid = v],
                        [hash[req.oid] EXCEPT !.order_status = v],
                        [hash[req.oid] EXCEPT !.position = v] }
  BY <1>2
<1>5. \E h \in {hash[req.oid], full} : hash' = [hash EXCEPT ![req.oid] = h]
  BY <1>1, <1>2, <1>3, <1>4, WriteField DEF OrderInv
<1> QED  BY <1>2, <1>5

\* What is done to nothing but the order the handler has in its locals.
OrderSteps == \/ CacheserverCreateOrder \/ DeleteOrder
              \/ StartorderReal \/ SetDtempLocation \/ SetPtempLocation

\* The steps that do not touch the hashes at all.
ReadSteps ==
    \/ ClientRequest \/ DataserverLogin \/ DataserverReg \/ CacheserverRadiusGeo
    \/ ExistSessionid \/ GetOrderid \/ RemGeo \/ AddToPool \/ GetOrderd
    \/ GetUsernamePassenger \/ GetUsernameDriver \/ DataserverCreateOrder
    \/ Reply \/ Restart

LEMMA ReadStepsRead == ReadSteps => UNCHANGED hash
BY DEF ReadSteps, ClientRequest, LoginRequest, RegRequest, AuthRequest,
   OrderRequest, LocationRequest, FinishRequest, DataserverLogin, DataserverReg,
   CacheserverRadiusGeo, ExistSessionid, GetOrderid, RemGeo, AddToPool, GetOrderd,
   GetUsernamePassenger, GetUsernameDriver, DataserverCreateOrder, Reply, Restart,
   dataVars, QueryUser, InsertUser, RadiusGeo, ExistKey, RemZset, AddGeo, InsertOrder

\* The other steps write a session, or remove one.
SessionSteps ==
    \/ CacheserverSession \/ CacheserverLifecycle \/ TouchSession \/ SessionExpires
    \/ SetOrderidDriver \/ SetOrderidPassenger \/ ReleaseDriver \/ ReleasePassenger

LEMMA AllSteps == Next => ReadSteps \/ SessionSteps \/ OrderSteps
BY DEF Next, ServerStep, ReadSteps, SessionSteps, OrderSteps

LEMMA SessionStepsSame ==
    ASSUME OrderInv, SessionSteps  PROVE SameOrders
<1>1. CASE CacheserverSession
  <2>1. FreshSid(req.isDriver) \subseteq SessionId  BY DEF FreshSid, SidOf, SessionId
  <2> QED  BY <1>1, <2>1, SetSessionSame DEF CacheserverSession
<1>2. CASE CacheserverLifecycle \/ TouchSession
  <2>1. PICK ok : SetLifecycle(req.sid, ok)
    BY <1>2 DEF CacheserverLifecycle, TouchSession
  <2>2. req.sid \in SessionId
    BY <1>2 DEF CacheserverLifecycle, TouchSession, OrderInv, TypeInv, LocalsFor, ReportSteps
  <2>3. CASE Remove(req.sid)  BY <2>2, <2>3, RemoveSessionSame
  <2>4. CASE ~Remove(req.sid)
    BY <2>1, <2>4 DEF SetLifecycle, SameOrders, dataVars
  <2> QED  BY <2>3, <2>4
<1>3. CASE SetOrderidDriver \/ SetOrderidPassenger \/ ReleaseDriver \/ ReleasePassenger
  <2>1. req.driver \in SessionId \cup {Empty} /\ req.passenger \in SessionId \cup {Empty}
    BY DEF OrderInv, TypeInv, TypeOK, WebTypeOK, Request, SessionId
  <2> QED
    BY <1>3, <2>1, SetSessionSame DEF SetOrderidDriver, SetOrderidPassenger,
       ReleaseDriver, ReleasePassenger
<1>4. CASE SessionExpires  BY <1>4, RemoveSessionSame DEF SessionExpires, Expire
<1> QED  BY <1>1, <1>2, <1>3, <1>4 DEF SessionSteps

\* Only the two set_orderid of set_order_cb give a session an order.
LEMMA WriteAssignsNothing ==
    ASSUME OrderInv, NEW k \in SessionId \cup {Empty}, NEW partial, NEW full, NEW ok,
           SetHash(k, partial, full, ok),
           \A h \in partial \cup {full} : h.orderid \in {hash[k].orderid, None}
    PROVE  NothingAssigned
<1>1. \A h \in Mixed(hash[k], full) : h.orderid \in {hash[k].orderid, full.orderid}
  BY MixedFields
<1>2. PICK h : hash' = [hash EXCEPT ![k] = h] /\ h.orderid \in {hash[k].orderid, None}
  BY <1>1, SetHashWrites
<1>3. hash \in [Key -> Hash] /\ SessionId \subseteq Key
  BY DEF OrderInv, TypeInv, TypeOK, DataTypeOK, Key
<1> QED  BY <1>2, <1>3 DEF NothingAssigned

LEMMA ReleaseAssignsNothing ==
    ASSUME OrderInv, NEW k \in SessionId \cup {Empty}, NEW ok,
           SetHash(k, {}, [hash[k] EXCEPT !.orderid = None], ok)
    PROVE  NothingAssigned
<1>1. hash[k] \in Hash
  BY DEF OrderInv, TypeInv, TypeOK, DataTypeOK, Key, OrderKey
<1>2. [hash[k] EXCEPT !.orderid = None].orderid = None  BY <1>1 DEF Hash
<1> QED  BY <1>2, WriteAssignsNothing

LEMMA RemoveAssignsNothing ==
    ASSUME OrderInv, NEW k \in Key, Remove(k)  PROVE NothingAssigned
<1>1. hash \in [Key -> Hash] /\ SessionId \subseteq Key
  BY DEF OrderInv, TypeInv, TypeOK, DataTypeOK, Key
<1> QED  BY <1>1 DEF NothingAssigned, Remove, Blank

LEMMA SessionStepsAssignNothing ==
    ASSUME OrderInv, SessionSteps, ~SetOrderidDriver, ~SetOrderidPassenger
    PROVE  NothingAssigned
<1>1. CASE CacheserverSession
  <2>1. PICK s \in FreshSid(req.isDriver), ok \in Results(TRUE) :
            SetHash(s, {[hash[s] EXCEPT !.username = req.user]},
                    [hash[s] EXCEPT !.username = req.user, !.orderid = None], ok)
    BY <1>1 DEF CacheserverSession
  <2>2. s \in SessionId /\ hash[s] \in Hash
    BY DEF OrderInv, TypeInv, TypeOK, DataTypeOK, Key, FreshSid, SidOf, SessionId
  <2>3. /\ [hash[s] EXCEPT !.username = req.user].orderid = hash[s].orderid
        /\ [hash[s] EXCEPT !.username = req.user, !.orderid = None].orderid = None
    BY <2>2 DEF Hash
  <2> QED  BY <2>1, <2>2, <2>3, WriteAssignsNothing
<1>2. CASE CacheserverLifecycle \/ TouchSession
  <2>1. PICK ok : SetLifecycle(req.sid, ok)
    BY <1>2 DEF CacheserverLifecycle, TouchSession
  <2>2. req.sid \in Key
    BY <1>2 DEF CacheserverLifecycle, TouchSession, OrderInv, TypeInv, LocalsFor, ReportSteps,
       Key
  <2>3. CASE Remove(req.sid)  BY <2>2, <2>3, RemoveAssignsNothing
  <2>4. CASE ~Remove(req.sid)
    BY <2>1, <2>4 DEF SetLifecycle, NothingAssigned, dataVars
  <2> QED  BY <2>3, <2>4
<1>3. CASE ReleaseDriver \/ ReleasePassenger
  <2>1. req.driver \in SessionId \cup {Empty} /\ req.passenger \in SessionId \cup {Empty}
    BY DEF OrderInv, TypeInv, TypeOK, WebTypeOK, Request, SessionId
  <2> QED  BY <1>3, <2>1, ReleaseAssignsNothing DEF ReleaseDriver, ReleasePassenger
<1>4. CASE SessionExpires
  BY <1>4, RemoveAssignsNothing DEF SessionExpires, Expire, Key
<1> QED  BY <1>1, <1>2, <1>3, <1>4 DEF SessionSteps

\* An order is no session, so what is done to it assigns nothing.
LEMMA OrderStepsAssignNothing ==
    ASSUME OrderInv, OrderSteps  PROVE NothingAssigned
<1>1. PICK k \in OrderKey : (\E h : hash' = [hash EXCEPT ![k] = h]) \/ hash' = hash
  <2>1. req.oid \in OrderKey  BY DEF OrderInv, TypeInv, TypeOK, WebTypeOK, Request
  <2> QED
    BY <2>1 DEF OrderSteps, CacheserverCreateOrder, DeleteOrder, StartorderReal,
       SetDtempLocation, SetPtempLocation, SetHash, DeleteKey, Remove, dataVars, OrderKey
<1>2. k \notin SessionId  BY OrdersAreNoSessions
<1>3. hash \in [Key -> Hash] /\ SessionId \subseteq Key
  BY DEF OrderInv, TypeInv, TypeOK, DataTypeOK, Key
<1> QED  BY <1>1, <1>2, <1>3 DEF NothingAssigned

\* A report writes neither of the parties of its order.
LEMMA WritesKeepParties ==
    ASSUME OrderInv, StartorderReal \/ SetDtempLocation \/ SetPtempLocation
    PROVE  PartiesKept
<1>1. PICK h : /\ hash' = [hash EXCEPT ![req.oid] = h]
               /\ h \in {hash[req.oid], [hash[req.oid] EXCEPT !.order_status = "ACTIVE"],
                         [hash[req.oid] EXCEPT !.position = "point"]}
  BY ReportWrites
<1>2. hash \in [Key -> Hash] /\ req.oid \in Key /\ OrderId \subseteq Key
  BY DEF OrderInv, TypeInv, TypeOK, DataTypeOK, WebTypeOK, Request, Key, OrderKey
<1>3. /\ h.passenger_sessionid = hash[req.oid].passenger_sessionid
      /\ h.driver_sessionid = hash[req.oid].driver_sessionid
  BY <1>1, <1>2 DEF Hash
<1> QED  BY <1>1, <1>2, <1>3 DEF PartiesKept

LEMMA PartiesByStep ==
    ASSUME OrderInv, [Next]_vars, ~CacheserverCreateOrder, ~DeleteOrder
    PROVE  PartiesKept
<1>1. CASE SameOrders  BY <1>1 DEF SameOrders, PartiesKept
<1>2. CASE UNCHANGED vars  BY <1>2 DEF vars, PartiesKept
<1>3. CASE ReadSteps  BY <1>3, ReadStepsRead DEF PartiesKept
<1> QED
  BY <1>1, <1>2, <1>3, AllSteps, SessionStepsSame, WritesKeepParties DEF OrderSteps

\* Only the insert of finish_order_cb writes a row.
LEMMA RowsWritten ==
    ASSUME OrderInv, [Next]_vars, ~UNCHANGED orderTable  PROVE DataserverCreateOrder
<1>1. Next  BY DEF vars
<1>2. ~ClientRequest /\ ~SessionExpires /\ ~Restart
  BY DEF ClientRequest, LoginRequest, RegRequest, AuthRequest, OrderRequest,
     LocationRequest, FinishRequest, SessionExpires, Expire, Remove, Restart, dataVars
<1>3. CASE ServerStep
  BY <1>3 DEF ServerStep, DataserverLogin, DataserverReg, CacheserverSession,
     CacheserverLifecycle, CacheserverRadiusGeo, CacheserverCreateOrder,
     SetOrderidDriver, SetOrderidPassenger, ExistSessionid, TouchSession, GetOrderid,
     RemGeo, AddToPool, StartorderReal, SetDtempLocation, SetPtempLocation, GetOrderd,
     GetUsernamePassenger, GetUsernameDriver, ReleaseDriver, ReleasePassenger,
     DeleteOrder, Reply, SetHash, SetLifecycle, Remove, RadiusGeo, ExistKey, RemZset,
     AddGeo, QueryUser, InsertUser, DeleteKey, dataVars
<1> QED  BY <1>1, <1>2, <1>3 DEF Next

\* A row, once written, stays: the insert of an order that has one is refused.
LEMMA RowsByStep ==
    ASSUME OrderInv, [Next]_vars  PROVE RowsKept
<1>1. CASE UNCHANGED orderTable  BY <1>1 DEF RowsKept
<1>2. CASE ~UNCHANGED orderTable
  <2>1. /\ orderTable[req.oid] = NoRow
        /\ orderTable' = [orderTable EXCEPT ![req.oid] = req.row]
    BY <1>2, RowsWritten DEF DataserverCreateOrder, InsertOrder, dataVars
  <2>2. orderTable \in [OrderKey -> Row \cup {NoRow}] /\ OrderId \subseteq OrderKey
    BY DEF OrderInv, TypeInv, TypeOK, DataTypeOK, OrderKey
  <2> QED  BY <2>1, <2>2 DEF RowsKept
<1> QED  BY <1>1, <1>2

LEMMA AssignsByStep ==
    ASSUME OrderInv, [Next]_vars, ~SetOrderidDriver, ~SetOrderidPassenger
    PROVE  NothingAssigned
<1>1. CASE UNCHANGED hash  BY <1>1 DEF NothingAssigned
<1>2. CASE UNCHANGED vars  BY <1>1, <1>2 DEF vars
<1> QED
  BY <1>1, <1>2, AllSteps, ReadStepsRead, SessionStepsAssignNothing, OrderStepsAssignNothing

\* What a session has stays its own when nothing of it is written.
LEMMA OwnByStep ==
    ASSUME PartiesKept, RowsKept, NEW s, NEW o \in OrderId, Own(s, o)  PROVE Own(s, o)'
BY DEF Own, Full, Parties, PartiesKept, RowsKept

LEMMA HeldByStep ==
    ASSUME PartyInv, PartiesKept, RowsKept, NothingAssigned  PROVE HeldAreOwn'
<1> SUFFICES ASSUME NEW s \in SessionId, NEW o \in SafeOrder, hash'[s].orderid = o
             PROVE  Own(s, o)'
  BY DEF HeldAreOwn
<1>1. o \in OrderId /\ hash[s].orderid = o  BY KeysDiffer DEF NothingAssigned, SafeOrder
<1> QED  BY <1>1, OwnByStep DEF PartyInv, HeldAreOwn

LEMMA ToldByStep ==
    ASSUME PartyInv, PartiesKept, RowsKept, UNCHANGED told  PROVE ToldAreFull'
<1>1. told \subseteq OrderId
  BY DEF PartyInv, OrderInv, TypeInv, TypeOK, WebTypeOK
<1> QED  BY <1>1 DEF PartyInv, ToldAreFull, Full, PartiesKept, RowsKept

-----------------------------------------------------------------------------
(* The locals *)

USE DEF AuthSteps, AssignSteps, ReportSteps, FinishSteps

\* A handler that has no order, or does nothing with it that is looked at.
LEMMA NoParty ==
    ASSUME pc' \notin {"driver_orderid", "passenger_orderid"},
           \/ req'.op \notin {"locationChanged", "finishOrder"}
           \/ req'.oid \notin OrderId
    PROVE  LocalParty'
BY DEF LocalParty, Reporter, Namer, Fresh, SafeOrder

\* A report that goes on with the order it has read.
LEMMA ReportGoesOnParty ==
    ASSUME PartyInv, PartiesKept, RowsKept,
           pc' \notin {"driver_orderid", "passenger_orderid"},
           req.op = "locationChanged", req'.op = "locationChanged",
           req'.oid \in OrderId => req'.oid = req.oid /\ req'.sid = req.sid
    PROVE  LocalParty'
<1>1. Reporter'
  <2> SUFFICES ASSUME req'.oid \in SafeOrder  PROVE Own(req.sid, req.oid)'
    BY DEF Reporter
  <2>1. /\ req.oid \in OrderId /\ req.oid = req'.oid /\ req.sid = req'.sid
        /\ Own(req.sid, req.oid)
    BY DEF SafeOrder, PartyInv, LocalParty, Reporter
  <2> QED  BY <2>1 DEF Own, Full, Parties, PartiesKept, RowsKept
<1> QED  BY <1>1 DEF LocalParty, Namer, Fresh

\* A finish that goes on, and has no name to look after.
LEMMA FinishGoesOnParty ==
    ASSUME PartyInv, PartiesKept, RowsKept,
           pc' \notin {"driver_orderid", "passenger_orderid", "d_name", "insert"},
           req.op = "finishOrder", req'.op = "finishOrder",
           req'.oid \in OrderId => req'.oid = req.oid
    PROVE  LocalParty'
BY DEF PartyInv, LocalParty, Reporter, Namer, Fresh, Full, PartiesKept, RowsKept, SafeOrder

\* A call that failed leaves no order in the locals.
LEMMA FailedParty ==
    ASSUME NEW r \in Request, NEW ok \in BOOLEAN, NEW next \in Steps,
           Advance(r, ok, next), ~ok
    PROVE  LocalParty'
<1>1. pc' = "reply" /\ req'.oid = Empty  BY AdvanceType
<1> QED  BY <1>1, KeysDiffer, NoParty

\* Whatever the result of a call: whose handler it is and where it may go.
LEMMA AdvanceOp ==
    ASSUME NEW r, NEW ok, NEW next, Advance(r, ok, next)
    PROVE  req'.op = r.op /\ pc' \in {next, "reply"}
<1>1. CASE ok   BY <1>1 DEF Advance
<1>2. CASE ~ok  BY <1>2 DEF Advance, NoReq
<1> QED  BY <1>1, <1>2

LEMMA AuthParty ==
    ASSUME OrderInv,
           \/ LoginRequest \/ RegRequest \/ DataserverLogin \/ DataserverReg
           \/ CacheserverSession \/ CacheserverLifecycle
    PROVE  LocalParty'
<1>1. CASE LoginRequest \/ RegRequest
  <2>1. req'.op \in {"login", "reg"} /\ pc' \in {"login", "reg"}
    BY <1>1 DEF LoginRequest, RegRequest, AuthRequest, NoReq
  <2> QED  BY <2>1, NoParty
<1>2. ASSUME pc \in AuthSteps  PROVE req.op \in {"login", "reg"} /\ req \in Request
  BY <1>2 DEF OrderInv, TypeInv, TypeOK, WebTypeOK, LocalsFor
<1>3. CASE DataserverLogin
  <2>1. PICK ok : Advance(req, ok, "session")  BY <1>3 DEF DataserverLogin
  <2> QED  BY <1>2, <1>3, <2>1, AdvanceOp, NoParty DEF DataserverLogin, AuthSteps
<1>4. CASE DataserverReg
  <2>1. PICK ok : Advance(req, ok, "session")  BY <1>4 DEF DataserverReg
  <2> QED  BY <1>2, <1>4, <2>1, AdvanceOp, NoParty DEF DataserverReg, AuthSteps
<1>5. CASE CacheserverSession
  <2>1. req.op \in {"login", "reg"} /\ req \in Request
    BY <1>2, <1>5 DEF CacheserverSession, AuthSteps
  <2> DEFINE r(s) == [req EXCEPT !.sid = s]
  <2>2. PICK s, ok : Advance(r(s), ok, "lifecycle")  BY <1>5 DEF CacheserverSession
  <2>3. r(s).op = req.op  BY <2>1 DEF Request
  <2> HIDE DEF r
  <2> QED  BY <2>1, <2>2, <2>3, AdvanceOp, NoParty
<1>6. CASE CacheserverLifecycle
  <2>1. PICK ok : Advance(req, ok, "reply")  BY <1>6 DEF CacheserverLifecycle
  <2> QED  BY <1>2, <1>6, <2>1, AdvanceOp, NoParty DEF CacheserverLifecycle, AuthSteps
<1> QED  BY <1>1, <1>3, <1>4, <1>5, <1>6

\* The order set_order_cb works on has no row: it was created under a new uuid.
LEMMA AssignParty ==
    ASSUME PartyInv,
           \/ OrderRequest \/ CacheserverRadiusGeo \/ CacheserverCreateOrder
           \/ SetOrderidDriver \/ SetOrderidPassenger
    PROVE  LocalParty'
<1>1. CASE OrderRequest
  <2>1. req'.op = "setOrder" /\ pc' = "radius"  BY <1>1 DEF OrderRequest, NoReq
  <2> QED  BY <2>1, NoParty
<1>2. \/ req.op = "setOrder" /\ req \in Request
      \/ OrderRequest
  BY DEF PartyInv, OrderInv, TypeInv, TypeOK, WebTypeOK, LocalsFor, CacheserverRadiusGeo,
     CacheserverCreateOrder, SetOrderidDriver, SetOrderidPassenger
<1>3. CASE CacheserverRadiusGeo /\ ~OrderRequest
  <2> DEFINE r(d, ok) == [req EXCEPT !.driver = d,
                                     !.recode = IF ok /\ d = Empty THEN "3" ELSE "0"]
  <2>1. PICK d, ok : Advance(r(d, ok), ok /\ d # Empty, "create_order")
    BY <1>3 DEF CacheserverRadiusGeo
  <2>2. r(d, ok).op = "setOrder"  BY <1>2, <1>3 DEF Request
  <2> HIDE DEF r
  <2> QED  BY <2>1, <2>2, AdvanceOp, NoParty
<1>4. CASE CacheserverCreateOrder /\ ~OrderRequest
  <2> DEFINE r(o) == [req EXCEPT !.oid = o]
  <2>1. PICK o \in OrderId \ orders : /\ \E ok : Advance(r(o), ok, "driver_orderid")
                                     /\ UNCHANGED orderTable
    BY <1>4 DEF CacheserverCreateOrder, SetHash
  <2>2. r(o).op = "setOrder" /\ r(o).oid = o  BY <1>2, <1>4 DEF Request
  <2>3. orderTable'[o] = NoRow
    BY <2>1 DEF PartyInv, OrderInv, DataInv, UnusedOrders
  <2> HIDE DEF r
  <2>4. req'.op = "setOrder" /\ pc' \in {"driver_orderid", "reply"}
    BY <2>1, <2>2, AdvanceOp
  <2>5. pc' = "driver_orderid" => req'.oid = o  BY <2>1, <2>2 DEF Advance
  <2> QED  BY <2>3, <2>4, <2>5 DEF LocalParty, Reporter, Namer, Fresh
<1>5. CASE SetOrderidDriver /\ ~OrderRequest
  <2>1. PICK ok : Advance(req, ok, "passenger_orderid")  BY <1>5 DEF SetOrderidDriver
  <2>2. UNCHANGED orderTable /\ orderTable[req.oid] = NoRow
    BY <1>5 DEF SetOrderidDriver, SetHash, PartyInv, LocalParty, Fresh
  <2>3. req'.op = "setOrder" /\ pc' \in {"passenger_orderid", "reply"}
    BY <1>2, <1>5, <2>1, AdvanceOp
  <2>4. pc' = "passenger_orderid" => req'.oid = req.oid  BY <2>1 DEF Advance
  <2> QED  BY <2>2, <2>3, <2>4 DEF LocalParty, Reporter, Namer, Fresh
<1>6. CASE SetOrderidPassenger /\ ~OrderRequest
  <2>1. PICK ok : Advance(req, ok, "reply")  BY <1>6 DEF SetOrderidPassenger
  <2> QED  BY <1>2, <1>6, <2>1, AdvanceOp, NoParty
<1> QED  BY <1>1, <1>3, <1>4, <1>5, <1>6

\* The order a report finds in its session names the session.
LEMMA GetOrderidParty ==
    ASSUME PartyInv, GetOrderid  PROVE LocalParty'
<1> DEFINE r(ok) == [req EXCEPT !.oid = IF ok THEN hash[req.sid].orderid ELSE Empty]
           next == IF req.isDriver = "yes" THEN DriverBranch(req.status)
                                           ELSE PassengerBranch(req.status)
<1>1. PICK ok \in Results(TRUE) : Advance(r(ok), ok, next)  BY DEF GetOrderid
<1>2. ok \in BOOLEAN  BY ResultsAreBoolean
<1>3. /\ req \in Request /\ req.op = "locationChanged" /\ req.sid \in SessionId
      /\ hash \in [Key -> Hash]
  BY DEF PartyInv, OrderInv, TypeInv, TypeOK, DataTypeOK, WebTypeOK, LocalsFor, GetOrderid
<1>4. hash[req.sid].orderid \in OrderKey  BY <1>3 DEF Key, Hash
<1>5. /\ r(ok) \in Request /\ r(ok).op = "locationChanged" /\ r(ok).sid = req.sid
      /\ ok => r(ok).oid = hash[req.sid].orderid
  BY <1>3, <1>4 DEF Request, OrderKey
<1>6. next \in {"rem_geo", "set_ptemp", "reply"}  BY DEF DriverBranch, PassengerBranch
<1>7. next \in Steps  BY <1>6 DEF Steps
<1>8. UNCHANGED hash  BY DEF GetOrderid, dataVars
<1> HIDE DEF r, next
<1>9. CASE ~ok  BY <1>1, <1>2, <1>5, <1>7, <1>9, FailedParty
<1>10. CASE ok
  <2>1. pc' = next /\ req' = r(ok)  BY <1>1, <1>2, <1>5, <1>7, <1>10, AdvanceType
  <2>2. req'.oid \in SafeOrder => Own(req'.sid, req'.oid)
    BY <1>3, <1>5, <1>10, <2>1 DEF PartyInv, HeldAreOwn
  <2>3. Reporter'
    BY <1>8, <2>2 DEF Reporter, Own, Full, Parties, GetOrderid, dataVars
  <2> QED  BY <1>5, <1>6, <2>1, <2>3 DEF LocalParty, Namer, Fresh
<1> QED  BY <1>9, <1>10

LEMMA ReportParty ==
    ASSUME PartyInv, PartiesKept, RowsKept,
           \/ LocationRequest \/ ExistSessionid \/ TouchSession \/ RemGeo \/ AddToPool
           \/ StartorderReal \/ SetDtempLocation \/ SetPtempLocation
    PROVE  LocalParty'
<1>1. CASE LocationRequest
  <2>1. req'.oid = Empty /\ pc' = "exist"  BY <1>1 DEF LocationRequest, NoReq
  <2> QED  BY <2>1, KeysDiffer, NoParty
<1>2. ASSUME pc \in ReportSteps  PROVE req.op = "locationChanged" /\ req \in Request
  BY <1>2 DEF PartyInv, OrderInv, TypeInv, TypeOK, WebTypeOK, LocalsFor
<1>3. CASE ExistSessionid
  <2>1. req.op = "locationChanged" /\ req \in Request
    BY <1>2, <1>3 DEF ExistSessionid, ReportSteps
  <2> DEFINE r(ok) == [req EXCEPT !.recode = IF ok THEN "0" ELSE "2"]
  <2>2. PICK ok \in Results(Exists(req.sid)) : Advance(r(ok), ok, "touch")
    BY <1>3 DEF ExistSessionid
  <2>3. ok \in BOOLEAN  BY ResultsAreBoolean DEF Exists
  <2>4. /\ r(ok) \in Request /\ r(ok).op = req.op /\ r(ok).sid = req.sid
        /\ r(ok).oid = req.oid /\ "touch" \in Steps
    BY <2>1 DEF Request, Steps
  <2> HIDE DEF r
  <2>5. CASE ok
    <3>1. pc' = "touch" /\ req' = r(ok)  BY <2>2, <2>3, <2>4, <2>5, AdvanceType
    <3> QED  BY <2>1, <2>4, <3>1, ReportGoesOnParty
  <2>6. CASE ~ok  BY <2>2, <2>3, <2>4, <2>6, FailedParty
  <2> QED  BY <2>5, <2>6
<1>4. CASE TouchSession
  <2>1. req.op = "locationChanged" /\ req \in Request /\ "get_orderid" \in Steps
    BY <1>2, <1>4 DEF TouchSession, ReportSteps, Steps
  <2>2. PICK ok \in Results(Exists(req.sid)) : Advance(req, ok, "get_orderid")
    BY <1>4 DEF TouchSession
  <2>3. ok \in BOOLEAN  BY ResultsAreBoolean DEF Exists
  <2>4. CASE ok
    <3>1. pc' = "get_orderid" /\ req' = req  BY <2>1, <2>2, <2>3, <2>4, AdvanceType
    <3> QED  BY <2>1, <3>1, ReportGoesOnParty
  <2>5. CASE ~ok  BY <2>1, <2>2, <2>3, <2>5, FailedParty
  <2> QED  BY <2>4, <2>5
<1>5. CASE RemGeo \/ AddToPool \/ StartorderReal \/ SetDtempLocation \/ SetPtempLocation
  <2>1. req.op = "locationChanged" /\ req \in Request
    BY <1>2, <1>5 DEF RemGeo, AddToPool, StartorderReal, SetDtempLocation, SetPtempLocation,
       ReportSteps
  <2>2. req'.op = req.op /\ req'.oid = req.oid /\ req'.sid = req.sid
    BY <1>5, <2>1 DEF RemGeo, AddToPool, StartorderReal, SetDtempLocation, SetPtempLocation,
       Proceed, Request
  <2>3. pc' \in {"start_real", "set_dtemp", "add_geo", "reply"}
    BY <1>5 DEF RemGeo, AddToPool, StartorderReal, SetDtempLocation, SetPtempLocation,
       Proceed, AfterRemGeo
  <2> QED  BY <2>1, <2>2, <2>3, ReportGoesOnParty
<1> QED  BY <1>1, <1>3, <1>4, <1>5

\* A client posts an order it was told of, or none.
LEMMA FinishRequestParty ==
    ASSUME PartyInv, FinishRequest  PROVE LocalParty'
<1>1. PICK o \in told \cup NoOrder : req' = [NoReq EXCEPT !.op = "finishOrder", !.oid = o]
  BY DEF FinishRequest
<1>2. req'.op = "finishOrder" /\ req'.oid = o  BY <1>1 DEF NoReq
<1>3. o \in OrderId => o \in told  BY KeysDiffer, Bounds
<1>4. UNCHANGED hash /\ UNCHANGED orderTable /\ pc' = "get_order"
  BY DEF FinishRequest, dataVars
<1> QED
  BY <1>2, <1>3, <1>4
     DEF PartyInv, ToldAreFull, Full, LocalParty, Reporter, Namer, Fresh, SafeOrder

\* The names finish_order_cb reads are those its sessions were created for.
LEMMA NamesParty ==
    ASSUME PartyInv, GetUsernamePassenger \/ GetUsernameDriver
    PROVE  LocalParty'
<1>1. /\ req \in Request /\ req.op = "finishOrder"
      /\ UNCHANGED hash /\ UNCHANGED orderTable /\ UNCHANGED owner
      /\ hash \in [Key -> Hash]
  BY DEF PartyInv, OrderInv, TypeInv, TypeOK, DataTypeOK, WebTypeOK, LocalsFor,
     GetUsernamePassenger, GetUsernameDriver, dataVars, history
<1>2. \A k \in SessionId : hash[k].username \in {owner[k], Empty}
  BY DEF PartyInv, SessionInv, SessionIsRegistered
<1>3. "d_name" \in Steps /\ "insert" \in Steps  BY DEF Steps
<1>4. req.oid \in SafeOrder => Full(req.oid) \/ orderTable[req.oid] # NoRow
  BY <1>1 DEF PartyInv, LocalParty, Namer
<1>5. CASE GetUsernamePassenger
  <2> DEFINE named == [req EXCEPT !.row.passenger_username = hash[req.passenger].username]
             r(ok) == IF ok THEN named ELSE req
  <2>1. PICK ok \in Results(TRUE) : Advance(r(ok), ok, "d_name")
    BY <1>5 DEF GetUsernamePassenger
  <2>2. ok \in BOOLEAN  BY ResultsAreBoolean
  <2>3. hash[req.passenger].username \in User \cup {Empty}
    BY <1>1 DEF Request, Key, OrderKey, SessionId, Hash
  <2>4. /\ named \in Request /\ named.op = "finishOrder" /\ named.oid = req.oid
        /\ named.passenger = req.passenger
        /\ named.row.passenger_username = hash[req.passenger].username
    BY <1>1, <2>3 DEF Request, Row
  <2> HIDE DEF named
  <2>5. r(ok) \in Request  BY <1>1, <2>4
  <2>6. CASE ok
    <3>1. pc' = "d_name" /\ req' = named
      BY <1>3, <2>1, <2>2, <2>5, <2>6, AdvanceType
    <3>2. req.passenger \in PassengerSid =>
              hash[req.passenger].username \in {owner[req.passenger], Empty}
      BY <1>2, KeysDiffer
    <3> QED
      BY <1>1, <1>4, <2>4, <3>1, <3>2 DEF LocalParty, Reporter, Namer, Fresh, Full
  <2>7. CASE ~ok  BY <1>3, <2>1, <2>2, <2>5, <2>7, FailedParty
  <2> QED  BY <2>6, <2>7
<1>6. CASE GetUsernameDriver
  <2> DEFINE named == [req EXCEPT !.row.driver_username = hash[req.driver].username]
             r(ok) == IF ok THEN named ELSE req
  <2>1. PICK ok \in Results(TRUE) : Advance(r(ok), ok, "insert")
    BY <1>6 DEF GetUsernameDriver
  <2>2. ok \in BOOLEAN  BY ResultsAreBoolean
  <2>3. hash[req.driver].username \in User \cup {Empty}
    BY <1>1 DEF Request, Key, OrderKey, SessionId, Hash
  <2>4. /\ named \in Request /\ named.op = "finishOrder" /\ named.oid = req.oid
        /\ named.passenger = req.passenger /\ named.driver = req.driver
        /\ named.row.driver_username = hash[req.driver].username
        /\ named.row.passenger_username = req.row.passenger_username
    BY <1>1, <2>3 DEF Request, Row
  <2> HIDE DEF named
  <2>5. r(ok) \in Request  BY <1>1, <2>4
  <2>6. CASE ok
    <3>1. pc' = "insert" /\ req' = named
      BY <1>3, <2>1, <2>2, <2>5, <2>6, AdvanceType
    <3>2. req.driver \in DriverSid =>
              hash[req.driver].username \in {owner[req.driver], Empty}
      BY <1>2, KeysDiffer
    <3>3. pc = "d_name"  BY <1>6 DEF GetUsernameDriver
    <3>4. req.oid \in SafeOrder /\ req.passenger \in PassengerSid =>
              req.row.passenger_username \in {owner[req.passenger], Empty}
      BY <1>1, <3>3 DEF PartyInv, LocalParty, Namer
    <3> QED
      BY <1>1, <1>4, <2>4, <3>1, <3>2, <3>4 DEF LocalParty, Reporter, Namer, Fresh, Full
  <2>7. CASE ~ok  BY <1>3, <2>1, <2>2, <2>5, <2>7, FailedParty
  <2> QED  BY <2>6, <2>7
<1> QED  BY <1>5, <1>6

\* The other calls of finish_order_cb.
LEMMA FinishParty ==
    ASSUME PartyInv, PartiesKept, RowsKept,
           GetOrderd \/ DataserverCreateOrder \/ ReleaseDriver \/ ReleasePassenger
    PROVE  LocalParty'
<1>1. req \in Request /\ req.op = "finishOrder"
  BY DEF PartyInv, OrderInv, TypeInv, TypeOK, WebTypeOK, LocalsFor, GetOrderd,
     DataserverCreateOrder, ReleaseDriver, ReleasePassenger
<1>2. PICK r : /\ r.op = "finishOrder" /\ r.oid = req.oid
               /\ \E ok, next : /\ Advance(r, ok, next)
                               /\ next \in {"p_name", "d_none", "p_none", "delete"}
  <2>1. CASE GetOrderd
    <3> DEFINE r(ok) ==
          IF ok
          THEN [req EXCEPT
                  !.passenger = hash[req.oid].passenger_sessionid,
                  !.driver = hash[req.oid].driver_sessionid,
                  !.row.start_order_time = hash[req.oid].start_order_time]
          ELSE req
    <3>1. PICK ok : Advance(r(ok), ok, "p_name")  BY <2>1 DEF GetOrderd
    <3>2. r(ok).op = "finishOrder" /\ r(ok).oid = req.oid  BY <1>1 DEF Request
    <3> HIDE DEF r
    <3> QED  BY <3>1, <3>2
  <2>2. CASE DataserverCreateOrder \/ ReleaseDriver \/ ReleasePassenger
    BY <1>1, <2>2 DEF DataserverCreateOrder, ReleaseDriver, ReleasePassenger
  <2> QED  BY <2>1, <2>2
<1>3. PICK ok, next : /\ Advance(r, ok, next)
                      /\ next \in {"p_name", "d_none", "p_none", "delete"}
  BY <1>2
<1>4. req'.op = "finishOrder" /\ pc' \in {"p_name", "d_none", "p_none", "delete", "reply"}
  BY <1>2, <1>3, AdvanceOp
<1>5. req'.oid \in OrderId => req'.oid = req.oid
  BY <1>2, <1>3, KeysDiffer DEF Advance, NoReq
<1> QED  BY <1>1, <1>4, <1>5, FinishGoesOnParty

-----------------------------------------------------------------------------
(* The steps that write an order's parties, give it to a session, or tell of it *)

\* A new order is not held and not told of, whatever its writing leaves.
LEMMA CreateOrderFull ==
    ASSUME PartyInv, RowsKept, CacheserverCreateOrder
    PROVE  HeldAreOwn' /\ ToldAreFull'
<1>1. PICK o \in OrderId \ orders : \E h : hash' = [hash EXCEPT ![o] = h]
  BY DEF CacheserverCreateOrder, SetHash
<1>2. hash[o] = Blank /\ orderTable[o] = NoRow /\ told \subseteq orders
  BY DEF PartyInv, OrderInv, DataInv, UnusedOrders
<1>3. \A q \in OrderId : q # o => hash'[q] = hash[q]
  BY <1>1 DEF PartyInv, OrderInv, TypeInv, TypeOK, DataTypeOK, Key, OrderKey
<1>4. HeldAreOwn'
  <2> SUFFICES ASSUME NEW s \in SessionId, NEW q \in SafeOrder, hash'[s].orderid = q
               PROVE  Own(s, q)'
    BY DEF HeldAreOwn
  <2>1. q \in OrderId /\ hash[s].orderid = q
    BY OrderStepsAssignNothing, KeysDiffer
       DEF OrderSteps, NothingAssigned, PartyInv, SafeOrder
  <2>2. Own(s, q)  BY <2>1 DEF PartyInv, HeldAreOwn
  <2>3. q # o  BY <1>2, <2>2, KeysDiffer DEF Own, Full, Blank
  <2> QED  BY <1>3, <2>1, <2>2, <2>3 DEF Own, Full, Parties, RowsKept
<1>5. ToldAreFull'
  <2>1. UNCHANGED told /\ told \subseteq OrderId
    BY DEF CacheserverCreateOrder, PartyInv, OrderInv, TypeInv, TypeOK, WebTypeOK
  <2> QED  BY <1>1, <1>2, <1>3, <2>1 DEF PartyInv, ToldAreFull, Full, RowsKept
<1> QED  BY <1>4, <1>5

\* An order that is deleted is held by nobody, and has its row.
LEMMA DeleteOrderFull ==
    ASSUME PartyInv, OrderInv', RowsKept, DeleteOrder
    PROVE  HeldAreOwn' /\ ToldAreFull' /\ LocalParty'
<1>1. /\ req \in Request /\ req.op = "finishOrder"
      /\ req' = req /\ pc' = "reply" /\ UNCHANGED told
      /\ told \subseteq OrderId /\ hash \in [Key -> Hash]
  BY DEF DeleteOrder, Proceed, history, PartyInv, OrderInv, TypeInv, TypeOK, DataTypeOK,
     WebTypeOK, LocalsFor
<1>2. hash' = hash \/ hash' = [hash EXCEPT ![req.oid] = Blank]
  BY DEF DeleteOrder, DeleteKey, Remove, dataVars
<1>3. \A q \in OrderId : hash'[q] # hash[q] => q = req.oid /\ hash'[q] = Blank
  BY <1>1, <1>2 DEF Key, OrderKey
<1>4. req.oid \in OrderId => orderTable'[req.oid] # NoRow
  BY <1>1 DEF DeleteOrder, PartyInv, OrderInv, HandlerInv, Finishing, RowsKept
<1>5. HeldAreOwn'
  <2> SUFFICES ASSUME NEW s \in SessionId, NEW q \in SafeOrder, hash'[s].orderid = q
               PROVE  Own(s, q)'
    BY DEF HeldAreOwn
  <2>1. q \in OrderId /\ hash[s].orderid = q
    BY OrderStepsAssignNothing, KeysDiffer
       DEF OrderSteps, NothingAssigned, PartyInv, SafeOrder
  <2>2. Own(s, q)  BY <2>1 DEF PartyInv, HeldAreOwn
  <2>3. CASE hash'[q] = hash[q]
    BY <2>1, <2>2, <2>3 DEF Own, Full, Parties, RowsKept
  <2>4. CASE hash'[q] # hash[q]
    <3>1. hash'[q] = Blank /\ orderTable'[q] # NoRow  BY <1>3, <1>4, <2>1, <2>4
    <3>2. s \notin Parties(q)'  BY <3>1, KeysDiffer DEF Parties, Blank
    <3>3. s \in Refused  BY <3>2 DEF OrderInv, DataInv, NoDanglingOrder, SafeSession
    <3> QED  BY <3>1, <3>3 DEF Own
  <2> QED  BY <2>3, <2>4
<1>6. ToldAreFull'
  BY <1>1, <1>3, <1>4 DEF PartyInv, ToldAreFull, Full, RowsKept
<1>7. LocalParty'
  BY <1>1, <1>4 DEF LocalParty, Reporter, Namer, Fresh, SafeOrder
<1> QED  BY <1>5, <1>6, <1>7

\* What set_orderid leaves a session with.
LEMMA AssignWrites ==
    ASSUME OrderInv, NEW k \in SessionId, NEW o, NEW ok,
           SetHash(k, {}, [hash[k] EXCEPT !.orderid = o], ok)
    PROVE  \E h : hash' = [hash EXCEPT ![k] = h] /\ h.orderid \in {hash[k].orderid, o}
<1> DEFINE full == [hash[k] EXCEPT !.orderid = o]
<1>1. hash[k] \in Hash  BY DEF OrderInv, TypeInv, TypeOK, DataTypeOK, Key
<1>2. full.orderid = o  BY <1>1 DEF Hash
<1> HIDE DEF full
<1>3. \A h \in Mixed(hash[k], full) : h.orderid \in {hash[k].orderid, full.orderid}
  BY MixedFields
<1>4. SetHash(k, {}, full, ok)  BY DEF full
<1> QED  BY <1>2, <1>3, <1>4, SetHashWrites

\* set_order_cb gives its order to the sessions it has written into it.
LEMMA AssignedAreFull ==
    ASSUME PartyInv, PartiesKept, RowsKept, SetOrderidDriver \/ SetOrderidPassenger
    PROVE  HeldAreOwn'
<1>1. /\ req.oid \in SafeOrder =>
            /\ Full(req.oid)
            /\ req.driver \in Parties(req.oid) /\ req.passenger \in Parties(req.oid)
      /\ req.driver \in SessionId /\ req.passenger \in SessionId
      /\ hash \in [Key -> Hash] /\ SessionId \subseteq Key
  BY KeysDiffer DEF SetOrderidDriver, SetOrderidPassenger, PartyInv, OrderInv, HandlerInv,
     Assigning, Full, Parties, TypeInv, TypeOK, DataTypeOK, Key
<1>2. PICK k \in {req.driver, req.passenger} : \E ok :
          SetHash(k, {}, [hash[k] EXCEPT !.orderid = req.oid], ok)
  BY DEF SetOrderidDriver, SetOrderidPassenger
<1>3. PICK h : /\ hash' = [hash EXCEPT ![k] = h]
               /\ h.orderid \in {hash[k].orderid, req.oid}
  BY <1>1, <1>2, AssignWrites DEF PartyInv
<1> SUFFICES ASSUME NEW s \in SessionId, NEW q \in SafeOrder, hash'[s].orderid = q
             PROVE  Own(s, q)'
  BY DEF HeldAreOwn
<1>4. hash[s].orderid = q \/ (s = k /\ q = req.oid)  BY <1>1, <1>3
<1>5. Own(s, q)  BY <1>1, <1>2, <1>4 DEF PartyInv, HeldAreOwn, Own
<1> QED  BY <1>5, OwnByStep DEF SafeOrder

\* A client is told of the order its report has read.
LEMMA ReplyParty ==
    ASSUME PartyInv, Reply  PROVE ToldAreFull' /\ LocalParty'
<1>1. UNCHANGED hash /\ UNCHANGED orderTable  BY DEF Reply, dataVars
<1>2. \A o \in told' : \/ o \in told
                       \/ o = req.oid /\ o \in OrderId /\ req.op = "locationChanged"
  BY DEF Reply
<1>3. ToldAreFull'
  BY <1>1, <1>2 DEF PartyInv, ToldAreFull, LocalParty, Reporter, Own, Full
<1>4. LocalParty'  BY NoParty DEF Reply, NoReq
<1> QED  BY <1>3, <1>4

\* A deadline passes, or the server is killed.
LEMMA EnvironmentParty ==
    ASSUME PartyInv, PartiesKept, SessionExpires \/ Restart  PROVE LocalParty'
<1>1. CASE Restart  BY <1>1, NoParty DEF Restart, NoReq
<1>2. CASE SessionExpires
  <2>1. UNCHANGED <<pc, req, orderTable, owner>>
    BY <1>2 DEF SessionExpires, Expire, Remove, webVars, history
  <2>2. Reporter' /\ Fresh'
    BY <2>1 DEF PartyInv, LocalParty, Reporter, Fresh, Own, Full, Parties, PartiesKept, SafeOrder
  <2>3. Namer'  BY <2>1 DEF PartyInv, LocalParty, Namer, Full, PartiesKept, SafeOrder
  <2> QED  BY <2>2, <2>3 DEF LocalParty
<1> QED  BY <1>1, <1>2

-----------------------------------------------------------------------------
(* The invariant *)

LEMMA LocalPartyStep ==
    ASSUME PartyInv, OrderInv', [Next]_vars  PROVE LocalParty'
<1>1. RowsKept  BY RowsByStep DEF PartyInv
<1>2. CASE CacheserverCreateOrder  BY <1>2, AssignParty
<1>3. CASE DeleteOrder  BY <1>1, <1>3, DeleteOrderFull
<1>4. CASE UNCHANGED vars
  BY <1>4 DEF vars, PartyInv, LocalParty, Reporter, Namer, Fresh, Own, Full, Parties
<1>5. CASE Next /\ ~CacheserverCreateOrder /\ ~DeleteOrder
  <2>1. PartiesKept  BY <1>5, PartiesByStep DEF PartyInv
  <2>2. CASE ClientRequest
    BY <1>1, <2>1, <2>2, AuthParty, AssignParty, ReportParty, FinishRequestParty
       DEF ClientRequest, PartyInv
  <2>3. CASE ServerStep
    BY <1>1, <1>5, <2>1, <2>3, AuthParty, AssignParty, GetOrderidParty, ReportParty,
       NamesParty, FinishParty, ReplyParty DEF ServerStep, PartyInv
  <2> QED  BY <1>5, <2>1, <2>2, <2>3, EnvironmentParty DEF Next
<1> QED  BY <1>2, <1>3, <1>4, <1>5

LEMMA FullStep ==
    ASSUME PartyInv, OrderInv', [Next]_vars  PROVE HeldAreOwn' /\ ToldAreFull'
<1>1. RowsKept  BY RowsByStep DEF PartyInv
<1>2. CASE CacheserverCreateOrder  BY <1>1, <1>2, CreateOrderFull
<1>3. CASE DeleteOrder  BY <1>1, <1>3, DeleteOrderFull
<1>4. CASE ~CacheserverCreateOrder /\ ~DeleteOrder
  <2>1. PartiesKept  BY <1>4, PartiesByStep DEF PartyInv
  <2>2. HeldAreOwn'
    BY <1>1, <2>1, AssignsByStep, HeldByStep, AssignedAreFull DEF PartyInv
  <2>3. CASE Reply  BY <2>2, <2>3, ReplyParty
  <2>4. CASE ~Reply
    <3>1. UNCHANGED told
      BY <1>4, <2>4 DEF Next, vars, ClientRequest, LoginRequest, RegRequest, AuthRequest,
         OrderRequest, LocationRequest, FinishRequest, ServerStep, DataserverLogin,
         DataserverReg, CacheserverSession, CacheserverLifecycle, CacheserverRadiusGeo,
         SetOrderidDriver, SetOrderidPassenger, ExistSessionid, TouchSession, GetOrderid,
         RemGeo, AddToPool, StartorderReal, SetDtempLocation, SetPtempLocation, GetOrderd,
         GetUsernamePassenger, GetUsernameDriver, DataserverCreateOrder, ReleaseDriver,
         ReleasePassenger, SessionExpires, Restart, history
    <3> QED  BY <1>1, <2>1, <2>2, <3>1, ToldByStep
  <2> QED  BY <2>3, <2>4
<1> QED  BY <1>2, <1>3, <1>4

LEMMA PartyInit == Init => PartyInv
<1> SUFFICES ASSUME Init  PROVE PartyInv
  OBVIOUS
<1>1. OrderInv /\ SessionInv  BY OrderInit, SessionInit
<1>2. \A s \in SessionId : hash[s].orderid = Empty
  BY DEF Init, DataInit, Blank, Key
<1>3. HeldAreOwn /\ ToldAreFull
  BY <1>2, KeysDiffer DEF HeldAreOwn, ToldAreFull, Init, SafeOrder
<1>4. LocalParty  BY DEF Init, NoReq, LocalParty, Reporter, Namer, Fresh
<1> QED  BY <1>1, <1>3, <1>4 DEF PartyInv

LEMMA PartyStep == PartyInv /\ [Next]_vars => PartyInv'
<1> SUFFICES ASSUME PartyInv, [Next]_vars  PROVE PartyInv'
  OBVIOUS
<1>1. OrderInv' /\ SessionInv'  BY OrderStep, SessionStep DEF PartyInv
<1> QED  BY <1>1, FullStep, LocalPartyStep DEF PartyInv

LEMMA PartyInvHolds == Spec => []PartyInv
BY PartyInit, PartyStep, PTL DEF Spec

-----------------------------------------------------------------------------
(* The theorems                                                            *)

\* Only a report's own writes give an order a position, and only to its order.
LEMMA PositionsByStep ==
    ASSUME OrderInv, [Next]_vars, NEW o \in OrderId,
           hash'[o].position \notin {hash[o].position, Empty}
    PROVE  o = req.oid /\ (SetDtempLocation \/ SetPtempLocation)
<1>1. /\ ~SameOrders /\ ~UNCHANGED hash /\ hash \in [Key -> Hash] /\ OrderId \subseteq Key
  BY DEF SameOrders, OrderInv, TypeInv, TypeOK, DataTypeOK, Key, OrderKey
<1>2. OrderSteps
  BY <1>1, AllSteps, ReadStepsRead, SessionStepsSame DEF vars
<1>3. ~CacheserverCreateOrder
  <2> SUFFICES ASSUME CacheserverCreateOrder  PROVE FALSE
    OBVIOUS
  <2> DEFINE init(q)   == [hash[q] EXCEPT !.order_status = "INIT"]
             withP(q)  == [init(q) EXCEPT !.passenger_sessionid = req.passenger]
             withPD(q) == [withP(q) EXCEPT !.driver_sessionid = req.driver]
  <2>1. PICK q \in OrderId : \E ok : SetHash(q, {init(q), withP(q)}, withPD(q), ok)
    BY DEF CacheserverCreateOrder
  <2>2. /\ init(q).position = hash[q].position /\ withP(q).position = hash[q].position
        /\ withPD(q).position = hash[q].position
    BY <1>1 DEF Hash
  <2> HIDE DEF init, withP, withPD
  <2>3. \A h \in Mixed(hash[q], withPD(q)) :
            h.position \in {hash[q].position, withPD(q).position}
    BY MixedFields
  <2>4. PICK h : hash' = [hash EXCEPT ![q] = h] /\ h.position = hash[q].position
    BY <2>1, <2>2, <2>3, SetHashWrites
  <2> QED  BY <1>1, <2>4
<1>4. ~DeleteOrder
  BY <1>1 DEF DeleteOrder, DeleteKey, Remove, Blank, dataVars
<1>5. PICK h : /\ hash' = [hash EXCEPT ![req.oid] = h]
               /\ StartorderReal => h.position = hash[req.oid].position
  <2>1. req.oid \in Key  BY DEF OrderInv, TypeInv, TypeOK, WebTypeOK, Request, Key
  <2>2. [hash[req.oid] EXCEPT !.order_status = "ACTIVE"].position = hash[req.oid].position
    BY <1>1, <2>1 DEF Hash
  <2> QED  BY <1>2, <1>3, <1>4, <2>2, ReportWrites DEF OrderSteps
<1> QED  BY <1>1, <1>2, <1>3, <1>4, <1>5 DEF OrderSteps

\* A position is written into an order only for one of its own two sessions
\* (location_changed.c:118,125,136), whatever fails between the calls, if Redis
\* refuses no write at the order and at the session of the report.
THEOREM PositionsAreOwn == Spec => OwnPosition
<1>1. PartyInv /\ [Next]_vars =>
        [\A o \in SafeOrder :
            hash'[o].position \notin {hash[o].position, Empty} /\ req.sid \notin Refused
               => req.sid \in Parties(o)]_vars
  <2> SUFFICES ASSUME PartyInv, [Next]_vars, NEW o \in SafeOrder,
                      hash'[o].position \notin {hash[o].position, Empty},
                      req.sid \notin Refused
               PROVE  req.sid \in Parties(o)
    OBVIOUS
  <2>1. o = req.oid /\ (SetDtempLocation \/ SetPtempLocation)
    BY PositionsByStep DEF PartyInv, SafeOrder
  <2>2. req.op = "locationChanged"
    BY <2>1 DEF SetDtempLocation, SetPtempLocation, PartyInv, OrderInv, TypeInv, LocalsFor
  <2> QED  BY <2>1, <2>2 DEF PartyInv, LocalParty, Reporter, Own
<1> QED  BY <1>1, PartyInvHolds, PTL DEF Spec, OwnPosition

\* A row names the users of its order's sessions, or nobody (finish_order.c:83,86),
\* if Redis refuses no write at the order.
THEOREM NamesAreRight == Spec => RightNames
<1> DEFINE Named(o) == \E p \in PassengerSid, d \in DriverSid :
                         /\ Parties(o) = {p, d}
                         /\ orderTable'[o].passenger_username \in {owner[p], Empty}
                         /\ orderTable'[o].driver_username \in {owner[d], Empty}
<1>1. PartyInv /\ [Next]_vars =>
        [\A o \in SafeOrder : orderTable'[o] # orderTable[o] => Named(o)]_vars
  <2> SUFFICES ASSUME PartyInv, [Next]_vars, NEW o \in SafeOrder,
                      orderTable'[o] # orderTable[o]
               PROVE  Named(o)
    OBVIOUS
  <2>1. DataserverCreateOrder  BY RowsWritten DEF PartyInv
  <2>2. /\ pc = "insert" /\ req.op = "finishOrder"
        /\ orderTable \in [OrderKey -> Row \cup {NoRow}]
    BY <2>1 DEF DataserverCreateOrder, PartyInv, OrderInv, TypeInv, TypeOK, DataTypeOK,
       LocalsFor
  <2>3. o = req.oid /\ orderTable[o] = NoRow /\ orderTable'[o] = req.row
    BY <2>1, <2>2 DEF DataserverCreateOrder, InsertOrder, dataVars, OrderKey, SafeOrder
  <2>4. /\ hash[o].passenger_sessionid = req.passenger
        /\ hash[o].driver_sessionid = req.driver
    BY <2>2, <2>3 DEF PartyInv, OrderInv, HandlerInv, Finishing, SafeOrder
  <2>5. /\ req.passenger \in PassengerSid /\ req.driver \in DriverSid
        /\ req.row.passenger_username \in {owner[req.passenger], Empty}
        /\ req.row.driver_username \in {owner[req.driver], Empty}
    BY <2>2, <2>3, <2>4 DEF PartyInv, LocalParty, Namer, Full
  <2> QED  BY <2>3, <2>4, <2>5 DEF Parties
<1> QED  BY <1>1, PartyInvHolds, PTL DEF Spec, RightNames

-----------------------------------------------------------------------------
(* The refinement of the order book *)

BookStep == [Book!Next]_(Book!bookVars)

\* What the order book sees of an order and of a session.
SameStages == \A o \in SafeOrder : Stage(o)' = Stage(o)
SameParties == \A o \in SafeOrder : Parties(o)' = Parties(o)
SameHeld == \A s \in SessionId : Held(s)' = Held(s)

\* A step that changes nothing of what the book sees is none of its steps.
LEMMA NotInBook ==
    ASSUME SameStages, SameParties, SameHeld  PROVE BookStep
<1>1. [o \in SafeOrder |-> Stage(o)'] = [o \in SafeOrder |-> Stage(o)]  BY DEF SameStages
<1>2. [o \in SafeOrder |-> Parties(o)' \ {Empty}] = [o \in SafeOrder |-> Parties(o) \ {Empty}]
  BY DEF SameParties
<1>3. [s \in SessionId |-> Held(s)'] = [s \in SessionId |-> Held(s)]  BY DEF SameHeld
<1> QED  BY <1>1, <1>2, <1>3 DEF BookStep, Book!bookVars

\* The orders look the same when neither their hashes nor their rows change.
LEMMA OrdersUnseen ==
    ASSUME SameOrders, UNCHANGED orderTable  PROVE SameStages /\ SameParties
BY DEF SameOrders, SameStages, SameParties, Stage, Parties, Exists, SafeOrder

LEMMA SameHashHeld ==
    ASSUME \A s \in SessionId : hash'[s].orderid = hash[s].orderid  PROVE SameHeld
BY DEF SameHeld, Held

\* What is written into an order, or removed with it, is held as before.
LEMMA OrderWriteHeld ==
    ASSUME OrderInv, NEW k \in OrderKey, NEW h, hash' = [hash EXCEPT ![k] = h]
    PROVE  SameHeld
<1>1. k \notin SessionId  BY OrdersAreNoSessions
<1>2. hash \in [Key -> Hash] /\ SessionId \subseteq Key
  BY DEF OrderInv, TypeInv, TypeOK, DataTypeOK, Key
<1> QED  BY <1>1, <1>2, SameHashHeld

-----------------------------------------------------------------------------
(* The steps of the order book *)

\* A session that loses its order, or is given one the book does not have,
\* releases it.
LEMMA OneLessInBook ==
    ASSUME SameStages, SameParties, NEW k,
           \A s \in SessionId : s # k => Held(s)' = Held(s),
           k \in SessionId => Held(k)' \in {Held(k), None}
    PROVE  BookStep
<1>1. CASE SameHeld  BY <1>1, NotInBook
<1>2. CASE ~SameHeld
  <2>1. k \in SessionId /\ Held(k)' = None  BY <1>2 DEF SameHeld
  <2>2. [s \in SessionId |-> Held(s)'] = [[s \in SessionId |-> Held(s)] EXCEPT ![k] = None]
    BY <2>1
  <2>3. [o \in SafeOrder |-> Stage(o)'] = [o \in SafeOrder |-> Stage(o)]
    BY DEF SameStages
  <2>4. [o \in SafeOrder |-> Parties(o)' \ {Empty}] = [o \in SafeOrder |-> Parties(o) \ {Empty}]
    BY DEF SameParties
  <2>5. Book!Release(k)  BY <2>2, <2>3, <2>4 DEF Book!Release
  <2> QED  BY <2>1, <2>5 DEF BookStep, Book!Next, Book!SessionId, SessionId
<1> QED  BY <1>1, <1>2

LEMMA ReleaseInBook ==
    ASSUME OrderInv, SameOrders, UNCHANGED orderTable, NothingAssigned,
           NEW k, NEW h, hash' = [hash EXCEPT ![k] = h]
    PROVE  BookStep
<1>1. SameStages /\ SameParties  BY OrdersUnseen
<1>2. hash \in [Key -> Hash] /\ SessionId \subseteq Key
  BY DEF OrderInv, TypeInv, TypeOK, DataTypeOK, Key
<1>3. \A s \in SessionId : s # k => Held(s)' = Held(s)  BY <1>2 DEF Held
<1>4. \A s \in SessionId : Held(s)' \in {Held(s), None}
  BY KeysDiffer DEF NothingAssigned, Held, SafeOrder
<1> QED  BY <1>1, <1>3, <1>4, OneLessInBook

\* A handler, or a deadline, that writes or removes one session.
LEMMA SessionStepsWriteOne ==
    ASSUME OrderInv, SessionSteps
    PROVE  hash' = hash \/ \E k, h : hash' = [hash EXCEPT ![k] = h]
<1>1. CASE CacheserverSession  BY <1>1 DEF CacheserverSession, SetHash
<1>2. CASE CacheserverLifecycle \/ TouchSession
  BY <1>2 DEF CacheserverLifecycle, TouchSession, SetLifecycle, Remove, dataVars
<1>3. CASE SetOrderidDriver \/ SetOrderidPassenger \/ ReleaseDriver \/ ReleasePassenger
  BY <1>3 DEF SetOrderidDriver, SetOrderidPassenger, ReleaseDriver, ReleasePassenger, SetHash
<1>4. CASE SessionExpires  BY <1>4 DEF SessionExpires, Expire, Remove
<1> QED  BY <1>1, <1>2, <1>3, <1>4 DEF SessionSteps

LEMMA SessionInBook ==
    ASSUME OrderInv, SessionSteps, ~SetOrderidDriver, ~SetOrderidPassenger,
           UNCHANGED orderTable
    PROVE  BookStep
<1>1. SameOrders  BY SessionStepsSame
<1>2. NothingAssigned  BY SessionStepsAssignNothing
<1>3. CASE hash' = hash
  BY <1>1, <1>3, OrdersUnseen, SameHashHeld, NotInBook
<1>4. CASE \E k, h : hash' = [hash EXCEPT ![k] = h]
  BY <1>1, <1>2, <1>4, ReleaseInBook
<1> QED  BY <1>3, <1>4, SessionStepsWriteOne

\* Both set_orderid of set_order_cb assign the open order to one of its parties.
LEMMA AssignInBook ==
    ASSUME PartyInv, UNCHANGED orderTable, SetOrderidDriver \/ SetOrderidPassenger
    PROVE  BookStep
<1>1. /\ req.oid \in OrderId /\ hash \in [Key -> Hash] /\ SessionId \subseteq Key
      /\ req.driver \in DriverSid /\ req.passenger \in PassengerSid
      /\ req.oid \in SafeOrder => Parties(req.oid) = {req.driver, req.passenger}
      /\ orderTable[req.oid] = NoRow
  BY DEF SetOrderidDriver, SetOrderidPassenger, PartyInv, OrderInv, HandlerInv, Parties,
     Assigning, AssignSteps, TypeInv, TypeOK, DataTypeOK, LocalParty, Fresh, Key
<1>2. PICK k \in {req.driver, req.passenger} : \E ok :
          SetHash(k, {}, [hash[k] EXCEPT !.orderid = req.oid], ok)
  BY DEF SetOrderidDriver, SetOrderidPassenger
<1>3. k \in SessionId /\ k \in Key  BY <1>1, <1>2, KeysDiffer
<1>4. PICK h : /\ hash' = [hash EXCEPT ![k] = h]
               /\ h.orderid \in {hash[k].orderid, req.oid}
  BY <1>2, <1>3, AssignWrites DEF PartyInv
<1>5. SameStages /\ SameParties
  <2>1. SameOrders  BY <1>3, <1>4, KeysDiffer, OtherKeySame DEF PartyInv
  <2> QED  BY <2>1, OrdersUnseen
<1>6. \A s \in SessionId : s # k => Held(s)' = Held(s)  BY <1>1, <1>4 DEF Held
<1>7. hash'[k].orderid \in {hash[k].orderid, req.oid}  BY <1>1, <1>3, <1>4
<1>8. CASE Held(k)' \in {Held(k), None}  BY <1>5, <1>6, <1>8, OneLessInBook
<1>9. CASE Held(k)' \notin {Held(k), None}
  <2>1. k \in SafeSession /\ req.oid \in SafeOrder /\ Held(k)' = req.oid
    BY <1>7, <1>9 DEF Held
  <2>2. [s \in SessionId |-> Held(s)'] = [[s \in SessionId |-> Held(s)] EXCEPT ![k] = req.oid]
    BY <1>3, <1>6, <2>1
  <2>3. [o \in SafeOrder |-> Stage(o)'] = [o \in SafeOrder |-> Stage(o)]
    BY <1>5 DEF SameStages
  <2>4. [o \in SafeOrder |-> Parties(o)' \ {Empty}] = [o \in SafeOrder |-> Parties(o) \ {Empty}]
    BY <1>5 DEF SameParties
  <2>5. k \in Parties(req.oid) \ {Empty}  BY <1>1, <1>2, <1>3, <2>1, KeysDiffer
  <2>6. Stage(req.oid) = "open"
    <3>1. Exists(req.oid)  BY <2>5 DEF Exists, Parties, Blank
    <3> QED  BY <1>1, <3>1 DEF Stage
  <2>7. Book!Assign(k, req.oid)
    BY <2>1, <2>2, <2>3, <2>4, <2>5, <2>6 DEF Book!Assign
  <2> QED  BY <1>3, <2>1, <2>7 DEF BookStep, Book!Next, Book!SessionId, SessionId
<1> QED  BY <1>8, <1>9

\* An order is created for the two sessions of the request, or for fewer of
\* them when its writing stops half way.
LEMMA CreateInBook ==
    ASSUME PartyInv, CacheserverCreateOrder  PROVE BookStep
<1> DEFINE init(o)   == [hash[o] EXCEPT !.order_status = "INIT"]
           withP(o)  == [init(o) EXCEPT !.passenger_sessionid = req.passenger]
           withPD(o) == [withP(o) EXCEPT !.driver_sessionid = req.driver]
<1>1. PICK o \in OrderId \ orders : \E ok : SetHash(o, {init(o), withP(o)}, withPD(o), ok)
  BY DEF CacheserverCreateOrder
<1>2. PICK h : /\ hash' = [hash EXCEPT ![o] = h]
               /\ o \in SafeOrder => h \in {hash[o], init(o), withP(o), withPD(o)}
  BY <1>1 DEF SetHash, SafeOrder
<1>3. /\ hash[o] = Blank /\ orderTable[o] = NoRow /\ UNCHANGED orderTable
      /\ hash \in [Key -> Hash] /\ OrderId \subseteq Key
      /\ req.passenger \in PassengerSid /\ req.driver \in DriverSid
  BY <1>1 DEF PartyInv, OrderInv, DataInv, UnusedOrders, HandlerInv, Assigning, AssignSteps,
     CacheserverCreateOrder, SetHash, TypeInv, TypeOK, DataTypeOK, Key, OrderKey
<1>4. SameHeld  BY <1>1, <1>2, OrderWriteHeld DEF OrderKey, PartyInv
<1>5. /\ init(o).order_status = "INIT" /\ init(o).passenger_sessionid = Empty
      /\ init(o).driver_sessionid = Empty
      /\ withP(o).order_status = "INIT" /\ withP(o).passenger_sessionid = req.passenger
      /\ withP(o).driver_sessionid = Empty
      /\ withPD(o).order_status = "INIT" /\ withPD(o).passenger_sessionid = req.passenger
      /\ withPD(o).driver_sessionid = req.driver
  BY <1>3 DEF Blank
<1> HIDE DEF init, withP, withPD
<1>6. CASE h = hash[o] \/ o \notin SafeOrder
  <2>1. \A q \in SafeOrder : hash'[q] = hash[q]  BY <1>2, <1>3, <1>6 DEF SafeOrder
  <2>2. SameStages /\ SameParties
    BY <1>3, <2>1 DEF SameStages, SameParties, Stage, Parties, Exists
  <2> QED  BY <1>4, <2>2, NotInBook
<1>7. CASE h # hash[o] /\ o \in SafeOrder
  <2>1. /\ h.order_status = "INIT"
        /\ {h.passenger_sessionid, h.driver_sessionid} \ {Empty}
              \in {{}, {req.passenger}, {req.passenger, req.driver}}
    <3>1. CASE h = init(o)    BY <1>5, <3>1
    <3>2. CASE h = withP(o)   BY <1>3, <1>5, <3>2, KeysDiffer
    <3>3. CASE h = withPD(o)  BY <1>3, <1>5, <3>3, KeysDiffer
    <3> QED  BY <1>2, <1>7, <3>1, <3>2, <3>3
  <2>2. Stage(o) = "unborn"  BY <1>3 DEF Stage, Exists
  <2>3. Stage(o)' = "open"
    <3>1. hash'[o] = h  BY <1>2, <1>3
    <3>2. h # Blank
      <4>1. Blank.order_status = Empty /\ Empty # "INIT"  BY DEF Blank, Empty
      <4> QED  BY <2>1, <4>1
    <3> QED  BY <1>3, <3>1, <3>2 DEF Stage, Exists
  <2>4. \A q \in SafeOrder : q # o => Stage(q)' = Stage(q) /\ Parties(q)' = Parties(q)
    BY <1>2, <1>3 DEF Stage, Exists, Parties, SafeOrder
  <2>5. [q \in SafeOrder |-> Stage(q)'] = [[q \in SafeOrder |-> Stage(q)] EXCEPT ![o] = "open"]
    BY <1>7, <2>3, <2>4
  <2>6. PICK S \in {{}, {req.passenger}, {req.passenger, req.driver}} :
            Parties(o)' \ {Empty} = S
    BY <1>2, <1>3, <2>1 DEF Parties
  <2>7. [q \in SafeOrder |-> Parties(q)' \ {Empty}]
          = [[q \in SafeOrder |-> Parties(q) \ {Empty}] EXCEPT ![o] = S]
    BY <1>7, <2>4, <2>6
  <2>8. [s \in SessionId |-> Held(s)'] = [s \in SessionId |-> Held(s)]
    BY <1>4 DEF SameHeld
  <2>9. Book!Create(o, req.passenger, req.driver)
    BY <1>7, <2>2, <2>5, <2>6, <2>7, <2>8 DEF Book!Create
  <2> QED  BY <1>3, <1>7, <2>9 DEF BookStep, Book!Next
<1> QED  BY <1>6, <1>7

\* A report writes into an order that is there, and keeps its parties; or into one
\* that is closed and stays so.
LEMMA ReportInBook ==
    ASSUME PartyInv, StartorderReal \/ SetDtempLocation \/ SetPtempLocation
    PROVE  BookStep
<1>1. /\ req.oid \in OrderKey /\ SafeOrder \subseteq Key /\ hash \in [Key -> Hash]
      /\ req.op = "locationChanged" /\ UNCHANGED orderTable
  BY DEF StartorderReal, SetDtempLocation, SetPtempLocation, SetHash, PartyInv, OrderInv,
     TypeInv, TypeOK, DataTypeOK, WebTypeOK, Request, LocalsFor, ReportSteps, SafeOrder,
     OrderKey, Key
<1>2. PICK h : hash' = [hash EXCEPT ![req.oid] = h] /\ (Exists(req.oid) => h # Blank)
  BY WrittenExists DEF PartyInv
<1>3. SameHeld  BY <1>1, <1>2, OrderWriteHeld DEF PartyInv
<1>4. SameParties
  BY WritesKeepParties DEF PartiesKept, SameParties, Parties, PartyInv, SafeOrder
<1>5. ASSUME NEW o \in SafeOrder  PROVE Stage(o)' = Stage(o)
  <2>1. Parties(o)' = Parties(o)  BY <1>4 DEF SameParties
  <2>2. CASE o # req.oid  BY <1>1, <1>2, <2>1, <2>2 DEF Stage, Exists
  <2>3. CASE orderTable[o] # NoRow  BY <1>1, <2>1, <2>3 DEF Stage
  <2>4. CASE o = req.oid /\ orderTable[o] = NoRow
    <3>1. Full(o)  BY <1>1, <2>4 DEF PartyInv, LocalParty, Reporter, Own
    <3>2. Exists(o)  BY <3>1, KeysDiffer DEF Full, Exists, Blank
    <3>3. Exists(o)'  BY <1>1, <1>2, <2>4, <3>2 DEF Exists
    <3> QED  BY <1>1, <2>4, <3>2, <3>3 DEF Stage
  <2> QED  BY <2>2, <2>3, <2>4
<1>6. SameStages  BY <1>5 DEF SameStages
<1> QED  BY <1>3, <1>4, <1>6, NotInBook

\* The insert of finish_order_cb records an order that is still open.
LEMMA RecordInBook ==
    ASSUME PartyInv, DataserverCreateOrder, ~UNCHANGED orderTable  PROVE BookStep
<1>1. /\ req \in Request /\ req.op = "finishOrder" /\ hash' = hash
      /\ orderTable \in [OrderKey -> Row \cup {NoRow}] /\ OrderId \subseteq OrderKey
  BY DEF DataserverCreateOrder, InsertOrder, dataVars, PartyInv, OrderInv, TypeInv, TypeOK,
     DataTypeOK, WebTypeOK, LocalsFor, FinishSteps, OrderKey
<1>2. /\ orderTable[req.oid] = NoRow
      /\ orderTable' = [orderTable EXCEPT ![req.oid] = req.row]
  BY DEF DataserverCreateOrder, InsertOrder, dataVars
<1>3. SameHeld /\ SameParties  BY <1>1, SameHashHeld DEF SameParties, Parties
<1>4. CASE req.oid \notin SafeOrder
  <2>1. SameStages  BY <1>1, <1>2, <1>4 DEF SameStages, Stage, Exists, Parties
  <2> QED  BY <1>3, <2>1, NotInBook
<1>5. CASE req.oid \in SafeOrder
  <2>1. PICK o \in SafeOrder : o = req.oid  BY <1>5
  <2>2. req.row # NoRow
    <3>1. req.row.passenger_username \in User \cup {Empty}  BY <1>1 DEF Request, Row
    <3>2. None \notin User \cup {Empty}  BY Identifiers DEF None, Empty
    <3>3. NoRow.passenger_username = None  BY DEF NoRow
    <3> QED  BY <3>1, <3>2, <3>3
  <2>3. Exists(o) /\ Parties(o) # {Empty}
    <3>1. Full(o)  BY <1>1, <1>2, <2>1 DEF PartyInv, LocalParty, Namer
    <3>2. Blank.driver_sessionid = Empty  BY DEF Blank
    <3> QED  BY <3>1, <3>2, KeysDiffer DEF Full, Exists, Parties
  <2>4. orderTable[o] = NoRow /\ orderTable'[o] = req.row
    BY <1>1, <1>2, <2>1 DEF SafeOrder
  <2>5. Stage(o) = "open" /\ Stage(o)' = "recorded"
    BY <1>1, <2>2, <2>3, <2>4 DEF Stage, Exists, Parties
  <2>6. \A q \in SafeOrder : q # o => Stage(q)' = Stage(q)
    BY <1>1, <1>2, <2>1 DEF Stage, Exists, Parties, SafeOrder
  <2>7. [q \in SafeOrder |-> Stage(q)'] = [[q \in SafeOrder |-> Stage(q)] EXCEPT ![o] = "recorded"]
    BY <2>5, <2>6
  <2>8. [q \in SafeOrder |-> Parties(q)' \ {Empty}] = [q \in SafeOrder |-> Parties(q) \ {Empty}]
    BY <1>3 DEF SameParties
  <2>9. [s \in SessionId |-> Held(s)'] = [s \in SessionId |-> Held(s)]
    BY <1>3 DEF SameHeld
  <2>10. Book!Record(o)  BY <2>5, <2>7, <2>8, <2>9 DEF Book!Record
  <2> QED  BY <2>10 DEF BookStep, Book!Next
<1> QED  BY <1>4, <1>5

\* The order that is deleted is recorded, and nobody the book knows holds it.
LEMMA CloseInBook ==
    ASSUME OrderInv, DeleteOrder  PROVE BookStep
<1>1. /\ req.oid \in OrderKey /\ SafeOrder \subseteq Key
      /\ hash \in [Key -> Hash] /\ req.op = "finishOrder" /\ pc = "delete"
      /\ UNCHANGED orderTable
  BY DEF DeleteOrder, DeleteKey, Remove, dataVars, OrderInv, TypeInv, TypeOK, DataTypeOK,
     WebTypeOK, Request, LocalsFor, FinishSteps, SafeOrder, OrderKey, Key
<1>2. hash' = hash \/ hash' = [hash EXCEPT ![req.oid] = Blank]
  BY DEF DeleteOrder, DeleteKey, Remove, dataVars
<1>3. SameHeld  BY <1>1, <1>2, OrderWriteHeld, SameHashHeld
<1>4. \A q \in SafeOrder :
         hash'[q] # hash[q] => /\ q = req.oid /\ hash'[q] = Blank
                               /\ orderTable[q] # NoRow
                               /\ \A s \in SafeSession : hash[s].orderid # q
  <2>1. ASSUME NEW q \in SafeOrder, hash'[q] # hash[q]
        PROVE  q = req.oid /\ hash'[q] = Blank /\ q \in OrderId
    BY <1>1, <1>2, <2>1 DEF SafeOrder
  <2>2. req.oid \in SafeOrder =>
           /\ orderTable[req.oid] # NoRow
           /\ \A s \in SafeSession : hash[s].orderid # req.oid
    BY <1>1 DEF OrderInv, HandlerInv, Finishing, SafeSession, SafeOrder, SessionId
  <2> QED  BY <2>1, <2>2
<1>5. CASE SameParties
  <2>1. ASSUME NEW q \in SafeOrder  PROVE Stage(q)' = Stage(q)
    <3>1. Parties(q)' = Parties(q)  BY <1>5 DEF SameParties
    <3>2. CASE hash'[q] = hash[q]  BY <1>1, <3>1, <3>2 DEF Stage, Exists
    <3>3. CASE hash'[q] # hash[q]  BY <1>1, <1>4, <3>1, <3>3 DEF Stage
    <3> QED  BY <3>2, <3>3
  <2> QED  BY <1>3, <1>5, <2>1, NotInBook DEF SameStages
<1>6. CASE ~SameParties
  <2>1. PICK o \in SafeOrder : Parties(o)' # Parties(o)  BY <1>6 DEF SameParties
  <2>2. hash'[o] # hash[o]  BY <2>1 DEF Parties
  <2>3. Parties(o)' = {Empty}  BY <1>4, <2>2 DEF Parties, Blank
  <2>4. Stage(o) = "recorded" /\ Stage(o)' = "closed"
    BY <1>1, <1>4, <2>1, <2>2, <2>3 DEF Stage
  <2>5. \A q \in SafeOrder : q # o => Stage(q)' = Stage(q) /\ Parties(q)' = Parties(q)
    BY <1>1, <1>4, <2>2 DEF Stage, Exists, Parties
  <2>6. [q \in SafeOrder |-> Stage(q)'] = [[q \in SafeOrder |-> Stage(q)] EXCEPT ![o] = "closed"]
    BY <2>4, <2>5
  <2>7. [q \in SafeOrder |-> Parties(q)' \ {Empty}]
          = [[q \in SafeOrder |-> Parties(q) \ {Empty}] EXCEPT ![o] = {}]
    BY <2>3, <2>5
  <2>8. [s \in SessionId |-> Held(s)'] = [s \in SessionId |-> Held(s)]
    BY <1>3 DEF SameHeld
  <2>9. \A s \in SessionId : Held(s) # o
    BY <1>4, <2>2, KeysDiffer DEF Held, SafeOrder
  <2>10. Book!Close(o)
    BY <2>4, <2>6, <2>7, <2>8, <2>9 DEF Book!Close, Book!SessionId, SessionId
  <2> QED  BY <2>10 DEF BookStep, Book!Next
<1> QED  BY <1>5, <1>6

-----------------------------------------------------------------------------
(* The refinement *)

LEMMA StepInBook == PartyInv /\ [Next]_vars => BookStep
<1> SUFFICES ASSUME PartyInv, [Next]_vars  PROVE BookStep
  OBVIOUS
<1>1. OrderInv  BY DEF PartyInv
<1>2. CASE ~UNCHANGED orderTable  BY <1>1, <1>2, RowsWritten, RecordInBook
<1>3. CASE UNCHANGED orderTable
  <2>1. CASE UNCHANGED hash
    <3>1. SameOrders  BY <2>1 DEF SameOrders
    <3> QED  BY <1>3, <2>1, <3>1, OrdersUnseen, SameHashHeld, NotInBook
  <2>2. CASE SessionSteps
    BY <1>1, <1>3, <2>2, SessionInBook, AssignInBook
  <2>3. CASE OrderSteps
    BY <1>1, <2>3, CreateInBook, CloseInBook, ReportInBook DEF OrderSteps
  <2> QED  BY <2>1, <2>2, <2>3, AllSteps, ReadStepsRead DEF vars
<1> QED  BY <1>2, <1>3

LEMMA InitInBook == Init => Book!Init
<1> SUFFICES ASSUME Init  PROVE Book!Init
  OBVIOUS
<1>1. /\ \A k \in Key : hash[k] = Blank /\ \A o \in OrderId : orderTable[o] = NoRow
      /\ OrderId \subseteq Key /\ SessionId \subseteq Key
  BY DEF Init, DataInit, Key, OrderKey
<1>2. \A o \in SafeOrder : Stage(o) = "unborn" /\ Parties(o) \ {Empty} = {}
  BY <1>1 DEF Stage, Exists, Parties, Blank, SafeOrder
<1>3. \A s \in SessionId : Held(s) = None  BY <1>1, KeysDiffer DEF Held, Blank, SafeOrder
<1> QED  BY <1>2, <1>3 DEF Book!Init, Book!SessionId, SessionId

\* The handlers (set_order.c:98-127, finish_order.c:80-100), with every failed call,
\* expiry and restart between their calls, implement the order book of the orders and
\* sessions at which Redis refuses no write (redis_op.cpp:344-356).
THEOREM ImplementsBook == Spec => BookSpec
<1>1. PartyInv /\ [Next]_vars => [Book!Next]_(Book!bookVars)  BY StepInBook DEF BookStep
<1> QED  BY <1>1, InitInBook, PartyInvHolds, PTL DEF Spec, BookSpec, Book!Spec

-----------------------------------------------------------------------------
(* What follows from the order book                                        *)

\* A session holds only an order that is under way and names it, and no two drivers
\* and no two passengers hold the same one (set_order.c:98-127), among the orders and
\* sessions at which Redis refuses no write.
THEOREM HoldersAreOwn == Spec => []Book!HoldersAreParties
<1>1. PartyInv => Book!HoldersAreParties
  <2> SUFFICES ASSUME PartyInv  PROVE Book!HoldersAreParties
    OBVIOUS
  <2>1. ASSUME NEW s \in SessionId, Held(s) # None
        PROVE  /\ Held(s) \in SafeOrder /\ s \in Parties(Held(s)) \ {Empty}
               /\ Stage(Held(s)) \in {"open", "recorded"}
    <3>1. /\ Held(s) = hash[s].orderid /\ Held(s) \in SafeOrder
          /\ s \in SafeSession
      BY <2>1 DEF Held
    <3>2. s \in Parties(Held(s)) /\ s # Empty
      BY <3>1, KeysDiffer DEF PartyInv, OrderInv, DataInv, NoDanglingOrder
    <3>3. Exists(Held(s)) /\ Parties(Held(s)) # {Empty}
      BY <3>2 DEF Exists, Parties, Blank
    <3> QED  BY <3>1, <3>2, <3>3 DEF Stage
  <2>2. ASSUME NEW S \in {DriverSid, PassengerSid}, NEW s \in S, NEW t \in S,
               Held(s) # None, Held(s) = Held(t)
        PROVE  s = t
    <3>0. s \in SessionId /\ t \in SessionId  BY <2>2 DEF SessionId
    <3>1. PICK o \in SafeOrder : o = Held(s)  BY <2>1, <2>2, <3>0
    <3>2. s \in Parties(o) /\ t \in Parties(o) /\ s # Empty /\ t # Empty
      BY <2>1, <2>2, <3>0, <3>1
    <3>3. /\ hash[o].driver_sessionid \in DriverSid \cup {Empty}
          /\ hash[o].passenger_sessionid \in PassengerSid \cup {Empty}
      BY DEF PartyInv, OrderInv, TypeInv, TypeOK, DataTypeOK, Hash, Key, OrderKey, SafeOrder
    <3> QED  BY <2>2, <3>2, <3>3, KeysDiffer DEF Parties
  <2>3. Book!SessionId = SessionId  BY DEF Book!SessionId, SessionId
  <2> QED  BY <2>1, <2>2, <2>3 DEF Book!HoldersAreParties, SessionId
<1> QED  BY <1>1, PartyInvHolds, PTL

\* An order at which Redis refuses no write lives once, from its first field to its
\* row and the removal of its hash, and once it is recorded no session with such
\* writes is given it any more (set_order.c:115-127, finish_order.c:93-98).
THEOREM OrdersGoOn == Spec => Book!StagesGoOn /\ Book!OnlyOpenIsGiven
<1>1. Book!Next => Book!StageStep /\ Book!GivingStep
  <2> SUFFICES ASSUME Book!Next  PROVE Book!StageStep /\ Book!GivingStep
    OBVIOUS
  <2>1. CASE \E s \in SessionId : Book!Release(s)
    BY <2>1 DEF Book!Release, Book!StageStep, Book!GivingStep, Book!LifeOf, Book!SessionId, SessionId
  <2>2. ASSUME NEW o \in SafeOrder, NEW s \in SessionId, Book!Assign(s, o)
        PROVE  Book!StageStep /\ Book!GivingStep
    BY <2>2 DEF Book!Assign, Book!StageStep, Book!GivingStep, Book!LifeOf, Book!SessionId, SessionId
  <2>3. ASSUME NEW o \in SafeOrder,
               Book!Record(o) \/ Book!Close(o)
                  \/ \E p \in PassengerSid, d \in DriverSid : Book!Create(o, p, d)
        PROVE  Book!StageStep /\ Book!GivingStep
    BY <2>3 DEF Book!Record, Book!Close, Book!Create, Book!StageStep, Book!GivingStep,
                Book!LifeOf, Book!SessionId, SessionId
  <2> QED  BY <2>1, <2>2, <2>3 DEF Book!Next, Book!SessionId, SessionId
<1>2. Book!Spec => Book!StagesGoOn /\ Book!OnlyOpenIsGiven
  BY <1>1, PTL DEF Book!Spec, Book!StagesGoOn, Book!OnlyOpenIsGiven
<1> QED  BY <1>2, ImplementsBook DEF BookSpec
=============================================================================
