---------------------------- MODULE PhonesProofs ----------------------------
(***************************************************************************)
(* The phones are clients as WebServer takes them to be, for every number  *)
(* of phones: what they post was handed or told to them, so every          *)
(* behaviour of the composition is one of WebServer, and what was proved   *)
(* of the servers holds when the phones are there.  The second part is     *)
(* their own bookkeeping, whatever they and the servers lose:              *)
(* finish_order_cb does not look at whose order it is sent, so it is Data  *)
(* that has to hold the orders of the session it holds, through logins of  *)
(* one user after another, late answers and orders that end meanwhile.     *)
(***************************************************************************)
EXTENDS Phones, PartyProofs

\* What a client may post when the sessions h were handed out and the clients
\* were told of the orders t, as the five requests of WebServer have it.
Postable(m, h, t) ==
    \/ \E op \in {"login", "reg"} \cap Posts, u \in User, role \in {"yes", "no"} :
          m = [NoReq EXCEPT !.op = op, !.user = u, !.isDriver = role]
    \/ /\ "setOrder" \in Posts
       /\ \E s \in h \cap PassengerSid :
             m = [NoReq EXCEPT !.op = "setOrder", !.sid = s, !.passenger = s]
    \/ /\ "locationChanged" \in Posts
       /\ \E s \in h, auto \in BOOLEAN :
          \E status \in Statuses \cap
                  (IF s \in DriverSid THEN DriverStatus ELSE PassengerStatus) :
             /\ auto => status = "driving"
             /\ m = [NoReq EXCEPT !.op = "locationChanged", !.sid = s,
                        !.isDriver = IF s \in DriverSid THEN "yes" ELSE "no",
                        !.status = status, !.autosend = auto]
    \/ /\ "finishOrder" \in Posts
       /\ \E o \in t \cup NoOrder :
             m = [NoReq EXCEPT !.op = "finishOrder", !.oid = o]

\* What an answer may hand over: what the server counts as handed over.
Credible(m, h, t) ==
    m.ok => /\ m.op \in {"login", "reg"} => m.sid \in h
            /\ m.op = "locationChanged" => m.oid \in t \cup {None, Empty}

\* A phone remembers what came from the server.
Known(d, h, t) ==
    d.sessionid \in h \cup {Empty} /\ d.orderid \in t \cup {None, Empty}

\* A call is honest when what it carries came from the server.
Carried(c, h, t) ==
    /\ c.stage = "posted"   => Postable(c.msg, h, t)
    /\ c.stage = "answered" => Credible(c.msg, h, t)

Honest == \A p \in Phone : Known(data[p], handed, told) /\ Carried(call[p], handed, told)

RideInv == TypeInv /\ RideTypeOK /\ Honest

-----------------------------------------------------------------------------
(* Facts used in several places *)

\* A request a client may post is a message.
LEMMA PostableType ==
    ASSUME TypeInv, NEW m, Postable(m, handed, told)  PROVE m \in Request
<1>1. NoReq \in Request  BY NoReqType
<1>2. handed \subseteq SessionId /\ told \subseteq OrderKey /\ NoOrder \subseteq OrderKey
  BY Bounds DEF TypeInv, TypeOK, WebTypeOK, OrderKey
<1>3. CASE \E op \in {"login", "reg"} \cap Posts, u \in User, role \in {"yes", "no"} :
              m = [NoReq EXCEPT !.op = op, !.user = u, !.isDriver = role]
  <2>1. PICK op \in {"login", "reg"}, u \in User, role \in {"yes", "no"} :
             m = [NoReq EXCEPT !.op = op, !.user = u, !.isDriver = role]
    BY <1>3
  <2>2. [NoReq EXCEPT !.op = op] \in Request  BY <1>1, RequestFields
  <2>3. [NoReq EXCEPT !.op = op, !.user = u] \in Request  BY <2>2, RequestFields
  <2>4. [NoReq EXCEPT !.op = op, !.user = u, !.isDriver = role] \in Request
    BY <2>3, RequestFields
  <2> QED  BY <2>1, <2>4, Zenon
<1>4. CASE \E s \in handed \cap PassengerSid :
              m = [NoReq EXCEPT !.op = "setOrder", !.sid = s, !.passenger = s]
  <2>1. PICK s \in handed \cap PassengerSid :
             m = [NoReq EXCEPT !.op = "setOrder", !.sid = s, !.passenger = s]
    BY <1>4
  <2>2. [NoReq EXCEPT !.op = "setOrder"] \in Request  BY <1>1, RequestFields
  <2>3. [NoReq EXCEPT !.op = "setOrder", !.sid = s] \in Request
    BY <1>2, <2>2, RequestFields
  <2>4. [NoReq EXCEPT !.op = "setOrder", !.sid = s, !.passenger = s] \in Request
    BY <2>3, RequestFields
  <2> QED  BY <2>1, <2>4, Zenon
<1>5. CASE \E s \in handed, auto \in BOOLEAN, role \in {"yes", "no"},
              status \in DriverStatus \cup PassengerStatus :
              m = [NoReq EXCEPT !.op = "locationChanged", !.sid = s,
                       !.isDriver = role, !.status = status, !.autosend = auto]
  <2>1. PICK s \in handed, auto \in BOOLEAN, role \in {"yes", "no"},
             status \in DriverStatus \cup PassengerStatus :
             m = [NoReq EXCEPT !.op = "locationChanged", !.sid = s,
                      !.isDriver = role, !.status = status, !.autosend = auto]
    BY <1>5
  <2>2. [NoReq EXCEPT !.op = "locationChanged"] \in Request  BY <1>1, RequestFields
  <2>3. [NoReq EXCEPT !.op = "locationChanged", !.sid = s] \in Request
    BY <1>2, <2>2, RequestFields
  <2>4. [NoReq EXCEPT !.op = "locationChanged", !.sid = s, !.isDriver = role] \in Request
    BY <2>3, RequestFields
  <2>5. [NoReq EXCEPT !.op = "locationChanged", !.sid = s, !.isDriver = role,
                      !.status = status] \in Request
    BY <2>4, RequestFields
  <2>6. [NoReq EXCEPT !.op = "locationChanged", !.sid = s, !.isDriver = role,
                      !.status = status, !.autosend = auto] \in Request
    BY <2>5, RequestFields
  <2> QED  BY <2>1, <2>6, Zenon
<1>6. CASE \E o \in told \cup NoOrder :
              m = [NoReq EXCEPT !.op = "finishOrder", !.oid = o]
  <2>1. PICK o \in told \cup NoOrder : m = [NoReq EXCEPT !.op = "finishOrder", !.oid = o]
    BY <1>6
  <2>2. [NoReq EXCEPT !.op = "finishOrder"] \in Request  BY <1>1, RequestFields
  <2>3. [NoReq EXCEPT !.op = "finishOrder", !.oid = o] \in Request
    BY <1>2, <2>2, RequestFields
  <2> QED  BY <2>1, <2>3, Zenon
<1> QED  BY <1>3, <1>4, <1>5, <1>6 DEF Postable

LEMMA PostableOp ==
    ASSUME NEW m, NEW h, NEW t, Postable(m, h, t)
    PROVE  m.op \in {"login", "reg", "setOrder", "locationChanged", "finishOrder"}
BY DEF Postable, NoReq

\* More sessions handed out and more orders told of: what was known, posted and
\* answered before is as honest as it was.
LEMMA HonestGrows ==
    ASSUME NEW h, NEW t, NEW h2, NEW t2, h \subseteq h2, t \subseteq t2
    PROVE  /\ \A d : Known(d, h, t) => Known(d, h2, t2)
           /\ \A c : Carried(c, h, t) => Carried(c, h2, t2)
<1>1. ASSUME NEW m, Postable(m, h, t)  PROVE Postable(m, h2, t2)
  BY <1>1 DEF Postable
<1>2. ASSUME NEW m, Credible(m, h, t)  PROVE Credible(m, h2, t2)
  BY <1>2 DEF Credible
<1> QED  BY <1>1, <1>2 DEF Known, Carried

\* Handing over is never taken back.
LEMMA HistoryGrows ==
    ASSUME [Next]_vars  PROVE handed \subseteq handed' /\ told \subseteq told'
<1>1. CASE ClientRequest
  BY <1>1 DEF ClientRequest, LoginRequest, RegRequest, AuthRequest, OrderRequest,
     LocationRequest, FinishRequest, history
<1>2. CASE ServerStep
  BY <1>2 DEF ServerStep, DataserverLogin, DataserverReg,
     CacheserverSession, CacheserverLifecycle, CacheserverRadiusGeo,
     CacheserverCreateOrder, SetOrderidDriver, SetOrderidPassenger,
     ExistSessionid, TouchSession, GetOrderid, RemGeo, AddToPool,
     StartorderReal, SetDtempLocation, SetPtempLocation, GetOrderd,
     GetUsernamePassenger, GetUsernameDriver, DataserverCreateOrder,
     ReleaseDriver, ReleasePassenger, DeleteOrder, Reply, history
<1>3. CASE SessionExpires \/ Restart \/ UNCHANGED vars
  BY <1>3 DEF SessionExpires, Restart, history, vars
<1> QED  BY <1>1, <1>2, <1>3 DEF Next

\* A request that was honestly posted is one of WebServer's requests when the
\* event loop takes it.
LEMMA AcceptIsRequest ==
    ASSUME RideInv, NEW p \in Phone, Accept(p)  PROVE ClientRequest
<1> DEFINE m == call[p].msg
<1>1. Postable(m, handed, told)  BY DEF Accept, RideInv, Honest, Carried
<1>2. /\ pc = "idle" /\ req' = m /\ pc' = FirstCall(m.op) /\ Acceptable(m)
      /\ UNCHANGED <<dataVars, history>>
  BY DEF Accept
<1> HIDE DEF m
<1>3. CASE \E op \in {"login", "reg"} \cap Posts, u \in User, role \in {"yes", "no"} :
              m = [NoReq EXCEPT !.op = op, !.user = u, !.isDriver = role]
  <2>1. PICK op \in {"login", "reg"} \cap Posts, u \in User, role \in {"yes", "no"} :
              m = [NoReq EXCEPT !.op = op, !.user = u, !.isDriver = role]
    BY <1>3
  <2>2. m.op = op /\ m.isDriver = role  BY <2>1 DEF NoReq
  <2>3. AuthRequest(op)  BY <1>2, <2>1, <2>2 DEF AuthRequest, FirstCall, Acceptable
  <2> QED  BY <2>3 DEF ClientRequest, LoginRequest, RegRequest
<1>4. CASE /\ "setOrder" \in Posts
           /\ \E s \in handed \cap PassengerSid :
                 m = [NoReq EXCEPT !.op = "setOrder", !.sid = s, !.passenger = s]
  <2>1. m.op = "setOrder"  BY <1>4 DEF NoReq
  <2>2. OrderRequest  BY <1>2, <1>4, <2>1 DEF OrderRequest, FirstCall, Acceptable
  <2> QED  BY <2>2 DEF ClientRequest
<1>5. CASE /\ "locationChanged" \in Posts
           /\ \E s \in handed, auto \in BOOLEAN :
              \E status \in Statuses \cap
                   (IF s \in DriverSid THEN DriverStatus ELSE PassengerStatus) :
              /\ auto => status = "driving"
              /\ m = [NoReq EXCEPT !.op = "locationChanged", !.sid = s,
                      !.isDriver = IF s \in DriverSid THEN "yes" ELSE "no",
                      !.status = status, !.autosend = auto]
  <2>1. m.op = "locationChanged"  BY <1>5 DEF NoReq
  <2>2. LocationRequest  BY <1>2, <1>5, <2>1 DEF LocationRequest, FirstCall
  <2> QED  BY <2>2 DEF ClientRequest
<1>6. CASE /\ "finishOrder" \in Posts
           /\ \E o \in told \cup NoOrder :
                 m = [NoReq EXCEPT !.op = "finishOrder", !.oid = o]
  <2>1. m.op = "finishOrder"  BY <1>6 DEF NoReq
  <2>2. FinishRequest  BY <1>2, <1>6, <2>1 DEF FinishRequest, FirstCall
  <2> QED  BY <2>2 DEF ClientRequest
<1> QED  BY <1>1, <1>3, <1>4, <1>5, <1>6 DEF Postable

-----------------------------------------------------------------------------
(* The step *)

\* What is left to show of a step: the phone it is about.
LEMMA RideFrame ==
    ASSUME RideInv, [Next]_vars, PhoneTypeOK',
           \A p \in Phone : call'[p].stage = "served" <=> client' = p,
           client' \in Phone => pc' # "idle",
           \A p \in Phone : data'[p] # data[p] => Known(data'[p], handed', told'),
           \A p \in Phone : call'[p] # call[p] => Carried(call'[p], handed', told')
    PROVE  RideInv'
<1>1. TypeInv'  BY TypeStep DEF RideInv
<1>2. RideTypeOK'  BY <1>1 DEF RideTypeOK, TypeInv
<1>3. handed \subseteq handed' /\ told \subseteq told'  BY HistoryGrows
<1>4. Honest'  BY <1>3, HonestGrows DEF RideInv, Honest
<1> QED  BY <1>1, <1>2, <1>4 DEF RideInv

\* A phone that is free posts what it may post.
LEMMA PostStep ==
    ASSUME RideInv, NEW p \in Phone, Free(p), NEW m, Post(p, m),
           Postable(m, handed, told),
           UNCHANGED data \/ data' = [data EXCEPT ![p].orderid = None, ![p].status = "idle"]
    PROVE  RideInv'
<1>1. m \in Request  BY PostableType DEF RideInv
<1>2. UNCHANGED vars  BY DEF Post
<1>3. handed' = handed /\ told' = told  BY <1>2 DEF vars
<1>4. PhoneTypeOK'
  <2>1. data' \in [Phone -> Data]
    <3>1. data \in [Phone -> Data]  BY DEF RideInv, RideTypeOK, PhoneTypeOK
    <3>2. ASSUME NEW d \in Data
          PROVE  [d EXCEPT !.orderid = None, !.status = "idle"] \in Data
      BY DEF Data, OrderKey, PassengerStatus
    <3>3. [data EXCEPT ![p] = [@ EXCEPT !.orderid = None, !.status = "idle"]]
             \in [Phone -> Data]
      BY <3>1, <3>2
    <3> QED  BY <3>1, <3>3
  <2> QED  BY <1>1, <2>1 DEF Post, RideInv, RideTypeOK, PhoneTypeOK
<1>5. call' = [call EXCEPT ![p] = [stage |-> "posted", msg |-> m]] /\ client' = client
  BY DEF Post
<1>6. \A q \in Phone : call'[q].stage = "served" <=> client' = q
  BY <1>5 DEF RideInv, RideTypeOK, PhoneTypeOK, Free
<1>7. \A q \in Phone : call'[q] # call[q] => Carried(call'[q], handed', told')
  BY <1>3, <1>5 DEF RideInv, RideTypeOK, PhoneTypeOK, Carried
<1>8. \A q \in Phone : data'[q] # data[q] => Known(data'[q], handed', told')
  <2>1. Known(data[p], handed, told)  BY DEF RideInv, Honest
  <2>2. data \in [Phone -> Data]  BY DEF RideInv, RideTypeOK, PhoneTypeOK
  <2>3. Known([data[p] EXCEPT !.orderid = None, !.status = "idle"], handed, told)
    BY <2>1, <2>2 DEF Known, Data
  <2>4. CASE data' = [data EXCEPT ![p] = [@ EXCEPT !.orderid = None, !.status = "idle"]]
    BY <1>3, <2>2, <2>3, <2>4
  <2> QED  BY <2>4
<1>9. client' \in Phone => pc' # "idle"  BY <1>2, <1>5 DEF vars, RideInv, RideTypeOK
<1> QED  BY <1>2, <1>4, <1>6, <1>7, <1>8, <1>9, RideFrame

LEMMA LoginStep ==
    ASSUME RideInv, NEW p \in Phone, NEW u \in User, NEW role \in {"yes", "no"},
           Login(p, u, role)
    PROVE  RideInv'
<1> DEFINE m == [NoReq EXCEPT !.op = "login", !.user = u, !.isDriver = role]
<1>1. Postable(m, handed, told)  BY DEF Login, Postable
<1>2. /\ Free(p) /\ Post(p, m)
      /\ data' = [data EXCEPT ![p].orderid = None, ![p].status = "idle"]
  BY DEF Login
<1> HIDE DEF m
<1> QED  BY <1>1, <1>2, PostStep

LEMMA RegStep ==
    ASSUME RideInv, NEW p \in Phone, NEW u \in User, NEW role \in {"yes", "no"},
           Reg(p, u, role)
    PROVE  RideInv'
<1> DEFINE m == [NoReq EXCEPT !.op = "reg", !.user = u, !.isDriver = role]
<1>1. Postable(m, handed, told)  BY DEF Reg, Postable
<1>2. Free(p) /\ Post(p, m) /\ UNCHANGED data  BY DEF Reg
<1> HIDE DEF m
<1> QED  BY <1>1, <1>2, PostStep

\* The session of a screen was handed out, and has the role of the screen.
LEMMA SessionKnown ==
    ASSUME RideInv, NEW p \in Phone, HasSession(p)
    PROVE  /\ data[p].sessionid \in handed
           /\ screen[p] = "driver" <=> data[p].sessionid \in DriverSid
           /\ screen[p] = "passenger" => data[p].sessionid \in PassengerSid
<1>1. data[p].sessionid \in handed \cup {Empty}  BY DEF RideInv, Honest, Known
<1>2. DriverSid \cap PassengerSid = {} /\ Empty \notin DriverSid \cup PassengerSid
  BY Identifiers DEF SessionId
<1> QED  BY <1>1, <1>2 DEF HasSession

LEMMA StartOrderStep ==
    ASSUME RideInv, NEW p \in Phone, StartOrder(p)  PROVE RideInv'
<1> DEFINE m == [NoReq EXCEPT !.op = "setOrder", !.sid = data[p].sessionid,
                              !.passenger = data[p].sessionid]
<1>1. data[p].sessionid \in handed \cap PassengerSid
  BY SessionKnown DEF StartOrder
<1>2. Postable(m, handed, told)  BY <1>1 DEF StartOrder, Postable
<1>3. Free(p) /\ Post(p, m) /\ UNCHANGED data  BY DEF StartOrder
<1> HIDE DEF m
<1> QED  BY <1>2, <1>3, PostStep

LEMMA LocationChangedStep ==
    ASSUME RideInv, NEW p \in Phone, NEW auto \in BOOLEAN, LocationChanged(p, auto)
    PROVE  RideInv'
<1> DEFINE s == data[p].sessionid
           m == [NoReq EXCEPT !.op = "locationChanged", !.sid = s,
                   !.isDriver = IF s \in DriverSid THEN "yes" ELSE "no",
                   !.status = data[p].status, !.autosend = auto]
<1>1. s \in handed /\ (screen[p] = "driver" <=> s \in DriverSid)
  BY SessionKnown DEF LocationChanged
<1>2. Postable(m, handed, told)
  <2>1. /\ data[p].status \in Statuses \cap
              (IF s \in DriverSid THEN DriverStatus ELSE PassengerStatus)
        /\ auto => data[p].status = "driving"
        /\ "locationChanged" \in Posts
    BY <1>1 DEF LocationChanged
  <2> HIDE DEF s
  <2> QED  BY <1>1, <2>1 DEF Postable
<1>3. Free(p) /\ Post(p, m) /\ UNCHANGED data  BY <1>1 DEF LocationChanged
<1> HIDE DEF m
<1> QED  BY <1>2, <1>3, PostStep

LEMMA FinishOrderStep ==
    ASSUME RideInv, NEW p \in Phone, FinishOrder(p)  PROVE RideInv'
<1> DEFINE m == [NoReq EXCEPT !.op = "finishOrder", !.oid = data[p].orderid]
<1>1. data[p].orderid \in told \cup NoOrder
  <2>1. data[p].orderid \in told \cup {None, Empty}  BY DEF RideInv, Honest, Known
  <2>2. data[p].orderid \in OrderId \cup NoOrder  BY DEF FinishOrder
  <2> QED  BY <2>1, <2>2, KeysDiffer
<1>2. Postable(m, handed, told)  BY <1>1 DEF FinishOrder, Postable
<1>3. Free(p) /\ Post(p, m) /\ UNCHANGED data  BY DEF FinishOrder
<1> HIDE DEF m
<1> QED  BY <1>2, <1>3, PostStep

\* A step of a phone that changes neither the servers nor any call: what the
\* phone remembers still came from the server.
LEMMA QuietStep ==
    ASSUME RideInv, NEW p \in Phone, UNCHANGED <<vars, call, client>>,
           data' \in [Phone -> Data],
           screen' \in [Phone -> {"login", "reg", "driver", "passenger"}],
           \A q \in Phone : data'[q] # data[q] => Known(data'[q], handed, told)
    PROVE  RideInv'
<1>1. handed' = handed /\ told' = told  BY DEF vars
<1>2. PhoneTypeOK'  BY DEF RideInv, RideTypeOK, PhoneTypeOK
<1>3. \A q \in Phone : call'[q].stage = "served" <=> client' = q
  BY DEF RideInv, RideTypeOK
<1>4. client' \in Phone => pc' # "idle"  BY DEF vars, RideInv, RideTypeOK
<1> QED  BY <1>1, <1>2, <1>3, <1>4, RideFrame

LEMMA SetStatusStep ==
    ASSUME RideInv, NEW p \in Phone, NEW status \in DriverStatus, SetStatus(p, status)
    PROVE  RideInv'
<1>1. data \in [Phone -> Data] /\ Known(data[p], handed, told)
  BY DEF RideInv, RideTypeOK, PhoneTypeOK, Honest
<1>2. [data[p] EXCEPT !.status = status] \in Data  BY <1>1 DEF Data
<1>3. Known([data[p] EXCEPT !.status = status], handed, told)  BY <1>1 DEF Known, Data
<1>4. data' = [data EXCEPT ![p] = [@ EXCEPT !.status = status]]
      /\ UNCHANGED <<vars, screen, call, client>>
  BY DEF SetStatus
<1>5. screen' \in [Phone -> {"login", "reg", "driver", "passenger"}]
  BY <1>4 DEF RideInv, RideTypeOK, PhoneTypeOK
<1> QED  BY <1>1, <1>2, <1>3, <1>4, <1>5, QuietStep

LEMMA ScreenStep ==
    ASSUME RideInv, NEW p \in Phone, OpenReg(p) \/ Back(p)  PROVE RideInv'
BY QuietStep DEF OpenReg, Back, RideInv, RideTypeOK, PhoneTypeOK

\* A step after which the call of p is over and nobody else's has changed.
LEMMA ReturnStep ==
    ASSUME RideInv, NEW p \in Phone, UNCHANGED vars,
           call' = [call EXCEPT ![p] = NoCall],
           client' = IF client = p THEN Nobody ELSE client,
           data' \in [Phone -> Data],
           screen' \in [Phone -> {"login", "reg", "driver", "passenger"}],
           \A q \in Phone : data'[q] # data[q] => Known(data'[q], handed, told)
    PROVE  RideInv'
<1>1. handed' = handed /\ told' = told  BY DEF vars
<1>2. NoCall.stage = "none" /\ NoCall.msg = NoReq  BY DEF NoCall
<1>3. call' \in [Phone -> [ stage : {"none", "posted", "served", "answered"},
                            msg   : Request ]]
  BY NoReqType DEF NoCall, RideInv, RideTypeOK, PhoneTypeOK
<1>4. PhoneTypeOK'  BY <1>3 DEF RideInv, RideTypeOK, PhoneTypeOK
<1>5. \A q \in Phone : call'[q].stage = "served" <=> client' = q
  BY <1>2, PhoneBounds DEF RideInv, RideTypeOK, PhoneTypeOK
<1>6. \A q \in Phone : call'[q] # call[q] => Carried(call'[q], handed', told')
  BY <1>2 DEF RideInv, RideTypeOK, PhoneTypeOK, Carried
<1>7. client' \in Phone => pc' # "idle"  BY PhoneBounds DEF vars, RideInv, RideTypeOK
<1> QED  BY <1>1, <1>4, <1>5, <1>6, <1>7, RideFrame

LEMMA CallFailsStep ==
    ASSUME RideInv, NEW p \in Phone, CallFails(p)  PROVE RideInv'
<1>1. data' \in [Phone -> Data]
      /\ screen' \in [Phone -> {"login", "reg", "driver", "passenger"}]
  BY DEF CallFails, RideInv, RideTypeOK, PhoneTypeOK
<1> QED  BY <1>1, ReturnStep DEF CallFails, HangUp

LEMMA AppKilledStep ==
    ASSUME RideInv, NEW p \in Phone, AppKilled(p)  PROVE RideInv'
<1>1. NoData \in Data /\ Known(NoData, handed, told)
  BY DEF NoData, Data, OrderKey, Known
<1>2. data \in [Phone -> Data] /\ screen \in [Phone -> {"login", "reg", "driver", "passenger"}]
  BY DEF RideInv, RideTypeOK, PhoneTypeOK
<1>3. /\ data' = [data EXCEPT ![p] = NoData]
      /\ screen' = [screen EXCEPT ![p] = "login"]
      /\ UNCHANGED vars /\ HangUp(p)
  BY DEF AppKilled
<1> QED  BY <1>1, <1>2, <1>3, ReturnStep DEF HangUp

\* An answer that arrives is honest, so what is kept of it is.
LEMMA ReceiveStep ==
    ASSUME RideInv, NEW p \in Phone, Receive(p)  PROVE RideInv'
<1> DEFINE m == call[p].msg
           Screens == {"login", "reg", "driver", "passenger"}
           Keep(d) == d \in Data /\ Known(d, handed, told)
<1>1. /\ data \in [Phone -> Data] /\ screen \in [Phone -> Screens]
      /\ Known(data[p], handed, told) /\ m \in Request
  BY DEF RideInv, RideTypeOK, PhoneTypeOK, Honest
<1>2. call[p].stage = "answered" /\ m.ok /\ Credible(m, handed, told)
  BY DEF Receive, Answered, RideInv, Honest, Carried
<1>3. /\ UNCHANGED vars /\ call' = [call EXCEPT ![p] = NoCall]
      /\ client' = client /\ client # p
  BY <1>2 DEF Receive, Return, RideInv, RideTypeOK
<1>4. ASSUME NEW d, Keep(d), data' = [data EXCEPT ![p] = d], screen' \in [Phone -> Screens]
      PROVE  RideInv'
  BY <1>1, <1>3, <1>4, ReturnStep
<1>5. ASSUME UNCHANGED data, screen' \in [Phone -> Screens]  PROVE RideInv'
  BY <1>1, <1>3, <1>5, ReturnStep
<1>6. CASE Answered(p, "login") /\ LoggedIn(p)
  <2>1. Keep([data[p] EXCEPT !.sessionid = m.sid])
    BY <1>1, <1>2, <1>6 DEF Credible, Known, Data, Answered, Request
  <2> QED  BY <1>1, <1>4, <1>6, <2>1 DEF LoggedIn
<1>7. CASE Answered(p, "reg") /\ Registered(p)
  BY <1>1, <1>5, <1>7 DEF Registered
<1>8. CASE Answered(p, "setOrder") /\ OrderStarted(p)
  <2>1. Keep([data[p] EXCEPT !.orderid = Empty])
    BY <1>1 DEF Known, Data, OrderKey
  <2> QED  BY <1>1, <1>4, <1>8, <2>1 DEF OrderStarted
<1>9. ASSUME Answered(p, "locationChanged"),
             NEW st \in DriverStatus \cup PassengerStatus \cup {Empty}
      PROVE  Keep([data[p] EXCEPT !.status = st, !.orderid = m.oid])
  <2>1. m.oid \in told \cup {None, Empty} /\ m.oid \in OrderKey
    BY <1>1, <1>2, <1>9 DEF Credible, Answered, Request
  <2> HIDE DEF m
  <2> QED  BY <1>1, <2>1 DEF Known, Data
<1>10. m.status \in DriverStatus \cup PassengerStatus \cup {Empty}
  BY <1>1 DEF Request
<1>11. CASE Answered(p, "locationChanged") /\ DriverReported(p)
  BY <1>1, <1>4, <1>9, <1>10, <1>11 DEF DriverReported
<1>12. CASE Answered(p, "locationChanged") /\ PassengerReported(p)
  <2>1. NextStatus(m.status, m.oid) \in DriverStatus \cup PassengerStatus \cup {Empty}
    BY <1>10 DEF NextStatus, PassengerStatus
  <2> QED  BY <1>1, <1>4, <1>9, <1>12, <2>1 DEF PassengerReported
<1>13. CASE Answered(p, "finishOrder") /\ OrderFinished(p)
  <2>1. Keep([data[p] EXCEPT !.orderid = None])
    BY <1>1 DEF Known, Data, OrderKey
  <2> QED  BY <1>1, <1>4, <1>13, <2>1 DEF OrderFinished
<1> QED  BY <1>6, <1>7, <1>8, <1>11, <1>12, <1>13 DEF Receive

LEMMA ReceiveErrorStep ==
    ASSUME RideInv, NEW p \in Phone, ReceiveError(p)  PROVE RideInv'
<1>1. call[p].stage = "answered"  BY DEF ReceiveError
<1>2. client # p  BY <1>1 DEF RideInv, RideTypeOK
<1>3. data' \in [Phone -> Data]
      /\ screen' \in [Phone -> {"login", "reg", "driver", "passenger"}]
  BY DEF ReceiveError, RideInv, RideTypeOK, PhoneTypeOK
<1> QED  BY <1>2, <1>3, ReturnStep DEF ReceiveError, Return

LEMMA AcceptStep ==
    ASSUME RideInv, NEW p \in Phone, Accept(p)  PROVE RideInv'
<1>1. Next  BY AcceptIsRequest DEF Next
<1>2. /\ call' = [call EXCEPT ![p].stage = "served"] /\ client' = p /\ pc = "idle"
      /\ UNCHANGED <<history, data, screen>>
  BY DEF Accept
<1>3. PhoneTypeOK'  BY <1>2 DEF RideInv, RideTypeOK, PhoneTypeOK
<1>4. client = Nobody \/ client \in Phone  BY DEF RideInv, RideTypeOK, PhoneTypeOK
<1>5. client = Nobody  BY <1>2, <1>4 DEF RideInv, RideTypeOK
<1>6. \A q \in Phone : call'[q].stage = "served" <=> client' = q
  BY <1>2, <1>5, PhoneBounds DEF RideInv, RideTypeOK, PhoneTypeOK
<1>7. \A q \in Phone : call'[q] # call[q] => Carried(call'[q], handed', told')
  BY <1>2 DEF RideInv, RideTypeOK, PhoneTypeOK, Carried
<1>8. pc' # "idle"
  <2>1. call[p].msg.op \in {"login", "reg", "setOrder", "locationChanged", "finishOrder"}
    BY PostableOp DEF Accept, RideInv, Honest, Carried
  <2> QED  BY <2>1 DEF Accept, FirstCall
<1> QED  BY <1>1, <1>2, <1>3, <1>6, <1>7, <1>8, RideFrame

LEMMA RefuseStep ==
    ASSUME RideInv, NEW p \in Phone, Refuse(p)  PROVE RideInv'
<1> DEFINE m == [call[p].msg EXCEPT !.ok = FALSE]
           c == [stage |-> "answered", msg |-> m]
<1>1. call[p].msg \in Request /\ call[p].stage = "posted"
  BY DEF Refuse, RideInv, RideTypeOK, PhoneTypeOK
<1>2. m \in Request /\ ~m.ok  BY <1>1 DEF Request
<1>3. call' = [call EXCEPT ![p] = c] /\ UNCHANGED <<vars, data, screen, client>>
  <2>1. call' = [call EXCEPT ![p] = [stage |-> "answered",
                                     msg |-> [call[p].msg EXCEPT !.ok = FALSE]]]
    BY DEF Refuse, RideInv, RideTypeOK, PhoneTypeOK
  <2> QED  BY <2>1 DEF Refuse
<1>4. c \in [stage : {"none", "posted", "served", "answered"}, msg : Request]
      /\ c.stage = "answered" /\ c.msg = m
  BY <1>2
<1> HIDE DEF m, c
<1>5. PhoneTypeOK'  BY <1>3, <1>4 DEF RideInv, RideTypeOK, PhoneTypeOK
<1>6. Carried(c, handed', told')  BY <1>2, <1>4 DEF Carried, Credible
<1>7. \A q \in Phone : call'[q].stage = "served" <=> client' = q
  BY <1>1, <1>3, <1>4 DEF RideInv, RideTypeOK, PhoneTypeOK
<1>8. client' \in Phone => pc' # "idle"  BY <1>3 DEF vars, RideInv, RideTypeOK
<1>9. \A q \in Phone : call'[q] # call[q] => Carried(call'[q], handed', told')
  BY <1>3, <1>6 DEF RideInv, RideTypeOK, PhoneTypeOK
<1> QED  BY <1>3, <1>5, <1>7, <1>8, <1>9, RideFrame

\* A remote call never ends a handler.
LEMMA RemoteCallGoesOn ==
    ASSUME TypeInv, ServerStep, pc # "reply"  PROVE pc' # "idle"
<1>1. CASE DataserverLogin \/ DataserverReg \/ CacheserverSession \/ CacheserverLifecycle
           \/ CacheserverRadiusGeo \/ CacheserverCreateOrder
           \/ SetOrderidDriver \/ SetOrderidPassenger \/ ExistSessionid \/ TouchSession
  BY <1>1 DEF DataserverLogin, DataserverReg, CacheserverSession, CacheserverLifecycle,
     CacheserverRadiusGeo, CacheserverCreateOrder, SetOrderidDriver,
     SetOrderidPassenger, ExistSessionid, TouchSession, Advance
<1>2. CASE GetOrderid  BY <1>2 DEF GetOrderid, Advance, DriverBranch, PassengerBranch
<1>3. CASE RemGeo
  <2>1. AfterRemGeo \in {"start_real", "set_dtemp", "add_geo", "reply"}
    BY DEF AfterRemGeo
  <2> QED  BY <1>3, <2>1 DEF RemGeo
<1>4. CASE AddToPool \/ StartorderReal \/ SetDtempLocation \/ SetPtempLocation
           \/ DeleteOrder
  BY <1>4 DEF AddToPool, StartorderReal, SetDtempLocation, SetPtempLocation,
     DeleteOrder, Proceed
<1>5. CASE GetOrderd \/ GetUsernamePassenger \/ GetUsernameDriver
           \/ DataserverCreateOrder \/ ReleaseDriver \/ ReleasePassenger
  BY <1>5 DEF GetOrderd, GetUsernamePassenger, GetUsernameDriver,
     DataserverCreateOrder, ReleaseDriver, ReleasePassenger, Advance
<1>6. CASE Reply  BY <1>6 DEF Reply
<1> QED  BY <1>1, <1>2, <1>3, <1>4, <1>5, <1>6 DEF ServerStep

LEMMA RemoteCallStep ==
    ASSUME RideInv, RemoteCall  PROVE RideInv'
<1>1. Next  BY DEF RemoteCall, Next
<1>2. pc' # "idle"  BY RemoteCallGoesOn DEF RemoteCall, RideInv
<1>3. UNCHANGED phoneVars  BY DEF RemoteCall
<1>4. PhoneTypeOK'  BY <1>3 DEF phoneVars, RideInv, RideTypeOK, PhoneTypeOK
<1>5. \A q \in Phone : call'[q].stage = "served" <=> client' = q
  BY <1>3 DEF phoneVars, RideInv, RideTypeOK
<1> QED  BY <1>1, <1>2, <1>3, <1>4, <1>5, RideFrame DEF phoneVars

LEMMA SessionGoneStep ==
    ASSUME RideInv, SessionGone  PROVE RideInv'
<1>1. Next  BY DEF SessionGone, Next
<1>2. UNCHANGED <<phoneVars, pc>>  BY DEF SessionGone, SessionExpires, webVars
<1>3. PhoneTypeOK'  BY <1>2 DEF phoneVars, RideInv, RideTypeOK, PhoneTypeOK
<1>4. \A q \in Phone : call'[q].stage = "served" <=> client' = q
  BY <1>2 DEF phoneVars, RideInv, RideTypeOK
<1>5. client' \in Phone => pc' # "idle"  BY <1>2 DEF phoneVars, RideInv, RideTypeOK
<1> QED  BY <1>1, <1>2, <1>3, <1>4, <1>5, RideFrame DEF phoneVars

\* When the server stops handling, the phone c gets what replaces its call.
LEMMA EndStep ==
    ASSUME RideInv, Next, NEW c \in [stage : {"none", "answered"}, msg : Request],
           call' = [p \in Phone |-> IF p = client THEN c ELSE call[p]],
           client' = Nobody, UNCHANGED <<data, screen>>, Carried(c, handed', told')
    PROVE  RideInv'
<1>1. PhoneTypeOK'
  BY DEF RideInv, RideTypeOK, PhoneTypeOK
<1>2. \A q \in Phone : call'[q].stage = "served" <=> client' = q
  BY PhoneBounds DEF RideInv, RideTypeOK
<1>3. client' \notin Phone  BY PhoneBounds
<1>4. \A q \in Phone : call'[q] # call[q] => Carried(call'[q], handed', told')
  OBVIOUS
<1> QED  BY <1>1, <1>2, <1>3, <1>4, RideFrame

LEMMA RestartOfServerStep ==
    ASSUME RideInv, RestartOfServer  PROVE RideInv'
<1>1. Next  BY DEF RestartOfServer, Next
<1>2. NoCall \in [stage : {"none", "answered"}, msg : Request]
  BY NoReqType DEF NoCall
<1>3. Carried(NoCall, handed', told')  BY DEF NoCall, Carried
<1> QED  BY <1>1, <1>2, <1>3, EndStep DEF RestartOfServer

\* The answer is what the server counts as handed over.
LEMMA AnswerIsHonest ==
    ASSUME RideInv, Reply  PROVE Answer \in Request /\ Credible(Answer, handed', told')
<1>1. req \in Request /\ NoReq \in Request /\ pc = "reply" /\ LocalsFor(pc, req)
  BY NoReqType DEF Reply, RideInv, TypeInv, TypeOK, WebTypeOK
<1>2. Results(TRUE) = {TRUE}  BY <1>1, PhoneBounds DEF Results
<1>3. CASE ~req.ok
  <2>1. Answer = [NoReq EXCEPT !.op = req.op, !.ok = FALSE]  BY <1>3 DEF Answer
  <2>2. Answer \in Request /\ ~Answer.ok  BY <1>1, <2>1 DEF Request
  <2> QED  BY <2>2 DEF Credible
<1>4. CASE req.ok /\ req.op \in {"login", "reg"}
  <2>1. Answer = [NoReq EXCEPT !.op = req.op, !.sid = req.sid, !.isDriver = req.isDriver]
    BY <1>4 DEF Answer
  <2>2. Answer \in Request /\ Answer.op = req.op /\ Answer.sid = req.sid
    BY <1>1, <2>1 DEF Request
  <2>3. req.sid \in handed'  BY <1>2, <1>4 DEF Reply
  <2> QED  BY <1>4, <2>2, <2>3 DEF Credible
<1>5. CASE req.ok /\ req.op = "locationChanged"
  <2>1. Answer = [NoReq EXCEPT !.op = req.op, !.isDriver = req.isDriver,
                               !.status = req.status, !.oid = req.oid]
    BY <1>5 DEF Answer
  <2>2. Answer \in Request /\ Answer.op = req.op /\ Answer.oid = req.oid
    BY <1>1, <2>1 DEF Request
  <2>3. req.oid \in told' \cup {None, Empty}
    <3>1. req.oid \in OrderId \cup {None, Empty}  BY <1>1 DEF Request, OrderKey
    <3>2. told' = told \cup ({req.oid} \cap OrderId)  BY <1>2, <1>5 DEF Reply
    <3> QED  BY <3>1, <3>2
  <2> QED  BY <1>5, <2>2, <2>3 DEF Credible
<1>6. CASE req.ok /\ req.op \notin {"login", "reg", "locationChanged"}
  <2>1. Answer = [NoReq EXCEPT !.op = req.op]  BY <1>6 DEF Answer
  <2>2. Answer \in Request /\ Answer.op = req.op  BY <1>1, <2>1 DEF Request
  <2> QED  BY <1>6, <2>2 DEF Credible
<1> QED  BY <1>3, <1>4, <1>5, <1>6

LEMMA ReplyToPhoneStep ==
    ASSUME RideInv, ReplyToPhone  PROVE RideInv'
<1> DEFINE c == [stage |-> "answered", msg |-> Answer]
<1>1. Next  BY DEF ReplyToPhone, ServerStep, Next
<1>2. Answer \in Request /\ Credible(Answer, handed', told')
  BY AnswerIsHonest DEF ReplyToPhone
<1>3. c \in [stage : {"none", "answered"}, msg : Request]  BY <1>2
<1>4. Carried(c, handed', told')  BY <1>2 DEF Carried
<1>5. /\ call' = [p \in Phone |-> IF p = client THEN c ELSE call[p]]
      /\ client' = Nobody /\ UNCHANGED <<data, screen>>
  BY DEF ReplyToPhone
<1> HIDE DEF c
<1> QED  BY <1>1, <1>3, <1>4, <1>5, EndStep

-----------------------------------------------------------------------------
(* The theorems *)

LEMMA RideInvInit == RideInit => RideInv
<1> SUFFICES ASSUME RideInit  PROVE RideInv
  OBVIOUS
<1>1. TypeInv  BY TypeInit DEF RideInit
<1>2. NoCall.stage = "none" /\ NoCall.msg \in Request  BY NoReqType DEF NoCall
<1>3. NoData \in Data /\ Known(NoData, handed, told)
  BY DEF NoData, Data, OrderKey, Known
<1>4. PhoneTypeOK
  <2>1. NoCall \in [stage : {"none", "posted", "served", "answered"}, msg : Request]
    BY NoReqType DEF NoCall
  <2> QED  BY <1>3, <2>1 DEF RideInit, PhoneTypeOK
<1>5. RideTypeOK
  BY <1>1, <1>2, <1>4, PhoneBounds DEF RideInit, RideTypeOK, TypeInv
<1>6. Honest  BY <1>2, <1>3 DEF RideInit, Honest, Carried
<1> QED  BY <1>1, <1>5, <1>6 DEF RideInv

LEMMA RideInvStep == RideInv /\ [RideNext]_rideVars => RideInv'
<1> SUFFICES ASSUME RideInv, [RideNext]_rideVars  PROVE RideInv'
  OBVIOUS
<1>1. CASE ServerGoesOn
  BY <1>1, RemoteCallStep, ReplyToPhoneStep DEF ServerGoesOn
<1>2. CASE SessionGone  BY <1>2, SessionGoneStep
<1>3. CASE RestartOfServer  BY <1>3, RestartOfServerStep
<1>4. ASSUME NEW p \in Phone, PhoneCall(p)  PROVE RideInv'
  BY <1>4, LoginStep, RegStep, LocationChangedStep, SetStatusStep, StartOrderStep,
     FinishOrderStep, ScreenStep DEF PhoneCall
<1>5. ASSUME NEW p \in Phone, PhoneReturn(p)  PROVE RideInv'
  BY <1>5, ReceiveStep, ReceiveErrorStep DEF PhoneReturn
<1>6. ASSUME NEW p \in Phone, Dispatch(p)  PROVE RideInv'
  BY <1>6, AcceptStep, RefuseStep DEF Dispatch
<1>7. ASSUME NEW p \in Phone, CallFails(p) \/ AppKilled(p)  PROVE RideInv'
  BY <1>7, CallFailsStep, AppKilledStep
<1>8. CASE UNCHANGED rideVars
  <2>1. /\ UNCHANGED vars /\ UNCHANGED <<data, screen, call, client>>
    BY <1>8 DEF rideVars, vars
  <2>2. TypeInv'  BY <2>1, TypeStep DEF RideInv
  <2>3. RideTypeOK'
    BY <2>1, <2>2 DEF RideInv, TypeInv, RideTypeOK, PhoneTypeOK, vars
  <2>4. Honest'  BY <2>1 DEF RideInv, Honest, vars
  <2> QED  BY <2>2, <2>3, <2>4 DEF RideInv
<1> QED  BY <1>1, <1>2, <1>3, <1>4, <1>5, <1>6, <1>7, <1>8 DEF RideNext

\* A step of the composition is a step of the servers, or none of theirs.
LEMMA RideStep == RideInv /\ [RideNext]_rideVars => [Next]_vars
<1> SUFFICES ASSUME RideInv, [RideNext]_rideVars  PROVE [Next]_vars
  OBVIOUS
<1>1. CASE ServerGoesOn
  BY <1>1 DEF ServerGoesOn, RemoteCall, ReplyToPhone, ServerStep, Next
<1>2. CASE SessionGone  BY <1>2 DEF SessionGone, Next
<1>3. CASE RestartOfServer  BY <1>3 DEF RestartOfServer, Next
<1>4. ASSUME NEW p \in Phone, PhoneCall(p)  PROVE UNCHANGED vars
  BY <1>4 DEF PhoneCall, Login, Reg, LocationChanged, SetStatus, StartOrder,
     FinishOrder, OpenReg, Back, Post
<1>5. ASSUME NEW p \in Phone, PhoneReturn(p)  PROVE UNCHANGED vars
  BY <1>5 DEF PhoneReturn, Receive, ReceiveError, Return
<1>6. ASSUME NEW p \in Phone, Dispatch(p)  PROVE [Next]_vars
  BY <1>6, AcceptIsRequest DEF Dispatch, Refuse, Next
<1>7. ASSUME NEW p \in Phone, CallFails(p) \/ AppKilled(p)  PROVE UNCHANGED vars
  BY <1>7 DEF CallFails, AppKilled
<1>8. CASE UNCHANGED rideVars  BY <1>8 DEF rideVars, vars
<1> QED  BY <1>1, <1>2, <1>3, <1>4, <1>5, <1>6, <1>7, <1>8 DEF RideNext

\* What a phone remembers and posts was handed or told to some phone, every
\* variable keeps its type, and no phone waits for a handler that has ended.
THEOREM PhonesKeepTypes == RideSpec => []RideTypeOK
<1>1. RideInv => RideTypeOK  BY DEF RideInv
<1> QED  BY <1>1, RideInvInit, RideInvStep, PTL DEF RideSpec

\* The composition of any number of phones with the web server implements
\* WebServer: the requests it leaves to unspecified clients are theirs.
THEOREM PhonesImplementClients == RideSpec => PhonesAreClients
<1>1. RideInit => Init  BY DEF RideInit
<1> QED  BY <1>1, RideInvInit, RideInvStep, RideStep, PTL DEF RideSpec, PhonesAreClients, Spec

\* With the phones there, whatever they lose: no session holds an order that is
\* gone or somebody else's, and no order that was finished comes back, if Redis
\* refuses no write at the order and at the session (redis_op.cpp:344-356).
THEOREM PhonesKeepOrders == RideSpec => []NoDanglingOrder /\ NoResurrection
<1>1. Spec => []NoDanglingOrder  BY NobodyDangles
<1>2. Spec => NoResurrection  BY OrdersStayFinished
<1>3. RideSpec => Spec  BY PhonesImplementClients DEF PhonesAreClients
<1> QED  BY <1>1, <1>2, <1>3, PTL

\* With the real phones sessions are those of registered users and expire, and no
\* order is lost; and of the orders and sessions at which Redis refuses no write,
\* "ok" means done, positions and rows are of the order's own parties, and the order
\* book is kept, with all it promises (set_order.c:98-127, finish_order.c:80-101,
\* location_changed.c:97-147; what a refused write does, redis_op.cpp:344-356).
THEOREM PhonesKeepPromises ==
    RideSpec => /\ [](FinishedIsDone /\ OrderedIsAssigned)
                /\ [](SessionIsRegistered /\ HandedSessionExpires)
                /\ OwnPosition /\ RightNames /\ NoOrderLost /\ BookSpec
                /\ []Book!HoldersAreParties /\ Book!StagesGoOn /\ Book!OnlyOpenIsGiven
<1>1. RideSpec => Spec  BY PhonesImplementClients DEF PhonesAreClients
<1>2. Spec => [](FinishedIsDone /\ OrderedIsAssigned)
  BY FinishIsFinal, OrderIsAssigned, PTL
<1>3. Spec => [](SessionIsRegistered /\ HandedSessionExpires)
  BY SessionsAreRegistered, HandedSessionsExpire, PTL
<1>4. Spec => OwnPosition /\ RightNames /\ NoOrderLost /\ BookSpec
  BY PositionsAreOwn, NamesAreRight, OrdersAreNotLost, ImplementsBook
<1>5. Spec => []Book!HoldersAreParties /\ Book!StagesGoOn /\ Book!OnlyOpenIsGiven
  BY HoldersAreOwn, OrdersGoOn
<1> QED  BY <1>1, <1>2, <1>3, <1>4, <1>5

-----------------------------------------------------------------------------
(* The bookkeeping of the phones *)

\* An order of a session: the session is a party of it, unless it was finished.
Mine(s, o) ==
    o \in SafeOrder => (Full(o) /\ s \in Parties(o)) \/ orderTable[o] # NoRow

\* What a phone remembers fits together.
Remembers(d) ==
    /\ Mine(d.sessionid, d.orderid)
    /\ d.sessionid \in PassengerSid /\ d.orderid \in OrderId => d.status # "idle"

\* What a call carries is of the session the phone has; a login is made without
\* an order.
CallFits(d, c) ==
    /\ Mine(d.sessionid, c.msg.oid)
    /\ c.msg.op = "login" => d.orderid = None
    /\ c.msg.op = "locationChanged" =>
          /\ c.msg.isDriver = "yes" => d.sessionid \in DriverSid
          /\ c.stage # "answered" => c.msg.sid = d.sessionid

\* The locals q of a handler are still those of the message m it was given.
Serves(q, m) ==
    /\ q.op = m.op
    /\ q.isDriver \in {m.isDriver, Empty}
    /\ q.op = "locationChanged" => q.sid = m.sid
    /\ q.op = "finishOrder" => q.oid \in {m.oid, Empty}

Bookkeeping ==
    \A p \in Phone :
        /\ Remembers(data[p])
        /\ CallFits(data[p], call[p])
        /\ client = p => Serves(req, call[p].msg)

BookkeepingInv == RideInv /\ PartyInv /\ Bookkeeping

-----------------------------------------------------------------------------
(* What the servers do to the orders of a session *)

\* An order stays a session's own until it is finished, and then it has its row.
LEMMA MineKept ==
    ASSUME PartyInv, PartyInv', [Next]_vars, NEW s, NEW o, Mine(s, o)
    PROVE  Mine(s, o)'
<1> SUFFICES ASSUME o \in SafeOrder, o \in OrderId, orderTable'[o] = NoRow
             PROVE  (Full(o) /\ s \in Parties(o))'
  BY DEF Mine, SafeOrder
<1>1. orderTable[o] = NoRow  BY RowsByStep DEF PartyInv, RowsKept
<1>2. Full(o) /\ s \in Parties(o)  BY <1>1 DEF Mine
<1>3. CASE CacheserverCreateOrder
  <2>1. PICK q \in OrderId \ orders : \E h : hash' = [hash EXCEPT ![q] = h]
    BY <1>3 DEF CacheserverCreateOrder, SetHash
  <2>2. hash[q] = Blank /\ Blank.driver_sessionid = Empty
    BY <2>1 DEF PartyInv, OrderInv, DataInv, UnusedOrders, Blank
  <2>3. o # q  BY <1>2, <2>2, KeysDiffer DEF Full
  <2>4. hash'[o] = hash[o]
    BY <2>1, <2>3 DEF PartyInv, OrderInv, TypeInv, TypeOK, DataTypeOK, Key, OrderKey
  <2> QED  BY <1>2, <2>4 DEF Full, Parties
<1>4. CASE DeleteOrder
  <2>1. hash' = hash \/ hash' = [hash EXCEPT ![req.oid] = Blank]
    BY <1>4 DEF DeleteOrder, DeleteKey, Remove, dataVars
  <2>2. o # req.oid
    BY <1>1, <1>4 DEF DeleteOrder, PartyInv, OrderInv, TypeInv, LocalsFor, HandlerInv,
       Finishing, FinishSteps
  <2>3. hash'[o] = hash[o]
    BY <2>1, <2>2 DEF PartyInv, OrderInv, TypeInv, TypeOK, DataTypeOK, Key, OrderKey
  <2> QED  BY <1>2, <2>3 DEF Full, Parties
<1>5. CASE ~CacheserverCreateOrder /\ ~DeleteOrder
  <2>1. PartiesKept  BY <1>5, PartiesByStep DEF PartyInv
  <2> QED  BY <1>2, <2>1 DEF PartiesKept, Full, Parties
<1> QED  BY <1>3, <1>4, <1>5

\* What is left to show of a step: the phone it is about.
LEMMA BookkeepingFrame ==
    ASSUME BookkeepingInv, PartyInv', [Next]_vars,
           \A p \in Phone : data'[p] # data[p] => Remembers(data[p])',
           \A p \in Phone : data'[p] # data[p] \/ call'[p] # call[p]
                               => CallFits(data[p], call[p])',
           \A p \in Phone : client' = p => Serves(req', call'[p].msg)
    PROVE  Bookkeeping'
<1> SUFFICES ASSUME NEW p \in Phone
             PROVE  Remembers(data[p])' /\ CallFits(data[p], call[p])'
  BY DEF Bookkeeping
<1>1. PartyInv /\ Remembers(data[p]) /\ CallFits(data[p], call[p])
  BY DEF BookkeepingInv, Bookkeeping
<1>2. CASE data'[p] = data[p]
  <2> DEFINE s == data[p].sessionid
             o == data[p].orderid
             q == call[p].msg.oid
  <2>1. Mine(s, o) /\ Mine(s, q)  BY <1>1 DEF Remembers, CallFits
  <2>2. \A x, y : Mine(x, y) => Mine(x, y)'  BY <1>1, MineKept
  <2>3. Remembers(data[p])'  BY <1>1, <1>2, <2>1, <2>2 DEF Remembers
  <2>4. CASE call'[p] = call[p]
    BY <1>1, <1>2, <2>1, <2>2, <2>3, <2>4 DEF CallFits
  <2>5. CASE call'[p] # call[p]  BY <2>3, <2>5
  <2> QED  BY <2>4, <2>5
<1>3. CASE data'[p] # data[p]  BY <1>3
<1> QED  BY <1>2, <1>3

-----------------------------------------------------------------------------
(* The servers' steps *)

USE DEF AuthSteps, AssignSteps, ReportSteps, FinishSteps

\* Locals a call that goes on, or fails, leaves.
LEMMA AdvanceServes ==
    ASSUME NEW r, NEW ok, NEW next, NEW m, Advance(r, ok, next), Serves(r, m)
    PROVE  Serves(req', m)
<1>1. CASE ok  BY <1>1 DEF Advance
<1>2. CASE ~ok
  <2>1. /\ req'.op = r.op /\ req'.sid = r.sid /\ req'.isDriver = Empty /\ req'.oid = Empty
    BY <1>2 DEF Advance, NoReq
  <2> QED  BY <2>1 DEF Serves
<1> QED  BY <1>1, <1>2

\* A remote call leaves the locals those of its message.
LEMMA RemoteCallServes ==
    ASSUME TypeInv, ServerStep, pc # "reply", NEW m, Serves(req, m)
    PROVE  Serves(req', m)
<1>1. req \in Request  BY DEF TypeInv, TypeOK, WebTypeOK
<1>2. ASSUME NEW ok, NEW next, Advance(req, ok, next)  PROVE Serves(req', m)
  BY <1>2, AdvanceServes
<1>3. CASE DataserverLogin \/ DataserverReg \/ CacheserverLifecycle
           \/ SetOrderidDriver \/ SetOrderidPassenger \/ TouchSession
           \/ DataserverCreateOrder \/ ReleaseDriver \/ ReleasePassenger
  BY <1>2, <1>3 DEF DataserverLogin, DataserverReg, CacheserverLifecycle,
     SetOrderidDriver, SetOrderidPassenger, TouchSession, DataserverCreateOrder,
     ReleaseDriver, ReleasePassenger
<1>4. CASE CacheserverSession
  <2> DEFINE r(s) == [req EXCEPT !.sid = s]
  <2>1. PICK s, ok : Advance(r(s), ok, "lifecycle")  BY <1>4 DEF CacheserverSession
  <2>2. req.op \in {"login", "reg"}  BY <1>4 DEF CacheserverSession, TypeInv, LocalsFor
  <2>3. Serves(r(s), m)  BY <1>1, <2>2 DEF Serves, Request
  <2> HIDE DEF r
  <2> QED  BY <2>1, <2>3, AdvanceServes
<1>5. CASE CacheserverRadiusGeo
  <2> DEFINE r(d, ok) == [req EXCEPT !.driver = d,
                                     !.recode = IF ok /\ d = Empty THEN "3" ELSE "0"]
  <2>1. PICK d, ok : Advance(r(d, ok), ok /\ d # Empty, "create_order")
    BY <1>5 DEF CacheserverRadiusGeo
  <2>2. Serves(r(d, ok), m)  BY <1>1 DEF Serves, Request
  <2> HIDE DEF r
  <2> QED  BY <2>1, <2>2, AdvanceServes
<1>6. CASE CacheserverCreateOrder
  <2> DEFINE r(o) == [req EXCEPT !.oid = o]
  <2>1. PICK o, ok : Advance(r(o), ok, "driver_orderid")  BY <1>6 DEF CacheserverCreateOrder
  <2>2. req.op = "setOrder"  BY <1>6 DEF CacheserverCreateOrder, TypeInv, LocalsFor
  <2>3. Serves(r(o), m)  BY <1>1, <2>2 DEF Serves, Request
  <2> HIDE DEF r
  <2> QED  BY <2>1, <2>3, AdvanceServes
<1>7. CASE ExistSessionid
  <2> DEFINE r(ok) == [req EXCEPT !.recode = IF ok THEN "0" ELSE "2"]
  <2>1. PICK ok : Advance(r(ok), ok, "touch")  BY <1>7 DEF ExistSessionid
  <2>2. Serves(r(ok), m)  BY <1>1 DEF Serves, Request
  <2> HIDE DEF r
  <2> QED  BY <2>1, <2>2, AdvanceServes
<1>8. CASE GetOrderid
  <2> DEFINE r(ok) == [req EXCEPT !.oid = IF ok THEN hash[req.sid].orderid ELSE Empty]
             next == IF req.isDriver = "yes" THEN DriverBranch(req.status)
                                             ELSE PassengerBranch(req.status)
  <2>1. PICK ok : Advance(r(ok), ok, next)  BY <1>8 DEF GetOrderid
  <2>2. req.op = "locationChanged"  BY <1>8 DEF GetOrderid, TypeInv, LocalsFor
  <2>3. Serves(r(ok), m)  BY <1>1, <2>2 DEF Serves, Request
  <2> HIDE DEF r, next
  <2> QED  BY <2>1, <2>3, AdvanceServes
<1>9. CASE RemGeo
  <2>1. req.op = "locationChanged"  BY <1>9 DEF RemGeo, TypeInv, LocalsFor
  <2>2. /\ req'.op = req.op /\ req'.isDriver = req.isDriver /\ req'.sid = req.sid
    BY <1>1, <1>9 DEF RemGeo, Request
  <2> QED  BY <2>1, <2>2 DEF Serves
<1>10. CASE AddToPool \/ StartorderReal \/ SetDtempLocation \/ SetPtempLocation \/ DeleteOrder
  BY <1>10 DEF AddToPool, StartorderReal, SetDtempLocation, SetPtempLocation, DeleteOrder,
     Proceed
<1>11. CASE GetOrderd \/ GetUsernamePassenger \/ GetUsernameDriver
  <2> DEFINE found == [req EXCEPT !.passenger = hash[req.oid].passenger_sessionid,
                                  !.driver = hash[req.oid].driver_sessionid,
                                  !.row.start_order_time = hash[req.oid].start_order_time]
             pname == [req EXCEPT !.row.passenger_username = hash[req.passenger].username]
             dname == [req EXCEPT !.row.driver_username = hash[req.driver].username]
  <2>1. PICK r \in {req, found, pname, dname} : \E ok, next : Advance(r, ok, next)
    BY <1>11 DEF GetOrderd, GetUsernamePassenger, GetUsernameDriver
  <2>2. Serves(found, m) /\ Serves(pname, m) /\ Serves(dname, m)  BY <1>1 DEF Serves, Request
  <2> HIDE DEF found, pname, dname
  <2>3. Serves(r, m)  BY <2>1, <2>2
  <2> QED  BY <2>1, <2>3, AdvanceServes
<1>12. ~Reply  BY DEF Reply
<1> QED
  BY <1>3, <1>4, <1>5, <1>6, <1>7, <1>8, <1>9, <1>10, <1>11, <1>12 DEF ServerStep

LEMMA RemoteCallBookkeeping ==
    ASSUME BookkeepingInv, PartyInv', RemoteCall  PROVE Bookkeeping'
<1>1. [Next]_vars /\ ServerStep /\ pc # "reply" /\ UNCHANGED phoneVars
  BY DEF RemoteCall, Next
<1>2. \A p \in Phone : client' = p => Serves(req', call'[p].msg)
  BY <1>1, RemoteCallServes DEF BookkeepingInv, RideInv, Bookkeeping, phoneVars
<1> QED  BY <1>1, <1>2, BookkeepingFrame DEF phoneVars

LEMMA SessionGoneBookkeeping ==
    ASSUME BookkeepingInv, PartyInv', SessionGone  PROVE Bookkeeping'
<1>1. [Next]_vars /\ UNCHANGED phoneVars /\ UNCHANGED req
  BY DEF SessionGone, SessionExpires, Next, webVars
<1>2. \A p \in Phone : client' = p => Serves(req', call'[p].msg)
  BY <1>1 DEF BookkeepingInv, Bookkeeping, phoneVars
<1> QED  BY <1>1, <1>2, BookkeepingFrame DEF phoneVars

\* A call that is over carries nothing.
LEMMA NoCallFits ==
    ASSUME NEW d  PROVE CallFits(d, NoCall)'
<1>1. NoCall.msg = NoReq /\ NoReq.oid = Empty /\ NoReq.op = "none"
  BY DEF NoCall, NoReq
<1> QED  BY <1>1, KeysDiffer DEF CallFits, Mine, SafeOrder

LEMMA RestartOfServerBookkeeping ==
    ASSUME BookkeepingInv, PartyInv', RestartOfServer  PROVE Bookkeeping'
<1>1. /\ [Next]_vars /\ client' \notin Phone /\ UNCHANGED data
      /\ \A p \in Phone : call'[p] \in {call[p], NoCall}
  BY PhoneBounds DEF RestartOfServer, Next
<1> QED  BY <1>1, NoCallFits, BookkeepingFrame

\* The answer of locationChanged tells the phone of an order of its session.
LEMMA ReplyToPhoneBookkeeping ==
    ASSUME BookkeepingInv, PartyInv', ReplyToPhone  PROVE Bookkeeping'
<1>1. PICK a : a = Answer  OBVIOUS
<1> DEFINE c == [stage |-> "answered", msg |-> a]
<1>2. /\ [Next]_vars /\ client' \notin Phone /\ UNCHANGED data /\ Reply
      /\ call' = [p \in Phone |-> IF p = client THEN c ELSE call[p]]
  BY <1>1, PhoneBounds DEF ReplyToPhone, ServerStep, Next
<1>3. ASSUME NEW p \in Phone, p = client  PROVE CallFits(data[p], c)'
  <2>1. /\ CallFits(data[p], call[p]) /\ Serves(req, call[p].msg)
        /\ call[p].stage = "served"
    BY <1>3 DEF BookkeepingInv, Bookkeeping, RideInv, RideTypeOK
  <2>2. /\ a.op = req.op
        /\ a.oid \in {Empty, req.oid}
        /\ a.oid # Empty => req.op = "locationChanged"
        /\ req.op = "locationChanged" => a.isDriver \in {Empty, req.isDriver}
    BY <1>1 DEF Answer, NoReq
  <2>3. Mine(data[p].sessionid, a.oid)
    <3> SUFFICES ASSUME a.oid \in SafeOrder  PROVE Mine(data[p].sessionid, a.oid)
      BY DEF Mine
    <3>1. req.op = "locationChanged" /\ a.oid = req.oid  BY <2>2, KeysDiffer DEF SafeOrder
    <3>2. req.sid = data[p].sessionid  BY <2>1, <3>1 DEF CallFits, Serves
    <3> QED
      BY <3>1, <3>2 DEF BookkeepingInv, PartyInv, LocalParty, Reporter, Own, Mine
  <2>4. a.op = "locationChanged" =>
            (a.isDriver = "yes" => data[p].sessionid \in DriverSid)
    <3>1. Empty # "yes"  BY DEF Empty
    <3> QED  BY <2>1, <2>2, <3>1 DEF CallFits, Serves
  <2>5. a.op = "login" => data[p].orderid = None
    BY <2>1, <2>2 DEF CallFits, Serves
  <2> DEFINE s == data[p].sessionid
             o == a.oid
  <2>6. \A x, y : Mine(x, y) => Mine(x, y)'
    BY <1>2, MineKept DEF BookkeepingInv
  <2>7. UNCHANGED data  BY <1>2
  <2>8. Mine(s, o)  BY <2>3
  <2> QED  BY <1>2, <2>4, <2>5, <2>6, <2>7, <2>8 DEF CallFits
<1> QED  BY <1>2, <1>3, BookkeepingFrame

LEMMA DispatchBookkeeping ==
    ASSUME BookkeepingInv, PartyInv', NEW p \in Phone, Dispatch(p)  PROVE Bookkeeping'
<1>1. /\ call \in [Phone -> [stage : {"none", "posted", "served", "answered"}, msg : Request]]
      /\ Mine(data[p].sessionid, call[p].msg.oid)
      /\ CallFits(data[p], call[p])
  BY DEF BookkeepingInv, Bookkeeping, RideInv, RideTypeOK, PhoneTypeOK, CallFits
<1>2. CASE Accept(p)
  <2>1. /\ call' = [call EXCEPT ![p].stage = "served"] /\ client' = p
        /\ req' = call[p].msg /\ UNCHANGED <<dataVars, data>> /\ call[p].stage = "posted"
    BY <1>2 DEF Accept
  <2>2. [Next]_vars  BY <1>2, AcceptIsRequest DEF BookkeepingInv, Next
  <2>3. call'[p].stage = "served" /\ call'[p].msg = call[p].msg  BY <1>1, <2>1
  <2>4. Mine(data[p].sessionid, call[p].msg.oid)'
    BY <1>1, <2>1, <2>3 DEF Mine, Full, Parties, dataVars
  <2>5. CallFits(data[p], call[p])'  BY <1>1, <2>1, <2>3, <2>4 DEF CallFits
  <2>6. \A q \in Phone : q # p => call'[q] = call[q]  BY <1>1, <2>1
  <2>7. Serves(req', call'[p].msg)  BY <2>1, <2>3 DEF Serves
  <2> QED  BY <2>1, <2>2, <2>5, <2>6, <2>7, BookkeepingFrame
<1>3. CASE Refuse(p)
  <2> DEFINE m == [call[p].msg EXCEPT !.ok = FALSE]
  <2>1. /\ call' = [call EXCEPT ![p] = [stage |-> "answered", msg |-> m]]
        /\ UNCHANGED <<vars, data, client>> /\ call[p].stage = "posted"
    BY <1>1, <1>3 DEF Refuse
  <2>2. m.oid = call[p].msg.oid /\ m.op = call[p].msg.op /\ m.isDriver = call[p].msg.isDriver
    BY <1>1 DEF Request
  <2> HIDE DEF m
  <2>3. call'[p].stage = "answered" /\ call'[p].msg = m  BY <1>1, <2>1
  <2>4. Mine(data[p].sessionid, call[p].msg.oid)'
    BY <1>1, <2>1, <2>2, <2>3 DEF Mine, Full, Parties, vars
  <2>5. CallFits(data[p], call[p])'  BY <1>1, <2>1, <2>2, <2>3, <2>4 DEF CallFits
  <2>6. client # p  BY <2>1 DEF BookkeepingInv, RideInv, RideTypeOK
  <2>7. \A q \in Phone : client' = q => Serves(req', call'[q].msg)
    BY <1>1, <2>1, <2>6 DEF BookkeepingInv, Bookkeeping, vars
  <2>8. \A q \in Phone : q # p => call'[q] = call[q]  BY <1>1, <2>1
  <2> QED  BY <2>1, <2>5, <2>7, <2>8, BookkeepingFrame
<1> QED  BY <1>2, <1>3 DEF Dispatch

-----------------------------------------------------------------------------
(* The phones' steps *)

\* A step of phone p alone: its Data and its call afterwards.
LEMMA PhoneStep ==
    ASSUME BookkeepingInv, PartyInv', UNCHANGED vars, NEW p \in Phone, NEW d, NEW c,
           data' = [data EXCEPT ![p] = d], call' = [call EXCEPT ![p] = c],
           client' \in {client, Nobody}, client' # p,
           Remembers(d), CallFits(d, c)
    PROVE  Bookkeeping'
<1>1. /\ DOMAIN data = Phone /\ DOMAIN call = Phone
      /\ data = [q \in Phone |-> data[q]] /\ call = [q \in Phone |-> call[q]]
  BY DEF BookkeepingInv, RideInv, RideTypeOK, PhoneTypeOK
<1>2. \A q \in Phone : q # p => data'[q] = data[q] /\ call'[q] = call[q]  BY <1>1
<1>3. data'[p] = d /\ call'[p] = c  BY <1>1
<1>4. \A x, y : Mine(x, y)' <=> Mine(x, y)  BY DEF Mine, Full, Parties, vars
<1>5. Remembers(data[p])'  BY <1>3, <1>4 DEF Remembers
<1>6. CallFits(data[p], call[p])'  BY <1>3, <1>4 DEF CallFits
<1>7. \A q \in Phone : client' = q => Serves(req', call'[q].msg)
  BY <1>2, PhoneBounds DEF BookkeepingInv, Bookkeeping, vars
<1> QED  BY <1>2, <1>5, <1>6, <1>7, BookkeepingFrame

\* What is known of a phone before it takes a step of its own.
LEMMA PhoneFacts ==
    ASSUME BookkeepingInv, NEW p \in Phone
    PROVE  /\ data \in [Phone -> Data]
           /\ call \in [Phone -> [ stage : {"none", "posted", "served", "answered"},
                                   msg : Request ]]
           /\ Remembers(data[p]) /\ CallFits(data[p], call[p])
           /\ data[p] \in Data /\ call[p].msg \in Request
           /\ call[p].stage # "served" => client # p
BY DEF BookkeepingInv, Bookkeeping, RideInv, RideTypeOK, PhoneTypeOK

\* A message that is posted: login has forgotten the order, a report is of the
\* session the phone has, a finish of the order it has.
LEMMA PostBookkeeping ==
    ASSUME BookkeepingInv, PartyInv', NEW p \in Phone, Free(p), NEW m, Post(p, m),
           NEW d, data' = [data EXCEPT ![p] = d], Remembers(d),
           m.op = "login" => d.orderid = None,
           m.oid \in {Empty, d.orderid},
           m.op = "locationChanged" =>
              m.sid = d.sessionid /\ (m.isDriver = "yes" => d.sessionid \in DriverSid)
    PROVE  Bookkeeping'
<1> DEFINE c == [stage |-> "posted", msg |-> m]
<1>1. call' = [call EXCEPT ![p] = c] /\ client' = client /\ UNCHANGED vars  BY DEF Post
<1>2. client # p  BY PhoneFacts DEF Free
<1>3. Mine(d.sessionid, m.oid)  BY KeysDiffer DEF Mine, Remembers, SafeOrder
<1>4. CallFits(d, c)  BY <1>3 DEF CallFits
<1> HIDE DEF c
<1> QED  BY <1>1, <1>2, <1>4, PhoneStep

LEMMA PhoneCallBookkeeping ==
    ASSUME BookkeepingInv, PartyInv', NEW p \in Phone, PhoneCall(p)  PROVE Bookkeeping'
<1>1. /\ data \in [Phone -> Data] /\ Remembers(data[p]) /\ data[p] \in Data
      /\ CallFits(data[p], call[p])
  BY PhoneFacts
<1>2. ASSUME UNCHANGED data  PROVE data' = [data EXCEPT ![p] = data[p]]
  BY <1>1, <1>2
<1>3. ASSUME NEW u \in User, NEW role \in {"yes", "no"}, Login(p, u, role)
      PROVE  Bookkeeping'
  <2> DEFINE m == [NoReq EXCEPT !.op = "login", !.user = u, !.isDriver = role]
             d == [data[p] EXCEPT !.orderid = None, !.status = "idle"]
  <2>1. m.op = "login" /\ m.oid = Empty  BY DEF NoReq
  <2>2. d.orderid = None /\ d.sessionid = data[p].sessionid  BY <1>1 DEF Data
  <2>3. Free(p) /\ Post(p, m) /\ data' = [data EXCEPT ![p] = d]  BY <1>1, <1>3 DEF Login
  <2>4. Remembers(d)  BY <2>2, KeysDiffer DEF Remembers, Mine, SafeOrder
  <2> HIDE DEF m, d
  <2> QED  BY <2>1, <2>2, <2>3, <2>4, PostBookkeeping
<1>4. ASSUME NEW u \in User, NEW role \in {"yes", "no"}, Reg(p, u, role)
      PROVE  Bookkeeping'
  <2> DEFINE m == [NoReq EXCEPT !.op = "reg", !.user = u, !.isDriver = role]
  <2>1. m.op = "reg" /\ m.oid = Empty  BY DEF NoReq
  <2>2. Free(p) /\ Post(p, m) /\ UNCHANGED data  BY <1>4 DEF Reg
  <2> HIDE DEF m
  <2> QED  BY <1>1, <1>2, <2>1, <2>2, PostBookkeeping
<1>5. ASSUME StartOrder(p)  PROVE Bookkeeping'
  <2> DEFINE m == [NoReq EXCEPT !.op = "setOrder", !.sid = data[p].sessionid,
                                !.passenger = data[p].sessionid]
  <2>1. m.op = "setOrder" /\ m.oid = Empty  BY DEF NoReq
  <2>2. Free(p) /\ Post(p, m) /\ UNCHANGED data  BY <1>5 DEF StartOrder
  <2> HIDE DEF m
  <2> QED  BY <1>1, <1>2, <2>1, <2>2, PostBookkeeping
<1>6. ASSUME NEW auto \in BOOLEAN, LocationChanged(p, auto)  PROVE Bookkeeping'
  <2> DEFINE m == [NoReq EXCEPT !.op = "locationChanged", !.sid = data[p].sessionid,
                     !.isDriver = IF screen[p] = "driver" THEN "yes" ELSE "no",
                     !.status = data[p].status, !.autosend = auto]
  <2>1. /\ m.op = "locationChanged" /\ m.oid = Empty /\ m.sid = data[p].sessionid
        /\ m.isDriver = "yes" => screen[p] = "driver"
    BY DEF NoReq
  <2>2. Free(p) /\ Post(p, m) /\ UNCHANGED data  BY <1>6 DEF LocationChanged
  <2>3. screen[p] = "driver" => data[p].sessionid \in DriverSid
    BY <1>6 DEF LocationChanged, HasSession
  <2> HIDE DEF m
  <2> QED  BY <1>1, <1>2, <2>1, <2>2, <2>3, PostBookkeeping
<1>7. ASSUME FinishOrder(p)  PROVE Bookkeeping'
  <2> DEFINE m == [NoReq EXCEPT !.op = "finishOrder", !.oid = data[p].orderid]
  <2>1. m.op = "finishOrder" /\ m.oid = data[p].orderid  BY DEF NoReq
  <2>2. Free(p) /\ Post(p, m) /\ UNCHANGED data  BY <1>7 DEF FinishOrder
  <2> HIDE DEF m
  <2> QED  BY <1>1, <1>2, <2>1, <2>2, PostBookkeeping
<1>8. ASSUME NEW status, SetStatus(p, status)  PROVE Bookkeeping'
  <2> DEFINE d == [data[p] EXCEPT !.status = status]
  <2>1. d.orderid = data[p].orderid /\ d.sessionid = data[p].sessionid  BY <1>1 DEF Data
  <2>2. data[p].sessionid \in DriverSid  BY <1>8 DEF SetStatus, HasSession
  <2>3. Remembers(d)
    BY <1>1, <2>1, <2>2, Identifiers DEF Remembers
  <2>4. CallFits(d, call[p])  BY <1>1, <2>1 DEF CallFits
  <2>5. /\ data' = [data EXCEPT ![p] = d] /\ call' = [call EXCEPT ![p] = call[p]]
        /\ UNCHANGED vars /\ client' = client /\ client # p
    BY <1>1, <1>8, PhoneFacts DEF SetStatus, Free
  <2> HIDE DEF d
  <2> QED  BY <2>3, <2>4, <2>5, PhoneStep
<1>9. ASSUME OpenReg(p) \/ Back(p)  PROVE Bookkeeping'
  <2>1. UNCHANGED <<vars, data, call, client>>  BY <1>9 DEF OpenReg, Back
  <2>2. \A q \in Phone : client' = q => Serves(req', call'[q].msg)
    BY <2>1 DEF BookkeepingInv, Bookkeeping, vars
  <2> QED  BY <2>1, <2>2, BookkeepingFrame
<1> QED  BY <1>3, <1>4, <1>5, <1>6, <1>7, <1>8, <1>9 DEF PhoneCall

\* A call that ends leaves nothing of itself.
LEMMA ReturnBookkeeping ==
    ASSUME BookkeepingInv, PartyInv', UNCHANGED vars, NEW p \in Phone, NEW d,
           data' = [data EXCEPT ![p] = d], call' = [call EXCEPT ![p] = NoCall],
           client' \in {client, Nobody}, client' # p, Remembers(d)
    PROVE  Bookkeeping'
<1>1. NoCall.msg = NoReq /\ NoReq.oid = Empty /\ NoReq.op = "none"
  BY DEF NoCall, NoReq
<1>2. CallFits(d, NoCall)  BY <1>1, KeysDiffer DEF CallFits, Mine, SafeOrder
<1>3. PICK c : c = NoCall  OBVIOUS
<1>4. call' = [call EXCEPT ![p] = c] /\ CallFits(d, c)  BY <1>2, <1>3
<1> QED  BY <1>4, PhoneStep

LEMMA ReceiveBookkeeping ==
    ASSUME BookkeepingInv, PartyInv', NEW p \in Phone, Receive(p)  PROVE Bookkeeping'
<1> DEFINE m == call[p].msg
<1>1. /\ data \in [Phone -> Data] /\ data[p] \in Data
      /\ Remembers(data[p]) /\ CallFits(data[p], call[p])
  BY PhoneFacts
<1>2. /\ UNCHANGED vars /\ call' = [call EXCEPT ![p] = NoCall]
      /\ client' = client /\ call[p].stage = "answered"
  BY DEF Receive, Return, Answered
<1>3. client # p  BY <1>2, PhoneFacts
<1>4. ASSUME NEW d, data' = [data EXCEPT ![p] = d], Remembers(d)  PROVE Bookkeeping'
  BY <1>2, <1>3, <1>4, ReturnBookkeeping
<1>5. CASE Answered(p, "login") /\ LoggedIn(p)
  <2> DEFINE d == [data[p] EXCEPT !.sessionid = m.sid]
  <2>1. data[p].orderid = None  BY <1>1, <1>5 DEF CallFits, Answered
  <2>2. d.orderid = None  BY <1>1, <2>1 DEF Data
  <2>3. Remembers(d)  BY <2>2, KeysDiffer DEF Remembers, Mine, SafeOrder
  <2>4. data' = [data EXCEPT ![p] = d]  BY <1>1, <1>5 DEF LoggedIn
  <2> QED  BY <1>4, <2>3, <2>4
<1>6. CASE Answered(p, "reg") /\ Registered(p)
  <2>1. data' = [data EXCEPT ![p] = data[p]]  BY <1>1, <1>6 DEF Registered
  <2> QED  BY <1>1, <1>4, <2>1
<1>7. CASE Answered(p, "setOrder") /\ OrderStarted(p)
  <2> DEFINE d == [data[p] EXCEPT !.orderid = Empty]
  <2>1. d.orderid = Empty  BY <1>1 DEF Data
  <2>2. Remembers(d)  BY <2>1, KeysDiffer DEF Remembers, Mine, SafeOrder
  <2>3. data' = [data EXCEPT ![p] = d]  BY <1>1, <1>7 DEF OrderStarted
  <2> QED  BY <1>4, <2>2, <2>3
<1>8. CASE /\ Answered(p, "locationChanged") /\ m.isDriver = "yes"
           /\ DriverReported(p)
  <2> DEFINE d == [data[p] EXCEPT !.status = m.status, !.orderid = m.oid]
  <2>1. data[p].sessionid \in DriverSid /\ Mine(data[p].sessionid, m.oid)
    BY <1>1, <1>8 DEF CallFits, Answered
  <2>2. d.orderid = m.oid /\ d.sessionid = data[p].sessionid  BY <1>1 DEF Data
  <2>3. Remembers(d)  BY <2>1, <2>2, Identifiers DEF Remembers
  <2>4. data' = [data EXCEPT ![p] = d]  BY <1>1, <1>8 DEF DriverReported
  <2> QED  BY <1>4, <2>3, <2>4
<1>9. CASE /\ Answered(p, "locationChanged") /\ m.isDriver = "no"
           /\ PassengerReported(p)
  <2> DEFINE st == NextStatus(m.status, m.oid)
             d == [data[p] EXCEPT !.status = st, !.orderid = m.oid]
  <2>1. Mine(data[p].sessionid, m.oid)  BY <1>1 DEF CallFits
  <2>2. d.orderid = m.oid /\ d.sessionid = data[p].sessionid /\ d.status = st
    BY <1>1 DEF Data
  <2>3. m.oid \in OrderId => st # "idle"  BY KeysDiffer DEF NextStatus
  <2>4. Remembers(d)  BY <2>1, <2>2, <2>3 DEF Remembers
  <2>5. data' = [data EXCEPT ![p] = d]  BY <1>1, <1>9 DEF PassengerReported
  <2> QED  BY <1>4, <2>4, <2>5
<1>10. CASE Answered(p, "finishOrder") /\ OrderFinished(p)
  <2> DEFINE d == [data[p] EXCEPT !.orderid = None]
  <2>1. d.orderid = None  BY <1>1 DEF Data
  <2>2. Remembers(d)  BY <2>1, KeysDiffer DEF Remembers, Mine, SafeOrder
  <2>3. data' = [data EXCEPT ![p] = d]  BY <1>1, <1>10 DEF OrderFinished
  <2> QED  BY <1>4, <2>2, <2>3
<1> QED  BY <1>5, <1>6, <1>7, <1>8, <1>9, <1>10 DEF Receive

LEMMA LostBookkeeping ==
    ASSUME BookkeepingInv, PartyInv', NEW p \in Phone,
           ReceiveError(p) \/ CallFails(p) \/ AppKilled(p)
    PROVE  Bookkeeping'
<1>1. data \in [Phone -> Data] /\ Remembers(data[p])  BY PhoneFacts
<1>2. CASE ReceiveError(p)
  <2>1. /\ UNCHANGED vars /\ client' = client /\ client # p
        /\ call' = [call EXCEPT ![p] = NoCall] /\ data' = [data EXCEPT ![p] = data[p]]
    BY <1>1, <1>2, PhoneFacts DEF ReceiveError, Return
  <2> QED  BY <1>1, <2>1, ReturnBookkeeping
<1>3. CASE CallFails(p)
  <2>1. /\ UNCHANGED vars /\ client' \in {client, Nobody} /\ client' # p
        /\ call' = [call EXCEPT ![p] = NoCall] /\ data' = [data EXCEPT ![p] = data[p]]
    BY <1>1, <1>3, PhoneBounds DEF CallFails, HangUp
  <2> QED  BY <1>1, <2>1, ReturnBookkeeping
<1>4. CASE AppKilled(p)
  <2>1. /\ UNCHANGED vars /\ client' \in {client, Nobody} /\ client' # p
        /\ call' = [call EXCEPT ![p] = NoCall] /\ data' = [data EXCEPT ![p] = NoData]
    BY <1>4, PhoneBounds DEF AppKilled, HangUp
  <2>2. NoData.orderid = Empty  BY DEF NoData
  <2>3. Remembers(NoData)  BY <2>2, KeysDiffer DEF Remembers, Mine, SafeOrder
  <2> QED  BY <2>1, <2>3, ReturnBookkeeping
<1> QED  BY <1>2, <1>3, <1>4

-----------------------------------------------------------------------------
(* The theorems *)

LEMMA BookkeepingInit == RideInit => BookkeepingInv
<1> SUFFICES ASSUME RideInit  PROVE BookkeepingInv
  OBVIOUS
<1>1. RideInv  BY RideInvInit
<1>2. PartyInv  BY PartyInit DEF RideInit
<1>3. ASSUME NEW p \in Phone
      PROVE  /\ Remembers(data[p]) /\ CallFits(data[p], call[p]) /\ client # p
  <2>1. data[p] = NoData /\ call[p] = NoCall /\ client # p
    BY PhoneBounds DEF RideInit
  <2>2. /\ NoData.orderid = Empty /\ NoCall.msg = NoReq
        /\ NoReq.oid = Empty /\ NoReq.op = "none"
    BY DEF NoData, NoCall, NoReq
  <2> QED  BY <2>1, <2>2, KeysDiffer DEF Remembers, CallFits, Mine, SafeOrder
<1> QED  BY <1>1, <1>2, <1>3 DEF BookkeepingInv, Bookkeeping

LEMMA BookkeepingStep == BookkeepingInv /\ [RideNext]_rideVars => BookkeepingInv'
<1> SUFFICES ASSUME BookkeepingInv, [RideNext]_rideVars  PROVE BookkeepingInv'
  OBVIOUS
<1>1. RideInv' /\ [Next]_vars  BY RideInvStep, RideStep DEF BookkeepingInv
<1>2. PartyInv'  BY <1>1, PartyStep DEF BookkeepingInv
<1>3. Bookkeeping'
  <2>1. CASE ServerGoesOn \/ SessionGone \/ RestartOfServer
    BY <1>2, <2>1, RemoteCallBookkeeping, ReplyToPhoneBookkeeping, SessionGoneBookkeeping,
       RestartOfServerBookkeeping DEF ServerGoesOn
  <2>2. ASSUME NEW p \in Phone, PhoneCall(p)  PROVE Bookkeeping'
    BY <1>2, <2>2, PhoneCallBookkeeping
  <2>3. ASSUME NEW p \in Phone, Dispatch(p)  PROVE Bookkeeping'
    BY <1>2, <2>3, DispatchBookkeeping
  <2>4. ASSUME NEW p \in Phone, PhoneReturn(p) \/ CallFails(p) \/ AppKilled(p)
        PROVE  Bookkeeping'
    BY <1>2, <2>4, ReceiveBookkeeping, LostBookkeeping DEF PhoneReturn
  <2>5. CASE UNCHANGED rideVars
    <3>1. UNCHANGED <<data, call, client, req>>  BY <2>5 DEF rideVars
    <3>2. \A p \in Phone : client' = p => Serves(req', call'[p].msg)
      BY <3>1 DEF BookkeepingInv, Bookkeeping
    <3> QED  BY <1>1, <1>2, <3>1, <3>2, BookkeepingFrame
  <2> QED  BY <2>1, <2>2, <2>3, <2>4, <2>5 DEF RideNext
<1> QED  BY <1>1, <1>2, <1>3 DEF BookkeepingInv

LEMMA BookkeepingHolds == RideSpec => []BookkeepingInv
BY BookkeepingInit, BookkeepingStep, PTL DEF RideSpec

\* A passenger whose phone knows of an order is shown that there is one
\* (PassengerLocationChanged.cpp:137-140), whatever answers come late or not at all.
THEOREM KnownOrdersAreShown == RideSpec => []KnownOrderIsShown
<1>1. BookkeepingInv => KnownOrderIsShown
  BY DEF BookkeepingInv, Bookkeeping, Remembers, KnownOrderIsShown
<1> QED  BY <1>1, BookkeepingHolds, PTL

\* An order is recorded for a phone only if the phone's session is a party of it,
\* although finish_order_cb takes the order id from the message unchecked
\* (finish_order.c:71,80): the phones see to it (login.cpp:43).  The order is one at
\* which Redis refuses no write.
THEOREM PartiesFinish == RideSpec => OnlyPartiesFinish
<1> DEFINE Fit(o) == orderTable'[o] # orderTable[o] /\ client # Nobody
                        => data[client].sessionid \in Parties(o)
<1>1. BookkeepingInv /\ [RideNext]_rideVars => [\A o \in SafeOrder : Fit(o)]_rideVars
  <2> SUFFICES ASSUME BookkeepingInv, [RideNext]_rideVars, NEW o \in SafeOrder,
                      orderTable'[o] # orderTable[o], client # Nobody
               PROVE  data[client].sessionid \in Parties(o)
    OBVIOUS
  <2>1. PartyInv /\ RideInv /\ OrderInv  BY DEF BookkeepingInv, PartyInv
  <2>2. [Next]_vars  BY <2>1, RideStep
  <2>3. DataserverCreateOrder  BY <2>1, <2>2, RowsWritten
  <2>4. /\ pc = "insert" /\ req.op = "finishOrder"
        /\ orderTable \in [OrderKey -> Row \cup {NoRow}]
    BY <2>1, <2>3 DEF DataserverCreateOrder, OrderInv, TypeInv, TypeOK, DataTypeOK, LocalsFor
  <2>5. o = req.oid /\ orderTable[o] = NoRow
    BY <2>3, <2>4 DEF DataserverCreateOrder, InsertOrder, dataVars, OrderKey, SafeOrder
  <2>6. PICK p \in Phone : p = client  BY <2>1 DEF RideInv, RideTypeOK, PhoneTypeOK
  <2>7. Serves(req, call[p].msg) /\ CallFits(data[p], call[p])
    BY <2>6 DEF BookkeepingInv, Bookkeeping
  <2>8. call[p].msg.oid = o  BY <2>4, <2>5, <2>7, KeysDiffer DEF Serves, SafeOrder
  <2>9. Mine(data[p].sessionid, o)  BY <2>7, <2>8 DEF CallFits
  <2> QED  BY <2>5, <2>6, <2>9 DEF Mine
<1> QED  BY <1>1, BookkeepingHolds, PTL DEF RideSpec, OnlyPartiesFinish
=============================================================================
