-------------------------------- MODULE Phones --------------------------------
(***************************************************************************)
(* The phones (src/JNI and the login and registration screens of src/app)  *)
(* together with the web server of WebServer.                              *)
(*                                                                         *)
(* A phone has one Data object for the whole process and one call at a     *)
(* time: the screens call the JNI functions on the UI thread, which waits  *)
(* in curl_easy_perform.  A call goes from the phone to the queue of the   *)
(* event loop, is served, answered and at last received; it may fail at    *)
(* any point, whether or not the server has handled it.  The functions     *)
(* that need a session (StartOrder, *LocationChanged, FinishOrder) are     *)
(* exported to Java and have no caller in src/app yet: the screen of the   *)
(* role may call them whenever the phone has no other call under way.      *)
(***************************************************************************)
EXTENDS WebServer

CONSTANTS
    Phone,      \* the phones
    Nobody,     \* no phone waits for the request that is handled
    Lossy       \* BOUND: whether a call may break and an app be killed

\* The answer of Reply always leaves the server here; what happens to it
\* afterwards is the phone's.
ASSUME PhoneBounds ==
    /\ Nobody \notin Phone
    /\ Lossy \in BOOLEAN
    /\ "reply" \notin Flaky

VARIABLES
    data,       \* Data.h: what the process of each phone remembers
    screen,     \* the activity each phone shows
    call,       \* the call each phone waits for, and what is sent in it
    client      \* the phone whose request the server handles

phoneVars == <<data, screen, call, client>>
rideVars  == <<hash, volatile, geo, userTable, orderTable, pc, req,
               owner, orders, handed, told, data, screen, call, client>>

\* A message in either direction has fields of the handlers' locals.
NoCall == [stage |-> "none", msg |-> NoReq]

\* Data.h as the process starts: every string is empty.  isDriver and the
\* positions are payload: no function reads them back.
NoData == [sessionid |-> Empty, orderid |-> Empty, status |-> Empty]

Data == [ sessionid : SessionId \cup {Empty},
          orderid   : OrderKey,
          status    : DriverStatus \cup PassengerStatus \cup {Empty} ]

PhoneTypeOK ==
    /\ data \in [Phone -> Data]
    /\ screen \in [Phone -> {"login", "reg", "driver", "passenger"}]
    /\ call \in [Phone -> [ stage : {"none", "posted", "served", "answered"},
                            msg   : Request ]]
    /\ client \in Phone \cup {Nobody}

\* Every variable of the phones and of the servers has its type, and a request
\* that is handled belongs to the one phone that waits for it: no phone waits
\* for a handler that is not running.
RideTypeOK ==
    /\ TypeOK
    /\ PhoneTypeOK
    /\ \A p \in Phone : call[p].stage = "served" <=> client = p
    /\ client \in Phone => pc # "idle"

RideInit ==
    /\ Init
    /\ data = [p \in Phone |-> NoData]
    /\ screen = [p \in Phone |-> "login"]
    /\ call = [p \in Phone |-> NoCall]
    /\ client = Nobody

Free(p) == call[p].stage = "none"

\* curl_easy_perform: the message is on its way and the phone waits.
Post(p, msg) ==
    /\ call' = [call EXCEPT ![p] = [stage |-> "posted", msg |-> msg]]
    /\ UNCHANGED <<vars, screen, client>>

\* The call returns: the phone may make another one.
Return(p) ==
    /\ call' = [call EXCEPT ![p] = NoCall]
    /\ UNCHANGED <<vars, client>>

-----------------------------------------------------------------------------
(* The calls of a phone                                                    *)

\* Mutant: what the last user did is not forgotten.
MutLoginKeepsData(p, u, role) ==
    /\ Free(p)
    /\ screen[p] = "login"
    /\ "login" \in Posts
    /\ data' = [data EXCEPT ![p].status = "idle"]
    /\ Post(p, [NoReq EXCEPT !.op = "login", !.user = u, !.isDriver = role])

\* login forgets the order and the status before it asks the server.
Login(p, u, role) ==
    /\ Free(p)
    /\ screen[p] = "login"
    /\ "login" \in Posts
    /\ data' = [data EXCEPT ![p].orderid = None, ![p].status = "idle"]
    /\ Post(p, [NoReq EXCEPT !.op = "login", !.user = u, !.isDriver = role])

\* reg touches nothing of Data.
Reg(p, u, role) ==
    /\ Free(p)
    /\ screen[p] = "reg"
    /\ "reg" \in Posts
    /\ Post(p, [NoReq EXCEPT !.op = "reg", !.user = u, !.isDriver = role])
    /\ UNCHANGED data

\* BOUND: the functions of a role are only called with a session of that role,
\* although a screen can be reached without one (see SignedIn).
HasSession(p) ==
    \/ screen[p] = "driver" /\ data[p].sessionid \in DriverSid
    \/ screen[p] = "passenger" /\ data[p].sessionid \in PassengerSid

StartOrder(p) ==
    /\ Free(p)
    /\ HasSession(p) /\ screen[p] = "passenger"
    /\ "setOrder" \in Posts
    /\ Post(p, [NoReq EXCEPT !.op = "setOrder", !.sid = data[p].sessionid,
                             !.passenger = data[p].sessionid])
    /\ UNCHANGED data

\* DriverLocationChanged and PassengerLocationChanged report the status that
\* Data holds; autosend is the driver's and says that the ride starts.
LocationChanged(p, auto) ==
    /\ Free(p)
    /\ HasSession(p)
    /\ "locationChanged" \in Posts
    /\ data[p].status \in
          Statuses \cap (IF screen[p] = "driver" THEN DriverStatus ELSE PassengerStatus)
    /\ auto => data[p].status = "driving"
    /\ Post(p, [NoReq EXCEPT !.op = "locationChanged", !.sid = data[p].sessionid,
                   !.isDriver = IF screen[p] = "driver" THEN "yes" ELSE "no",
                   !.status = data[p].status, !.autosend = auto])
    /\ UNCHANGED data

\* The session is in the message too; finish_order_cb does not look at it.
FinishOrder(p) ==
    /\ Free(p)
    /\ HasSession(p)
    /\ "finishOrder" \in Posts
    /\ data[p].orderid \in OrderId \cup NoOrder
    /\ Post(p, [NoReq EXCEPT !.op = "finishOrder", !.oid = data[p].orderid])
    /\ UNCHANGED data

\* setStatus: a driver goes on to the next part of the work.  BOUND: Data.cpp:39
\* takes any status from any screen, but only the driver's has a use for it; a
\* passenger goes from status to status by itself, see NextStatus.
SetStatus(p, status) ==
    /\ Free(p)
    /\ HasSession(p) /\ screen[p] = "driver"
    /\ status # data[p].status
    /\ data' = [data EXCEPT ![p].status = status]
    /\ UNCHANGED <<vars, screen, call, client>>

\* The button that leads to the registration, and as many presses of Back as
\* lead to the login screen.  The process and its Data stay.
OpenReg(p) ==
    /\ Free(p)
    /\ screen[p] = "login"
    /\ "reg" \in Posts
    /\ screen' = [screen EXCEPT ![p] = "reg"]
    /\ UNCHANGED <<vars, data, call, client>>

Back(p) ==
    /\ Free(p)
    /\ screen[p] # "login"
    /\ screen' = [screen EXCEPT ![p] = "login"]
    /\ UNCHANGED <<vars, data, call, client>>

-----------------------------------------------------------------------------
(* The server's side of a call                                             *)

\* The first remote call of each handler.
FirstCall(op) ==
    CASE op = "setOrder"        -> "radius"
      [] op = "locationChanged" -> "exist"
      [] op = "finishOrder"     -> "get_order"
      [] OTHER                  -> op

\* BOUND: as in AuthRequest and OrderRequest, an identifier must be left.
Acceptable(msg) ==
    /\ msg.op \in {"login", "reg"} => FreshSid(msg.isDriver) # {}
    /\ msg.op = "setOrder" => orders # OrderId

\* Mutant: the next request is dispatched while a handler waits for an answer.
MutAcceptWhileBusy(p) ==
    /\ call[p].stage = "posted"
    /\ Acceptable(call[p].msg)
    /\ req' = call[p].msg
    /\ pc' = FirstCall(call[p].msg.op)
    /\ call' = [call EXCEPT ![p].stage = "served"]
    /\ client' = p
    /\ UNCHANGED <<dataVars, history, data, screen>>

\* The event loop takes any of the connections that are ready.
Accept(p) ==
    /\ pc = "idle"
    /\ call[p].stage = "posted"
    /\ Acceptable(call[p].msg)
    /\ req' = call[p].msg
    /\ pc' = FirstCall(call[p].msg.op)
    /\ call' = [call EXCEPT ![p].stage = "served"]
    /\ client' = p
    /\ UNCHANGED <<dataVars, history, data, screen>>

\* BOUND: instead of a handler that would run out of identifiers.
Refuse(p) ==
    /\ pc = "idle"
    /\ call[p].stage = "posted"
    /\ ~Acceptable(call[p].msg)
    /\ call' = [call EXCEPT ![p] = [stage |-> "answered",
                                    msg |-> [@.msg EXCEPT !.ok = FALSE]]]
    /\ UNCHANGED <<vars, data, screen, client>>

\* What the reply says: an error says nothing else, and only the answers of
\* login, reg and locationChanged carry an identifier.  isDriver is not in the
\* answer: it is the check box of the screen that waits for it.
Answer ==
    CASE ~req.ok -> [NoReq EXCEPT !.op = req.op, !.ok = FALSE]
      [] req.ok /\ req.op \in {"login", "reg"} ->
            [NoReq EXCEPT !.op = req.op, !.sid = req.sid, !.isDriver = req.isDriver]
      [] req.ok /\ req.op = "locationChanged" ->
            [NoReq EXCEPT !.op = req.op, !.isDriver = req.isDriver,
                          !.status = req.status, !.oid = req.oid]
      [] OTHER -> [NoReq EXCEPT !.op = req.op]

\* The handler answers the phone that still waits, if one does.
ReplyToPhone ==
    /\ Reply
    /\ call' = [p \in Phone |-> IF p = client
                                THEN [stage |-> "answered", msg |-> Answer]
                                ELSE call[p]]
    /\ client' = Nobody
    /\ UNCHANGED <<data, screen>>

\* A remote call of the handler.
RemoteCall ==
    /\ pc # "reply"
    /\ ServerStep
    /\ UNCHANGED phoneVars

SessionGone ==
    /\ SessionExpires
    /\ UNCHANGED phoneVars

\* Mutant: a request whose connection was closed is posted again.
MutRestartRetries ==
    /\ Restart
    /\ call' = [p \in Phone |-> IF p = client THEN [call[p] EXCEPT !.stage = "posted"]
                                             ELSE call[p]]
    /\ client' = Nobody
    /\ UNCHANGED <<data, screen>>

\* The phone that waits sees its connection closed.
RestartOfServer ==
    /\ Restart
    /\ call' = [p \in Phone |-> IF p = client THEN NoCall ELSE call[p]]
    /\ client' = Nobody
    /\ UNCHANGED <<data, screen>>

-----------------------------------------------------------------------------
(* What a phone does with an answer                                        *)

\* login keeps the session id, and Login2Activity opens the screen of the role.
LoggedIn(p) ==
    /\ data' = [data EXCEPT ![p].sessionid = call[p].msg.sid]
    /\ screen' = [screen EXCEPT ![p] = IF call[p].msg.isDriver = "yes"
                                       THEN "driver" ELSE "passenger"]

\* reg drops the session id of the answer; RegActivity opens the same screens.
Registered(p) ==
    /\ screen' = [screen EXCEPT ![p] = IF call[p].msg.isDriver = "yes"
                                       THEN "driver" ELSE "passenger"]
    /\ UNCHANGED data

\* StartOrder reads the field "ordierid", which no answer has.
OrderStarted(p) ==
    /\ data' = [data EXCEPT ![p].orderid = Empty]
    /\ UNCHANGED screen

\* The server sends back the status it was sent.  Of a driver, the branch that
\* would end the ride is behind the one that takes every "driving".
DriverReported(p) ==
    /\ data' = [data EXCEPT ![p].status = call[p].msg.status,
                            ![p].orderid = call[p].msg.oid]
    /\ UNCHANGED screen

\* Mutant: a passenger who has an order stays idle.
MutNextStatus(status, orderid) ==
    IF status = "traveling" /\ orderid = None THEN "idle" ELSE status

\* Of a passenger; the order_status that would make a waiting passenger travel
\* is read by the server for every status but waiting.
NextStatus(status, orderid) ==
    CASE status = "traveling" /\ orderid = None -> "idle"
      [] status = "idle" /\ orderid # None      -> "waiting"
      [] OTHER                                  -> status

PassengerReported(p) ==
    /\ data' = [data EXCEPT
                  ![p].status = NextStatus(call[p].msg.status, call[p].msg.oid),
                  ![p].orderid = call[p].msg.oid]
    /\ UNCHANGED screen

\* FinishOrder forgets the order; the status stays.
OrderFinished(p) ==
    /\ data' = [data EXCEPT ![p].orderid = None]
    /\ UNCHANGED screen

Answered(p, op) ==
    /\ call[p].stage = "answered"
    /\ call[p].msg.ok
    /\ call[p].msg.op = op

\* "ok": what the function writes into Data and the screen that opens.
Receive(p) ==
    /\ \/ Answered(p, "login") /\ LoggedIn(p)
       \/ Answered(p, "reg") /\ Registered(p)
       \/ Answered(p, "setOrder") /\ OrderStarted(p)
       \/ Answered(p, "locationChanged") /\ call[p].msg.isDriver = "yes" /\ DriverReported(p)
       \/ Answered(p, "locationChanged") /\ call[p].msg.isDriver = "no" /\ PassengerReported(p)
       \/ Answered(p, "finishOrder") /\ OrderFinished(p)
    /\ Return(p)

\* "error": no function changes anything.  deal_response of Curl.cpp ends without
\* a return, so curl is told any number of bytes and may report a call as failed
\* whose answer is there; login has a callback of its own.
ReceiveError(p) ==
    /\ call[p].stage = "answered"
    /\ call[p].msg.ok => call[p].msg.op # "login"
    /\ Return(p)
    /\ UNCHANGED <<data, screen>>

\* A handler that runs for p goes on without a client.
HangUp(p) ==
    /\ call' = [call EXCEPT ![p] = NoCall]
    /\ client' = IF client = p THEN Nobody ELSE client

\* The connection breaks; the phone cannot know how far the server got.
CallFails(p) ==
    /\ Lossy
    /\ ~Free(p)
    /\ HangUp(p)
    /\ UNCHANGED <<vars, data, screen>>

\* The system kills the app: Data is gone, with the session id.
AppKilled(p) ==
    /\ Lossy
    /\ data[p] # NoData
    /\ HangUp(p)
    /\ data' = [data EXCEPT ![p] = NoData]
    /\ screen' = [screen EXCEPT ![p] = "login"]
    /\ UNCHANGED vars

-----------------------------------------------------------------------------
PhoneCall(p) ==
    \/ \E u \in User, role \in {"yes", "no"} : Login(p, u, role) \/ Reg(p, u, role)
    \/ \E auto \in BOOLEAN : LocationChanged(p, auto)
    \/ \E status \in Statuses \cap DriverStatus : SetStatus(p, status)
    \/ StartOrder(p) \/ FinishOrder(p) \/ OpenReg(p) \/ Back(p)

PhoneReturn(p) == Receive(p) \/ ReceiveError(p)

Dispatch(p) == Accept(p) \/ Refuse(p)

ServerGoesOn == RemoteCall \/ ReplyToPhone

RideNext ==
    \/ ServerGoesOn \/ SessionGone \/ RestartOfServer
    \/ \E p \in Phone : \/ PhoneCall(p) \/ PhoneReturn(p) \/ Dispatch(p)
                        \/ CallFails(p) \/ AppKilled(p)

RideSpec == RideInit /\ [][RideNext]_rideVars

\* The event loop goes on, its queue of connections is first in, first out, so
\* it gets to each of them; curl returns an answer that has arrived.
FairRideSpec ==
    /\ RideSpec
    /\ WF_rideVars(ServerGoesOn)
    /\ \A p \in Phone : SF_rideVars(Dispatch(p)) /\ WF_rideVars(PhoneReturn(p))

-----------------------------------------------------------------------------
\* An order is recorded (finish_order.c:90) for a phone only if the session of
\* that phone is a party of it: the server takes the order id from the message
\* and checks nothing, so it is the phones' bookkeeping that keeps a user who
\* logs in after another one from finishing the other's ride (login.cpp:43).  The
\* session is the one in Data: after a registration, which has none of its own, that
\* is the session of whoever was logged in before (reg.cpp:70).
OnlyPartiesFinish ==
    [][\A o \in SafeOrder :
          orderTable'[o] # orderTable[o] /\ client # Nobody
            => data[client].sessionid \in Parties(o)]_rideVars

\* A passenger whose phone knows of an order is shown that there is one
\* (PassengerLocationChanged.cpp:137-140), whoever told the phone, as long as no
\* screen of a passenger calls setStatus.
KnownOrderIsShown ==
    \A p \in Phone :
        /\ screen[p] = "passenger" /\ data[p].sessionid \in PassengerSid
        /\ data[p].orderid \in OrderId
        => data[p].status # "idle"

\* The phones are clients as WebServer takes them to be: what they post is what
\* a client may post, and the event loop handles one request after the other
\* (https_server.c:126-166, the JNI functions).
PhonesAreClients == Spec

\* Every call returns (Curl.cpp:31-46), so the screen of a phone, which waits for
\* it, comes back to life: nobody waits for an answer that is never sent.
EveryCallReturns == \A p \in Phone : ~Free(p) ~> Free(p)

(* What the comments of the repository say and the phones do not do         *)

\* Who sees the screen of a role is logged in with a session of that role
\* (Login2Activity.java:84-104; "a registration that succeeds counts as being
\* logged in", reg.cpp:70).
SignedIn ==
    \A p \in Phone :
        /\ screen[p] = "driver" => data[p].sessionid \in DriverSid
        /\ screen[p] = "passenger" => data[p].sessionid \in PassengerSid

\* A passenger whose order was accepted has its order id: "orderid: the number of
\* the order of the current user" (Data.h:97, StartOrder.cpp:95-98).
StartedOrderIsKnown ==
    [][\A p \in Phone :
          Answered(p, "setOrder") /\ Receive(p)
            => data'[p].orderid \in OrderId]_rideVars

\* A driver who is driving and is told that there is no order any more is idle
\* (DriverLocationChanged.cpp:80, "the order is over, it is complete").
FinishedDriverIsIdle ==
    [][\A p \in Phone :
          /\ Answered(p, "locationChanged") /\ Receive(p)
          /\ call[p].msg.status = "driving" /\ call[p].msg.oid = None
          => data'[p].status = "idle"]_rideVars
=============================================================================
