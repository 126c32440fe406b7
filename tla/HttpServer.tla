------------------------------ MODULE HttpServer ------------------------------
(***************************************************************************)
(* The two servers as HTTP servers: their tables of routes, the heads and  *)
(* tails of their callbacks (which requests are answered at once and with  *)
(* what), the commands the data server knows, and the connections the      *)
(* answers go back on.  libevent keeps a connection until an answer says   *)
(* "Connection: close"; a client that keeps it reads the answers in the    *)
(* order in which they were written.                                       *)
(***************************************************************************)
EXTENDS Naturals, SequencesExt

CONSTANTS
    WebConn,    \* the connections to the web server
    DataConn,   \* the connections to the data server
    Looked,     \* what a browser sends: the paths someone looks at
    MaxSent     \* BOUND: the requests on one connection

ASSUME HttpBounds ==
    /\ WebConn \cap DataConn = {}
    /\ MaxSent \in Nat

VARIABLES
    link,       \* what the client may do on each connection
    sent,       \* how many requests it has sent there
    request,    \* the request the server has not taken yet
    wire        \* the answers the client has not read yet

Conn == WebConn \cup DataConn

httpVars == <<link, sent, request, wire>>

\* What the functions of remote_store.c post: where, and "cmd" with "table".
StorePosts ==
    ({"/persistent"} \X {"insert user", "insert order", "query"}) \cup
    ({"/cache"} \X {"setHash", "getHash", "setLifecycle", "radiusGeo", "existKey",
                    "remZset", "addGeo", "deleteKey"})

\* What the functions of src/JNI post.
PhonePosts == {"/login", "/reg", "/startSetOrder", "/locationChanged", "/finishOrder"}
                \X {"json"}

Posts(c) == IF c \in WebConn THEN PhonePosts ELSE StorePosts

\* A client of the system posts with a good URI; a browser, or a hand, may send
\* anything (post is the body and where it goes; a "broken" body is not JSON or
\* lacks a field that the callback reads).
Request(c) ==
    [own : {TRUE}, method : {"POST"}, post : Posts(c), good : {TRUE}] \cup
    [own : {FALSE}, method : {"GET", "HEAD", "POST"},
     post : Looked \X {"other", "broken"}, good : BOOLEAN]

\* The paths given to evhttp_set_cb, as they are written.
Callbacks(c) ==
    IF c \in WebConn
    THEN {"/login", "/reg", "/startSetOrder", "/locationChanged", "finishOrder"}
    ELSE {"/persistent", "/cache"}

\* Mutant: a command of the cache is known by another name.
MutDeals(path, cmd) ==
    CASE path = "/cache" -> cmd \in {"setString", "setHash", "setLifecycle", "getHash",
                                     "radiusGeo", "exist", "remZset", "addGeo", "deleteKey"}
      [] path = "/persistent" -> cmd \in {"insert user", "insert order", "query"}
      [] OTHER -> TRUE

\* deal_cache and deal_persistent: there is a function for the command.
Deals(path, cmd) ==
    CASE path = "/cache" -> cmd \in {"setString", "setHash", "setLifecycle", "getHash",
                                     "radiusGeo", "existKey", "remZset", "addGeo", "deleteKey"}
      [] path = "/persistent" -> cmd \in {"insert user", "insert order", "query"}
      [] OTHER -> TRUE

\* deal_cache answers a command it does not know with an error.  deal_persistent
\* leaves response_data uninitialised: what follows is an answer that means
\* nothing, or the end of the process (Crash).
Result(path, cmd) ==
    CASE Deals(path, cmd)                       -> "result"
      [] ~Deals(path, cmd) /\ path = "/cache"   -> "unknown"
      [] OTHER                                  -> "empty"

Answer(kind, close) == [kind |-> kind, close |-> close]

Routed(c, r) == r.post[1] \in Callbacks(c)

\* The callback goes past its head, to the body of the request.
Parsed(c, r) == Routed(c, r) /\ r.method = "POST" /\ r.good

\* A GET is answered with its URI.  The GET branch of login_cb has no return and
\* goes on into the next one.
Echo(path) == IF path = "/login"
              THEN <<Answer("requested", FALSE), Answer("ok", FALSE)>>
              ELSE <<Answer("requested", FALSE)>>

\* Mutant: the branch of the methods other than POST, too, lacks its return.
MutAnswers(c, r) ==
    CASE ~Routed(c, r) -> {<<Answer("not found", TRUE)>>}
      [] Routed(c, r) /\ r.method = "GET" -> {<<>>, Echo(r.post[1])}
      [] Routed(c, r) /\ r.method = "HEAD" ->
            {<<Answer("ok", FALSE), Answer("bad request", TRUE)>>}
      [] Routed(c, r) /\ r.method = "POST" /\ ~r.good -> {<<Answer("bad request", TRUE)>>}
      [] Parsed(c, r) /\ r.post[2] = "broken" -> {}
      [] OTHER -> {<<Answer(Result(r.post[1], r.post[2]), TRUE)>>}

\* Mutant: the branch of a URI that is not good returns without an answer.
MutAnswersNotBad(c, r) ==
    CASE ~Routed(c, r) -> {<<Answer("not found", TRUE)>>}
      [] Routed(c, r) /\ r.method = "GET" -> {<<>>, Echo(r.post[1])}
      [] Routed(c, r) /\ r.method = "HEAD" -> {<<Answer("ok", FALSE)>>}
      [] Routed(c, r) /\ r.method = "POST" /\ ~r.good -> {<<>>}
      [] Parsed(c, r) /\ r.post[2] = "broken" -> {}
      [] OTHER -> {<<Answer(Result(r.post[1], r.post[2]), TRUE)>>}

\* What a request may be answered with, in a callback that comes to its end: GET
\* with nothing when evbuffer_new fails; any other method but POST with an empty
\* OK; a URI that cannot be parsed with an error.  A body that is broken is never
\* answered: its NULL is dereferenced.
Answers(c, r) ==
    CASE ~Routed(c, r) -> {<<Answer("not found", TRUE)>>}
      [] Routed(c, r) /\ r.method = "GET" -> {<<>>, Echo(r.post[1])}
      [] Routed(c, r) /\ r.method = "HEAD" -> {<<Answer("ok", FALSE)>>}
      [] Routed(c, r) /\ r.method = "POST" /\ ~r.good -> {<<Answer("bad request", TRUE)>>}
      [] Parsed(c, r) /\ r.post[2] = "broken" -> {}
      [] OTHER -> {<<Answer(Result(r.post[1], r.post[2]), TRUE)>>}

NoRequest == [own |-> FALSE, method |-> "none"]

\* On the wire an answer is the answer of a request: its number, and whose it was.
Response == [to : 1..MaxSent, own : BOOLEAN, close : BOOLEAN,
             kind : {"requested", "ok", "bad request", "not found", "unknown", "empty",
                     "result"}]

-----------------------------------------------------------------------------
HttpInit ==
    /\ link = [c \in Conn |-> "closed"]
    /\ sent = [c \in Conn |-> 0]
    /\ request = [c \in Conn |-> NoRequest]
    /\ wire = [c \in Conn |-> <<>>]

\* A client connects: a browser, or the curl handle of one call.
Connect(c) ==
    /\ link[c] = "closed"
    /\ link' = [link EXCEPT ![c] = "free"]
    /\ UNCHANGED <<sent, request, wire>>

\* It sends a request when it has read an answer of the one before.
Send(c, r) ==
    /\ link[c] = "free"
    /\ sent[c] < MaxSent
    /\ link' = [link EXCEPT ![c] = "waiting"]
    /\ sent' = [sent EXCEPT ![c] = @ + 1]
    /\ request' = [request EXCEPT ![c] = r]
    /\ UNCHANGED wire

\* The loop runs the callback of the path, from its first line to its last.
Serve(c) ==
    /\ request[c] # NoRequest
    /\ \E a \in Answers(c, request[c]) :
          wire' = [wire EXCEPT ![c] = @ \o
             [i \in DOMAIN a |-> [to |-> sent[c], own |-> request[c].own,
                                 kind |-> a[i].kind, close |-> a[i].close]]]
    /\ request' = [request EXCEPT ![c] = NoRequest]
    /\ UNCHANGED <<link, sent>>

\* The connections of one server.
SameServer(c) == IF c \in WebConn THEN WebConn ELSE DataConn

\* The process ends inside the callback: at a broken body, at an answer that was
\* never set, or at the evbuffer of the answer when evbuffer_new fails.  All
\* connections of the server end with it.  It is started again by hand.
Crash(c) ==
    /\ request[c] # NoRequest
    /\ Parsed(c, request[c])
    /\ link' = [d \in Conn |-> IF d \in SameServer(c) THEN "closed" ELSE link[d]]
    /\ sent' = [d \in Conn |-> IF d \in SameServer(c) THEN 0 ELSE sent[d]]
    /\ request' = [d \in Conn |-> IF d \in SameServer(c) THEN NoRequest ELSE request[d]]
    /\ wire' = [d \in Conn |-> IF d \in SameServer(c) THEN <<>> ELSE wire[d]]

\* The connection ends; what is still on it is lost.
Closed(c) ==
    /\ link' = [link EXCEPT ![c] = "closed"]
    /\ sent' = [sent EXCEPT ![c] = 0]
    /\ wire' = [wire EXCEPT ![c] = <<>>]

\* The client reads the next answer; the server closes after one that says so.
Read(c) ==
    /\ link[c] = "waiting"
    /\ wire[c] # <<>>
    /\ \/ /\ Head(wire[c]).close
          /\ Closed(c)
       \/ /\ ~Head(wire[c]).close
          /\ link' = [link EXCEPT ![c] = "free"]
          /\ wire' = [wire EXCEPT ![c] = Tail(@)]
          /\ UNCHANGED sent
    /\ UNCHANGED request

\* The client goes, with or without its answer; a request that is not served yet
\* may still be, but its answer reaches nobody.
HangUp(c) ==
    /\ link[c] # "closed"
    /\ Closed(c)
    /\ request' = [request EXCEPT ![c] = NoRequest]

HttpNext ==
    \E c \in Conn : \/ Connect(c) \/ Serve(c) \/ Crash(c) \/ Read(c) \/ HangUp(c)
                    \/ \E r \in Request(c) : Send(c, r)

\* The event loop handles a connection that is ready, to the end of the callback
\* or of the process; a client that waits reads.
HttpSpec ==
    /\ HttpInit
    /\ [][HttpNext]_httpVars
    /\ \A c \in Conn : WF_httpVars(Serve(c) \/ Crash(c)) /\ WF_httpVars(Read(c))

-----------------------------------------------------------------------------
\* Every variable has its type; a request that is not served yet has a client
\* that waits for it.
HttpTypeOK ==
    /\ link \in [Conn -> {"closed", "free", "waiting"}]
    /\ sent \in [Conn -> 0..MaxSent]
    /\ \A c \in Conn : request[c] \in Request(c) \cup {NoRequest}
    /\ \A c \in Conn : wire[c] \in Seq(Response)
    /\ \A c \in Conn : request[c] # NoRequest => link[c] = "waiting"

\* The next answer a client reads is the answer of its last request: one answer
\* too many would stay on the connection and be taken for the next one's
\* (cache.c:37-57, persistent.c:40-58, set_order.c:40-69, login.c:38-58).
OwnAnswer ==
    \A c \in Conn :
        link[c] = "waiting" /\ wire[c] # <<>> => Head(wire[c]).to = sent[c]

\* Whoever sent anything but a GET gets an answer or sees the connection end: the
\* one way through a callback that leaves a client waiting for ever is the silent
\* return of a GET without memory (cache.c:39, persistent.c:42, reg.c:32,
\* set_order.c:43, location_changed.c:41, finish_order.c:40, login.c:40); where
\* the callback fails on the body (deal_cache.c:376-378, deal_persistent.c:186-191,
\* login.c:65-70, set_order.c:81-98) the process and its connections end.
NobodyWaitsForEver ==
    \A c \in Conn :
        request[c] # NoRequest /\ request[c].method # "GET" ~> link[c] # "waiting"

\* Every command that remote_store.c posts has a function in the data server that
\* deals with it: the names of one program are those of the other, and so is the
\* path (remote_store.c, tables.h:4-23, deal_cache.c:379-431, persistent.c:64-70).
StoreIsServed ==
    \A c \in DataConn : \A i \in DOMAIN wire[c] : wire[c][i].own => wire[c][i].kind = "result"

(* What the comments say and the servers do not do                          *)

\* What a phone posts reaches the function that is meant for it ("the callback of
\* its own for a uri path", https-server.c:146; FinishOrder.cpp:26).
PhonesAreServed ==
    \A c \in WebConn : \A i \in DOMAIN wire[c] : wire[c][i].own => wire[c][i].kind = "result"
=============================================================================
