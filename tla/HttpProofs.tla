----------------------------- MODULE HttpProofs -----------------------------
(***************************************************************************)
(* The connections, for every number of them and of requests: what the     *)
(* store client posts is dealt with, and where no request has two answers  *)
(* the answer that is read is the answer of the last request.              *)
(***************************************************************************)
EXTENDS HttpServer, TLAPS

Kinds == {"requested", "ok", "bad request", "not found", "unknown", "empty", "result"}

Methods == {"GET", "HEAD", "POST"}

\* An answer as a callback writes it; an answer as it is on the wire; a request
\* of any connection
Written == [kind : Kinds, close : BOOLEAN]
OnWire == [to : 0..MaxSent, own : BOOLEAN, close : BOOLEAN, kind : Kinds]
Requested == {NoRequest} \cup UNION {Request(c) : c \in Conn}

HttpTypes ==
    /\ link \in [Conn -> {"closed", "free", "waiting"}]
    /\ sent \in [Conn -> 0..MaxSent]
    /\ request \in [Conn -> Requested]
    /\ \A c \in Conn : request[c] \in Request(c) \cup {NoRequest}
    /\ wire \in [Conn -> Seq(OnWire)]

\* The strengthening that holds for every set of paths: it is enough for what
\* the store client posts.
ServedInv == HttpTypes /\ StoreIsServed

\* A client that waits has either its request or its one answer under way, or the
\* callback gave none; nothing is left on a connection when an answer has been read.
InTurn(c) ==
    /\ link[c] # "waiting" => request[c] = NoRequest /\ wire[c] = <<>>
    /\ link[c] = "waiting" =>
          /\ sent[c] > 0
          /\ \/ request[c] # NoRequest /\ wire[c] = <<>>
             \/ request[c] = NoRequest /\ wire[c] = <<>>
             \/ /\ request[c] = NoRequest /\ Len(wire[c]) = 1
                /\ wire[c][1].to = sent[c]

TurnInv == HttpTypes /\ \A c \in Conn : InTurn(c)

-----------------------------------------------------------------------------
(* What a request is answered with *)

LEMMA RequestType ==
    ASSUME NEW c \in Conn, NEW r \in Request(c)
    PROVE  r.own \in BOOLEAN /\ r.method \in Methods /\ r.good \in BOOLEAN /\ r # NoRequest
<1>1. r.own \in BOOLEAN /\ r.method \in Methods /\ r.good \in BOOLEAN
  <2>1. CASE r \in [own : {TRUE}, method : {"POST"}, post : Posts(c), good : {TRUE}]
    BY <2>1 DEF Methods
  <2>2. CASE r \in [own : {FALSE}, method : {"GET", "HEAD", "POST"},
                   post : Looked \X {"other", "broken"}, good : BOOLEAN]
    BY <2>2 DEF Methods
  <2> QED  BY <2>1, <2>2 DEF Request
<1>2. NoRequest.method \notin Methods  BY DEF NoRequest, Methods
<1> QED  BY <1>1, <1>2

\* A request of the store client: it is a POST with a good URI.
LEMMA OwnRequest ==
    ASSUME NEW c \in Conn, NEW r \in Request(c), r.own
    PROVE  r.method = "POST" /\ r.good /\ r.post \in Posts(c)
BY DEF Request

LEMMA ResultKind == ASSUME NEW path, NEW cmd  PROVE Result(path, cmd) \in Kinds
<1>1. CASE Deals(path, cmd)  BY <1>1 DEF Result, Kinds
<1>2. CASE ~Deals(path, cmd) /\ path = "/cache"  BY <1>2 DEF Result, Kinds
<1>3. CASE ~Deals(path, cmd) /\ path # "/cache"  BY <1>3 DEF Result, Kinds
<1> QED  BY <1>1, <1>2, <1>3

LEMMA AnswerType ==
    ASSUME NEW kind \in Kinds, NEW close \in BOOLEAN
    PROVE  /\ Answer(kind, close) \in Written
           /\ Answer(kind, close).kind = kind /\ Answer(kind, close).close = close
BY DEF Answer, Written

\* No request has two answers but the GET of /login.
LEMMA AnswersOf ==
    ASSUME NEW c \in Conn, NEW r \in Request(c), NEW a \in Answers(c, r)
    PROVE  \/ a = <<>>
           \/ \E x \in Written : a = <<x>>
           \/ /\ r.post[1] = "/login" /\ r.method = "GET"
              /\ \E x, y \in Written : a = <<x, y>>
<1>1. r.method \in Methods /\ r.good \in BOOLEAN  BY RequestType
<1> DEFINE there == Routed(c, r)
           broken == r.post[2] = "broken"
<1>2. CASE ~there
  <2>1. Answers(c, r) = {<<Answer("not found", TRUE)>>}  BY <1>2 DEF Answers
  <2> QED  BY <2>1, AnswerType DEF Kinds
<1>3. CASE there /\ r.method = "GET" /\ r.post[1] # "/login"
  <2>1. a = <<>> \/ a = Echo(r.post[1])  BY <1>3 DEF Answers, Parsed
  <2>2. Echo(r.post[1]) = <<Answer("requested", FALSE)>>  BY <1>3 DEF Echo
  <2> QED  BY <2>1, <2>2, AnswerType DEF Kinds
<1>4. CASE there /\ r.method = "GET" /\ r.post[1] = "/login"
  <2>1. a = <<>> \/ a = Echo(r.post[1])  BY <1>4 DEF Answers, Parsed
  <2>2. Echo(r.post[1]) = <<Answer("requested", FALSE), Answer("ok", FALSE)>>
    BY <1>4 DEF Echo
  <2> QED  BY <1>4, <2>1, <2>2, AnswerType DEF Kinds
<1>5. CASE there /\ r.method = "HEAD"
  <2>1. Answers(c, r) = {<<Answer("ok", FALSE)>>}  BY <1>5 DEF Answers
  <2> QED  BY <2>1, AnswerType DEF Kinds
<1>6. CASE there /\ r.method = "POST" /\ ~r.good
  <2>1. Answers(c, r) = {<<Answer("bad request", TRUE)>>}  BY <1>6 DEF Answers
  <2> QED  BY <2>1, AnswerType DEF Kinds
<1>7. CASE there /\ r.method = "POST" /\ r.good /\ ~broken
  <2>1. Answers(c, r) = {<<Answer(Result(r.post[1], r.post[2]), TRUE)>>}
    BY <1>7 DEF Answers
  <2> QED  BY <2>1, AnswerType, ResultKind
<1>8. CASE there /\ r.method = "POST" /\ r.good /\ broken
  <2>1. Answers(c, r) = {}  BY <1>8 DEF Answers, Parsed
  <2> QED  BY <2>1
<1> QED  BY <1>1, <1>2, <1>3, <1>4, <1>5, <1>6, <1>7, <1>8 DEF Methods

\* Each post of the store client has its callback and its function.
LEMMA StorePostsServed ==
    ASSUME NEW c \in DataConn, NEW r \in Request(c), r.own
    PROVE  Answers(c, r) = {<<Answer("result", TRUE)>>}
<1>1. c \in Conn /\ c \notin WebConn  BY HttpBounds DEF Conn
<1>2. r.method = "POST" /\ r.good /\ r.post \in StorePosts
  BY <1>1, OwnRequest DEF Posts
<1>3. /\ r.post[1] \in {"/persistent", "/cache"}
      /\ Deals(r.post[1], r.post[2])
      /\ r.post[2] # "broken"
  BY <1>2 DEF StorePosts, Deals
<1>4. Routed(c, r)  BY <1>1, <1>3 DEF Callbacks, Routed
<1>5. Result(r.post[1], r.post[2]) = "result"  BY <1>3 DEF Result
<1> QED  BY <1>2, <1>3, <1>4, <1>5 DEF Answers

-----------------------------------------------------------------------------
(* Each step keeps what is served *)

\* What one step does to the connections.
LEMMA TypesOf ==
    ASSUME HttpTypes, NEW c \in Conn
    PROVE  /\ link[c] \in {"closed", "free", "waiting"} /\ sent[c] \in 0..MaxSent
           /\ request[c] \in Request(c) \cup {NoRequest}
           /\ wire[c] \in Seq(OnWire)
BY DEF HttpTypes

\* The answers of a request, as Serve puts them on the wire
Sends(c, r, a) == [i \in DOMAIN a |-> [to |-> sent[c], own |-> r.own,
                                      kind |-> a[i].kind, close |-> a[i].close]]

LEMMA SendsType ==
    ASSUME HttpTypes, NEW c \in Conn, NEW r \in Request(c), NEW ans \in Answers(c, r)
    PROVE  /\ Sends(c, r, ans) \in Seq(OnWire)
           /\ Len(Sends(c, r, ans)) = Len(ans)
           /\ \A i \in 1..Len(Sends(c, r, ans)) : /\ Sends(c, r, ans)[i].to = sent[c]
                                                  /\ Sends(c, r, ans)[i].own = r.own
                                                  /\ Sends(c, r, ans)[i].kind = ans[i].kind
<1>2. ans \in Seq(Written) /\ DOMAIN ans = 1..Len(ans) /\ Len(ans) \in Nat
  <2>1. CASE ans = <<>>  BY <2>1
  <2>2. CASE \E x \in Written : ans = <<x>>  BY <2>2
  <2>3. CASE \E x, y \in Written : ans = <<x, y>>  BY <2>3
  <2> QED  BY <2>1, <2>2, <2>3, AnswersOf
<1>3. r.own \in BOOLEAN /\ sent[c] \in 0..MaxSent  BY RequestType, TypesOf
<1> DEFINE w(i) == [to |-> sent[c], own |-> r.own, kind |-> ans[i].kind, close |-> ans[i].close]
<1>4. Sends(c, r, ans) = [i \in 1..Len(ans) |-> w(i)]  BY <1>2 DEF Sends
<1>5. ASSUME NEW i \in 1..Len(ans)
      PROVE  w(i) \in OnWire /\ w(i).to = sent[c] /\ w(i).own = r.own /\ w(i).kind = ans[i].kind
  <2>1. ans[i] \in Written  BY <1>2
  <2> QED  BY <1>3, <2>1 DEF OnWire, Written
<1> HIDE DEF w
<1>6. Sends(c, r, ans) \in Seq(OnWire) /\ Len(Sends(c, r, ans)) = Len(ans)
  BY <1>2, <1>4, <1>5
<1> QED  BY <1>4, <1>5, <1>6

LEMMA HttpInit_Served == HttpInit => ServedInv
<1> SUFFICES ASSUME HttpInit  PROVE ServedInv
  OBVIOUS
<1>1. link \in [Conn -> {"closed", "free", "waiting"}] /\ sent \in [Conn -> 0..MaxSent]
  BY HttpBounds DEF HttpInit
<1>2. request \in [Conn -> Requested] /\ \A c \in Conn : request[c] = NoRequest
  <2>1. NoRequest \in Requested  BY DEF Requested
  <2> QED  BY <2>1 DEF HttpInit
<1>3. wire \in [Conn -> Seq(OnWire)] /\ \A c \in Conn : wire[c] = <<>>
  BY DEF HttpInit
<1>4. StoreIsServed  BY <1>3 DEF StoreIsServed, Conn
<1> QED  BY <1>1, <1>2, <1>3, <1>4 DEF ServedInv, HttpTypes

\* Nothing happens on a connection; it happens on one only.
Stays(b) == /\ link'[b] = link[b] /\ sent'[b] = sent[b]
            /\ request'[b] = request[b] /\ wire'[b] = wire[b]

Elsewhere(c) == \A b \in Conn \ {c} : Stays(b)

LEMMA StepTypes ==
    ASSUME HttpTypes, NEW c \in Conn,
           NEW l \in {"closed", "free", "waiting"}, NEW n \in 0..MaxSent,
           NEW r \in Request(c) \cup {NoRequest}, NEW w \in Seq(OnWire),
           link' = [link EXCEPT ![c] = l], sent' = [sent EXCEPT ![c] = n],
           request' = [request EXCEPT ![c] = r], wire' = [wire EXCEPT ![c] = w]
    PROVE  /\ HttpTypes' /\ Elsewhere(c)
           /\ link'[c] = l /\ sent'[c] = n /\ request'[c] = r /\ wire'[c] = w
<1>1. link' \in [Conn -> {"closed", "free", "waiting"}] /\ sent' \in [Conn -> 0..MaxSent]
  BY DEF HttpTypes
<1>2. r \in Requested
  <2>1. CASE r \in Request(c)
    <3>1. PICK R : R = Request(c)  OBVIOUS
    <3>2. R \in {Request(b) : b \in Conn}  BY <3>1
    <3> QED  BY <2>1, <3>1, <3>2 DEF Requested
  <2>2. CASE r = NoRequest  BY <2>2 DEF Requested
  <2> QED  BY <2>1, <2>2
<1>3. request' \in [Conn -> Requested] /\ wire' \in [Conn -> Seq(OnWire)]
  BY <1>2 DEF HttpTypes
<1>4. /\ Elsewhere(c)
      /\ link'[c] = l /\ sent'[c] = n /\ request'[c] = r /\ wire'[c] = w
  BY DEF HttpTypes, Elsewhere, Stays
<1>5. \A b \in Conn : request'[b] \in Request(b) \cup {NoRequest}
  BY <1>4 DEF HttpTypes, Elsewhere, Stays
<1> QED  BY <1>1, <1>3, <1>4, <1>5 DEF HttpTypes

\* A variable that a step leaves alone
LEMMA Kept ==
    ASSUME HttpTypes, NEW c \in Conn
    PROVE  /\ link = [link EXCEPT ![c] = link[c]] /\ sent = [sent EXCEPT ![c] = sent[c]]
           /\ request = [request EXCEPT ![c] = request[c]]
           /\ wire = [wire EXCEPT ![c] = wire[c]]
BY DEF HttpTypes

\* What a step of a connection changes there
Changes(c) ==
    \/ /\ link[c] = "closed" /\ link'[c] = "free"
       /\ sent'[c] = sent[c] /\ request'[c] = request[c] /\ wire'[c] = wire[c]
    \/ \E r \in Request(c) :
          /\ link[c] = "free" /\ link'[c] = "waiting" /\ sent'[c] = sent[c] + 1
          /\ request'[c] = r /\ wire'[c] = wire[c]
    \/ \E r \in Request(c) : \E a \in Answers(c, r) :
          /\ request[c] = r /\ request'[c] = NoRequest
          /\ wire'[c] = wire[c] \o Sends(c, r, a)
          /\ link'[c] = link[c] /\ sent'[c] = sent[c]
    \/ /\ link[c] = "waiting" /\ wire[c] # <<>> /\ request'[c] = request[c]
       /\ \/ link'[c] = "closed" /\ wire'[c] = <<>>
          \/ link'[c] = "free" /\ wire'[c] = Tail(wire[c])
    \/ link'[c] = "closed" /\ request'[c] = NoRequest /\ wire'[c] = <<>>

\* The process ends: the connections of the server do, the others stay.
LEMMA CrashChanges ==
    ASSUME HttpTypes, NEW c \in Conn, Crash(c)
    PROVE  HttpTypes' /\ \A b \in Conn : Stays(b) \/ Changes(b)
<1>1. ASSUME NEW b \in Conn, b \in SameServer(c)
      PROVE  link'[b] = "closed" /\ sent'[b] = 0 /\ request'[b] = NoRequest /\ wire'[b] = <<>>
  BY <1>1 DEF Crash
<1>2. ASSUME NEW b \in Conn, b \notin SameServer(c)  PROVE Stays(b)
  BY <1>2 DEF Crash, Stays
<1>3. ASSUME NEW b \in Conn
      PROVE  /\ link'[b] \in {"closed", "free", "waiting"} /\ sent'[b] \in 0..MaxSent
             /\ request'[b] \in Request(b) \cup {NoRequest} /\ request'[b] \in Requested
             /\ wire'[b] \in Seq(OnWire)
  <2>1. CASE b \in SameServer(c)
    <3>1. 0 \in 0..MaxSent /\ <<>> \in Seq(OnWire) /\ NoRequest \in Requested
      BY HttpBounds DEF Requested
    <3> QED  BY <1>1, <2>1, <3>1
  <2>2. CASE b \notin SameServer(c)
    <3>1. request[b] \in Requested  BY DEF HttpTypes
    <3> QED  BY <1>2, <2>2, <3>1, TypesOf DEF Stays
  <2> QED  BY <2>1, <2>2
<1>4. \E l, n, r, w : /\ link' = [b \in Conn |-> l[b]] /\ sent' = [b \in Conn |-> n[b]]
                     /\ request' = [b \in Conn |-> r[b]] /\ wire' = [b \in Conn |-> w[b]]
  <2>1. /\ link' = [b \in Conn |-> link'[b]] /\ sent' = [b \in Conn |-> sent'[b]]
        /\ request' = [b \in Conn |-> request'[b]] /\ wire' = [b \in Conn |-> wire'[b]]
    BY DEF Crash
  <2> QED  BY <2>1
<1>5. HttpTypes'  BY <1>3, <1>4 DEF HttpTypes
<1>6. \A b \in Conn : b \in SameServer(c) => Changes(b)  BY <1>1 DEF Changes
<1> QED  BY <1>2, <1>5, <1>6

\* A step of one connection leaves the others alone.
LEMMA StepChanges ==
    ASSUME HttpTypes, HttpNext
    PROVE  HttpTypes' /\ \A b \in Conn : Stays(b) \/ Changes(b)
<1>1. PICK c \in Conn :
         \/ Connect(c) \/ Serve(c) \/ Crash(c) \/ Read(c) \/ HangUp(c)
         \/ \E r \in Request(c) : Send(c, r)
  BY DEF HttpNext
<1>11. CASE Crash(c)  BY <1>11, CrashChanges
<1> SUFFICES ASSUME ~Crash(c)  PROVE HttpTypes' /\ Elsewhere(c) /\ Changes(c)
  BY <1>11 DEF Elsewhere
<1>2. /\ link[c] \in {"closed", "free", "waiting"} /\ sent[c] \in 0..MaxSent
      /\ request[c] \in Request(c) \cup {NoRequest} /\ wire[c] \in Seq(OnWire)
  BY TypesOf
<1>3. /\ link = [link EXCEPT ![c] = link[c]] /\ sent = [sent EXCEPT ![c] = sent[c]]
      /\ request = [request EXCEPT ![c] = request[c]] /\ wire = [wire EXCEPT ![c] = wire[c]]
  BY Kept
<1>4. 0 \in 0..MaxSent /\ <<>> \in Seq(OnWire)  BY HttpBounds
<1>5. CASE Connect(c)
  <2>1. /\ link[c] = "closed" /\ link' = [link EXCEPT ![c] = "free"]
        /\ sent' = sent /\ request' = request /\ wire' = wire
    BY <1>5 DEF Connect
  <2>2. /\ sent' = [sent EXCEPT ![c] = sent[c]] /\ request' = [request EXCEPT ![c] = request[c]]
        /\ wire' = [wire EXCEPT ![c] = wire[c]]
    BY <1>3, <2>1
  <2>3. /\ HttpTypes' /\ Elsewhere(c)
        /\ link'[c] = "free" /\ sent'[c] = sent[c] /\ request'[c] = request[c]
        /\ wire'[c] = wire[c]
    BY <1>2, <2>1, <2>2, StepTypes
  <2> QED  BY <2>1, <2>3 DEF Changes
<1>6. CASE Serve(c)
  <2>1. PICK r \in Request(c) : request[c] = r  BY <1>2, <1>6 DEF Serve
  <2>9. PICK a \in Answers(c, r) : wire' = [wire EXCEPT ![c] = wire[c] \o Sends(c, r, a)]
    BY <1>6, <2>1 DEF Serve, Sends
  <2>2. /\ wire' = [wire EXCEPT ![c] = wire[c] \o Sends(c, r, a)]
        /\ request' = [request EXCEPT ![c] = NoRequest]
        /\ link' = link /\ sent' = sent
    BY <1>6, <2>9 DEF Serve
  <2>3. wire[c] \o Sends(c, r, a) \in Seq(OnWire)
    <3>1. Sends(c, r, a) \in Seq(OnWire)  BY SendsType
    <3> QED  BY <1>2, <3>1
  <2>4. /\ link' = [link EXCEPT ![c] = link[c]] /\ sent' = [sent EXCEPT ![c] = sent[c]]
    BY <1>3, <2>2
  <2>8. PICK w \in Seq(OnWire) : w = wire[c] \o Sends(c, r, a)  BY <2>3
  <2>6. /\ wire' = [wire EXCEPT ![c] = w] /\ request' = [request EXCEPT ![c] = NoRequest]
        /\ NoRequest \in Request(c) \cup {NoRequest}
    BY <2>2, <2>8
  <2>5. /\ HttpTypes' /\ Elsewhere(c)
        /\ link'[c] = link[c] /\ sent'[c] = sent[c] /\ request'[c] = NoRequest
        /\ wire'[c] = w
    BY <1>2, <2>4, <2>6, StepTypes
  <2>7. wire'[c] = wire[c] \o Sends(c, r, a)  BY <2>5, <2>8
  <2> QED  BY <2>1, <2>5, <2>7 DEF Changes
<1>7. CASE Read(c) /\ Closed(c)
  <2>1. /\ link[c] = "waiting" /\ wire[c] # <<>>
        /\ link' = [link EXCEPT ![c] = "closed"] /\ sent' = [sent EXCEPT ![c] = 0]
        /\ wire' = [wire EXCEPT ![c] = <<>>] /\ request' = [request EXCEPT ![c] = request[c]]
    BY <1>3, <1>7 DEF Read, Closed
  <2>2. /\ HttpTypes' /\ Elsewhere(c)
        /\ link'[c] = "closed" /\ request'[c] = request[c] /\ wire'[c] = <<>>
    BY <1>2, <1>4, <2>1, StepTypes
  <2> QED  BY <2>1, <2>2 DEF Changes
<1>8. CASE Read(c) /\ ~Closed(c)
  <2>1. /\ link[c] = "waiting" /\ wire[c] # <<>> /\ request' = request /\ sent' = sent
        /\ link' = [link EXCEPT ![c] = "free"] /\ wire' = [wire EXCEPT ![c] = Tail(wire[c])]
    BY <1>8 DEF Read
  <2>2. Tail(wire[c]) \in Seq(OnWire)  BY <1>2, <2>1
  <2> PICK w \in Seq(OnWire) : w = Tail(wire[c])  BY <2>2
  <2>3. /\ sent' = [sent EXCEPT ![c] = sent[c]] /\ request' = [request EXCEPT ![c] = request[c]]
        /\ link' = [link EXCEPT ![c] = "free"] /\ wire' = [wire EXCEPT ![c] = w]
    BY <1>3, <2>1
  <2>4. /\ HttpTypes' /\ Elsewhere(c)
        /\ link'[c] = "free" /\ request'[c] = request[c] /\ wire'[c] = Tail(wire[c])
    BY <1>2, <2>3, StepTypes
  <2> QED  BY <2>1, <2>4 DEF Changes
<1>9. CASE HangUp(c)
  <2>1. /\ link' = [link EXCEPT ![c] = "closed"] /\ sent' = [sent EXCEPT ![c] = 0]
        /\ wire' = [wire EXCEPT ![c] = <<>>] /\ request' = [request EXCEPT ![c] = NoRequest]
    BY <1>9 DEF HangUp, Closed
  <2>2. /\ HttpTypes' /\ Elsewhere(c)
        /\ link'[c] = "closed" /\ request'[c] = NoRequest /\ wire'[c] = <<>>
    BY <1>4, <2>1, StepTypes
  <2> QED  BY <2>2 DEF Changes
<1>10. ASSUME NEW r \in Request(c), Send(c, r)  PROVE HttpTypes' /\ Elsewhere(c) /\ Changes(c)
  <2>1. /\ link[c] = "free" /\ sent[c] < MaxSent
        /\ link' = [link EXCEPT ![c] = "waiting"] /\ sent' = [sent EXCEPT ![c] = sent[c] + 1]
        /\ request' = [request EXCEPT ![c] = r] /\ wire' = [wire EXCEPT ![c] = wire[c]]
    BY <1>3, <1>10 DEF Send
  <2>2. PICK n \in 0..MaxSent : n = sent[c] + 1  BY <1>2, <2>1, HttpBounds
  <2>3. PICK w \in Seq(OnWire) : w = wire[c]  BY <1>2
  <2>4. /\ link' = [link EXCEPT ![c] = "waiting"] /\ sent' = [sent EXCEPT ![c] = n]
        /\ request' = [request EXCEPT ![c] = r] /\ wire' = [wire EXCEPT ![c] = w]
    BY <2>1, <2>2, <2>3
  <2>5. /\ HttpTypes' /\ Elsewhere(c)
        /\ link'[c] = "waiting" /\ sent'[c] = sent[c] + 1 /\ request'[c] = r
        /\ wire'[c] = wire[c]
    BY <1>2, <2>2, <2>3, <2>4, StepTypes
  <2> QED  BY <2>1, <2>5 DEF Changes
<1> QED  BY <1>1, <1>5, <1>6, <1>7, <1>8, <1>9, <1>10

\* A connection on which nothing happens
LEMMA StaysServed ==
    ASSUME ServedInv, HttpTypes',
           \A c \in DataConn :
              \/ wire'[c] = wire[c]
              \/ \A i \in 1..Len(wire'[c]) : wire'[c][i].own => wire'[c][i].kind = "result"
    PROVE  ServedInv'
<1>1. \A c \in DataConn : wire'[c] \in Seq(OnWire)  BY DEF HttpTypes, Conn
<1>2. \A c \in DataConn : DOMAIN wire'[c] = 1..Len(wire'[c])  BY <1>1
<1> QED  BY <1>2 DEF ServedInv, StoreIsServed

LEMMA ServedStep == ServedInv /\ [HttpNext]_httpVars => ServedInv'
<1> SUFFICES ASSUME ServedInv, [HttpNext]_httpVars  PROVE ServedInv'
  OBVIOUS
<1>1. CASE HttpNext
  <2>1. HttpTypes'  BY <1>1, StepChanges DEF ServedInv
  <2>4. ASSUME NEW c \in DataConn
        PROVE  \/ wire'[c] = wire[c]
               \/ \A i \in 1..Len(wire'[c]) : wire'[c][i].own => wire'[c][i].kind = "result"
    <3>6. c \in Conn  BY DEF Conn
    <3>7. Stays(c) \/ Changes(c)  BY <1>1, <3>6, StepChanges DEF ServedInv
    <3>8. wire[c] \in Seq(OnWire)  BY <3>6, TypesOf DEF ServedInv
    <3>1. \A i \in 1..Len(wire[c]) : wire[c][i].own => wire[c][i].kind = "result"
      BY <3>8 DEF ServedInv, StoreIsServed
    <3>2. CASE \E r \in Request(c) : \E a \in Answers(c, r) : wire'[c] = wire[c] \o Sends(c, r, a)
      <4>1. PICK r \in Request(c) : \E a \in Answers(c, r) : wire'[c] = wire[c] \o Sends(c, r, a)
        BY <3>2
      <4>6. PICK a \in Answers(c, r) : wire'[c] = wire[c] \o Sends(c, r, a)  BY <4>1
      <4>2. PICK s : s = Sends(c, r, a)  OBVIOUS
      <4>3. /\ s \in Seq(OnWire)
            /\ \A i \in 1..Len(s) : s[i].own => s[i].kind = "result"
        <5>1. s \in Seq(OnWire) /\ Len(s) = Len(a)
              /\ \A i \in 1..Len(s) : s[i].own = r.own /\ s[i].kind = a[i].kind
          BY <3>6, <4>2, SendsType DEF ServedInv
        <5>2. ASSUME r.own  PROVE \A i \in 1..Len(s) : s[i].kind = "result"
          <6>8. Answers(c, r) = {<<Answer("result", TRUE)>>}  BY <5>2, StorePostsServed
          <6>1. a = <<Answer("result", TRUE)>>  BY <6>8
          <6>2. Answer("result", TRUE).kind = "result"  BY DEF Answer
          <6>3. Len(a) = 1 /\ a[1] = Answer("result", TRUE)
            BY <6>1
          <6>4. Len(s) = 1  BY <5>1, <6>3
          <6>5. s[1].kind = a[1].kind  BY <5>1, <6>4
          <6>6. s[1].kind = "result"  BY <6>2, <6>3, <6>5
          <6>7. \A i \in 1..Len(s) : i = 1  BY <6>4
          <6> QED  BY <6>6, <6>7
        <5> QED  BY <5>1, <5>2
      <4>4. wire'[c] = wire[c] \o s  BY <4>2, <4>6
      <4>5. ASSUME NEW i \in 1..Len(wire'[c]), wire'[c][i].own
            PROVE  wire'[c][i].kind = "result"
        <5>1. CASE i \in 1..Len(wire[c])
          <6>1. wire'[c][i] = wire[c][i]  BY <3>8, <4>3, <4>4, <5>1
          <6> QED  BY <3>1, <4>5, <5>1, <6>1
        <5>2. CASE i \notin 1..Len(wire[c])
          <6>1. i - Len(wire[c]) \in 1..Len(s) /\ wire'[c][i] = s[i - Len(wire[c])]
            BY <3>8, <4>3, <4>4, <4>5, <5>2
          <6> QED  BY <4>3, <4>5, <6>1
        <5> QED  BY <5>1, <5>2
      <4> QED  BY <4>5
    <3>3. CASE wire[c] # <<>> /\ wire'[c] = Tail(wire[c])
      <4>1. \A i \in 1..Len(wire'[c]) : i + 1 \in 1..Len(wire[c]) /\ wire'[c][i] = wire[c][i + 1]
        BY <3>8, <3>3
      <4> QED  BY <3>1, <4>1
    <3>4. CASE wire'[c] = <<>>  BY <3>4
    <3> QED  BY <3>7, <3>2, <3>3, <3>4 DEF Changes, Stays
  <2> QED  BY <2>1, <2>4, StaysServed
<1>2. CASE UNCHANGED httpVars
  BY <1>2 DEF httpVars, ServedInv, HttpTypes, StoreIsServed
<1> QED  BY <1>1, <1>2

\* What the loop and the clients may do, without what they must
LEMMA HttpSteps == HttpSpec => HttpInit /\ [][HttpNext]_httpVars
BY PTL DEF HttpSpec

\* What the store client posts is dealt with by the function it is meant for, on
\* every connection and between whatever a browser may send there
\* (remote_store.c, tables.h:4-23, deal_cache.c:379-431, persistent.c:64-70).
THEOREM StorePostsAreDealtWith == HttpSpec => []StoreIsServed
<1>1. ServedInv => StoreIsServed  BY DEF ServedInv
<1> QED  BY <1>1, HttpInit_Served, ServedStep, HttpSteps, PTL

-----------------------------------------------------------------------------
(* Each step keeps the turns, where no request has two answers             *)

LEMMA OneAnswer ==
    ASSUME NEW S, NEW w \in Seq(S), Len(w) = 1
    PROVE  Tail(w) = <<>> /\ \A T : w[1] \in T => w \in Seq(T)
<1>1. Tail(w) \in Seq(S) /\ Len(Tail(w)) = 0  OBVIOUS
<1>2. Tail(w) = <<>>
  <2>1. PICK t \in Seq(S) : t = Tail(w) /\ Len(t) = 0  BY <1>1
  <2>2. t = <<>>  BY <2>1
  <2> QED  BY <2>1, <2>2
<1>3. ASSUME NEW T, w[1] \in T  PROVE w \in Seq(T)
  <2>1. \A i \in 1..Len(w) : w[i] \in T  BY <1>3
  <2>2. w = [i \in 1..Len(w) |-> w[i]]  OBVIOUS
  <2> QED  BY <2>1, <2>2
<1> QED  BY <1>2, <1>3

LEMMA TurnStep ==
    ASSUME "/login" \notin Looked, TurnInv, [HttpNext]_httpVars
    PROVE  TurnInv'
<1>1. CASE HttpNext
  <2>1. HttpTypes'  BY <1>1, StepChanges DEF TurnInv
  <2>7. ASSUME NEW c \in Conn  PROVE InTurn(c)'
    <3>6. Stays(c) \/ Changes(c)  BY <1>1, StepChanges DEF TurnInv
    <3>7. /\ link[c] \in {"closed", "free", "waiting"} /\ sent[c] \in Nat
          /\ wire[c] \in Seq(OnWire)
      BY TypesOf, HttpBounds DEF TurnInv
    <3>8. InTurn(c)  BY DEF TurnInv
    <3>9. CASE Stays(c)  BY <3>8, <3>9 DEF Stays, InTurn
    <3>1. ASSUME NEW r \in Request(c), NEW a \in Answers(c, r),
                 request[c] = r, request'[c] = NoRequest,
                 wire'[c] = wire[c] \o Sends(c, r, a), link'[c] = link[c], sent'[c] = sent[c]
          PROVE  InTurn(c)'
      <4>1. r # NoRequest  BY RequestType
      <4>2. link[c] = "waiting" /\ sent[c] > 0 /\ wire[c] = <<>>
        BY <3>1, <3>8, <4>1 DEF InTurn
      <4>3. a = <<>> \/ \E x \in Written : a = <<x>>
        <5>1. ~(r.method = "GET" /\ r.post[1] = "/login")  BY DEF Request
        <5> QED  BY <5>1, AnswersOf
      <4>4. PICK s : s = Sends(c, r, a)  OBVIOUS
      <4>5. /\ s \in Seq(OnWire) /\ Len(s) = Len(a)
            /\ \A i \in 1..Len(s) : s[i].to = sent[c]
        BY <4>4, SendsType DEF TurnInv
      <4>6. wire'[c] = s  BY <3>1, <4>2, <4>4, <4>5
      <4>7. CASE a = <<>>
        <5>1. Len(s) = 0  BY <4>5, <4>7
        <5>2. s = <<>>  BY <4>5, <5>1
        <5> QED  BY <3>1, <4>2, <4>6, <5>2 DEF InTurn
      <4>8. CASE \E x \in Written : a = <<x>>
        <5>1. Len(s) = 1  BY <4>5, <4>8
        <5>2. s[1].to = sent[c]  BY <4>5, <5>1
        <5> QED  BY <3>1, <4>2, <4>6, <5>1, <5>2 DEF InTurn
      <4> QED  BY <4>3, <4>7, <4>8
    <3>2. ASSUME NEW r \in Request(c), link[c] = "free", link'[c] = "waiting",
                 sent'[c] = sent[c] + 1, request'[c] = r, wire'[c] = wire[c]
          PROVE  InTurn(c)'
      BY <3>7, <3>8, <3>2, RequestType DEF InTurn
    <3>3. ASSUME link[c] = "waiting", wire[c] # <<>>, request'[c] = request[c],
                 \/ link'[c] = "closed" /\ wire'[c] = <<>>
                 \/ link'[c] = "free" /\ wire'[c] = Tail(wire[c])
          PROVE  InTurn(c)'
      <4>1. request[c] = NoRequest /\ Len(wire[c]) = 1  BY <3>8, <3>3 DEF InTurn
      <4>2. Tail(wire[c]) = <<>>  BY <3>7, <4>1, OneAnswer
      <4> QED  BY <3>3, <4>1, <4>2 DEF InTurn
    <3>4. ASSUME link[c] = "closed", link'[c] = "free", request'[c] = request[c],
                 wire'[c] = wire[c]
          PROVE  InTurn(c)'
      BY <3>8, <3>4 DEF InTurn
    <3>5. ASSUME link'[c] = "closed", request'[c] = NoRequest, wire'[c] = <<>>
          PROVE  InTurn(c)'
      BY <3>5 DEF InTurn
    <3> QED  BY <3>6, <3>9, <3>1, <3>2, <3>3, <3>4, <3>5 DEF Changes
  <2> QED  BY <2>1, <2>7 DEF TurnInv
<1>2. CASE UNCHANGED httpVars
  BY <1>2 DEF httpVars, TurnInv, HttpTypes, InTurn
<1> QED  BY <1>1, <1>2

LEMMA HttpInit_Turn == HttpInit => TurnInv
<1> SUFFICES ASSUME HttpInit  PROVE TurnInv
  OBVIOUS
<1>1. HttpTypes  BY HttpInit_Served DEF ServedInv
<1>2. \A c \in Conn : InTurn(c)  BY DEF HttpInit, InTurn
<1> QED  BY <1>1, <1>2 DEF TurnInv

LEMMA TurnHolds == ASSUME "/login" \notin Looked  PROVE HttpSpec => []TurnInv
<1>1. TurnInv /\ [HttpNext]_httpVars => TurnInv'  BY TurnStep
<1> QED  BY <1>1, HttpInit_Turn, HttpSteps, PTL

\* The types, for the paths whose callbacks answer once (login_cb answers a GET
\* twice): a request that is not served yet has a client that waits for it
\* (cache.c:37-57, persistent.c:40-58, set_order.c:40-69).
THEOREM ConnectionsAreTyped ==
    ASSUME "/login" \notin Looked  PROVE HttpSpec => []HttpTypeOK
<1>1. TurnInv => HttpTypeOK
  <2> SUFFICES ASSUME TurnInv  PROVE HttpTypeOK
    OBVIOUS
  <2>1. ASSUME NEW c \in Conn  PROVE wire[c] \in Seq(Response)
    <3>1. wire[c] \in Seq(OnWire) /\ InTurn(c) /\ sent[c] \in 0..MaxSent
      BY TypesOf DEF TurnInv
    <3>2. CASE wire[c] = <<>>  BY <3>2
    <3>3. CASE wire[c] # <<>>
      <4>1. Len(wire[c]) = 1 /\ wire[c][1].to = sent[c] /\ sent[c] > 0
        BY <3>1, <3>3 DEF InTurn
      <4>2. wire[c][1] \in OnWire /\ sent[c] \in 1..MaxSent  BY <3>1, <4>1, HttpBounds
      <4>3. wire[c][1] \in Response  BY <4>1, <4>2 DEF OnWire, Response, Kinds
      <4> QED  BY <3>1, <4>1, <4>3, OneAnswer
    <3> QED  BY <3>2, <3>3
  <2> QED  BY <2>1 DEF TurnInv, HttpTypes, InTurn, HttpTypeOK
<1> QED  BY <1>1, TurnHolds, PTL

\* The next answer a client reads is the answer of its last request, on a kept
\* connection too: no answer stays behind (cache.c:37-57, persistent.c:40-58,
\* set_order.c:40-69).
THEOREM AnswersAreOwn ==
    ASSUME "/login" \notin Looked  PROVE HttpSpec => []OwnAnswer
<1>1. TurnInv => OwnAnswer
  <2> SUFFICES ASSUME TurnInv, NEW c \in Conn, link[c] = "waiting", wire[c] # <<>>
               PROVE  Head(wire[c]).to = sent[c]
    BY DEF OwnAnswer
  <2>1. wire[c] \in Seq(OnWire) /\ InTurn(c)  BY TypesOf DEF TurnInv
  <2> QED  BY <2>1 DEF InTurn
<1> QED  BY <1>1, TurnHolds, PTL
=============================================================================
