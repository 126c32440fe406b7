# A formal model of the OBO ride service

This directory models the programs of the repository: an Android app with a JNI
client, a web server it talks to, and a data server that keeps Redis and MySQL
for the web server.  TLA+ modules describe what each request handler does to
the two databases, what the phones make of its answers, and what the layers
below (HTTP, the connection to Redis, the reply of a search) may do to both;
TLC checks them on small instances, and TLAPS proves the main results for
every size.

## 1. The system

```
 Android app -- JNI client --HTTPS--> web server --HTTPS--> data server --> Redis
 (app/, JNI/)                        (server_https/)       (server_data/)   MySQL
```

| Component | State | Operations |
|---|---|---|
| JNI client (`JNI/`) | `Data`: session id, order id, status, role | Login, Reg, StartOrder, DriverLocationChanged, PassengerLocationChanged, FinishOrder |
| Web server (`server_https/`) | none between requests; a handler's locals during one | `login_cb`, `reg_cb`, `set_order_cb`, `locationChanged_cb`, `finish_order_cb` |
| Remote store client (`remote_store.c`) | none | one blocking HTTPS call per `curl_to_*` function |
| Data server `/cache` (`deal_cache.c`, `redis_op.cpp`) | Redis: hashes of sessions and orders, deadlines, the geo set of ready drivers | setHash, getHash, setLifecycle, existKey, deleteKey, radiusGeo, addGeo, remZset |
| Data server `/persistent` (`deal_persistent.c`, `dao_mysql.c`) | MySQL: `OBO_TABLE_USER`, `OBO_TABLE_ORDER` | insert user, insert order, query user |
| HTTP fronts (`https_server.c`, `https-server.c`, `cache.c`, `persistent.c`) | kept connections, the table of callbacks | dispatch by path, method and `cmd`; one answer for each request |
| Passenger screen (`PassengerActivity.java`) | markers, start, destination, the drawn route, the tips | asynchronous answers of the map service |
| Logs and configuration (`make_log.c`, `config.c`) | directories and files, a mutex; `g_db_config` | LOG; `config_init` at the start |
| start-up scripts | none | kill -9 and restart |

How they interact.  A client logs in or registers and is given a session id
(`online-driver-<uuid>` or `online-user-<uuid>`), a Redis hash with a user
name, an order id and a deadline.  It then polls `/locationChanged`: a ready
driver enters the geo set with each poll, and each poll returns the order id the
session holds.  `/startSetOrder` of a passenger searches the geo set, writes an
order hash that names the two sessions, and writes the order id into both
sessions.  `/finishOrder` reads the order and the two user names, inserts the
row in MySQL, writes `NONE` into both sessions and deletes the order hash.

What is hard about it.  The web server is single-threaded (libevent, blocking
curl), so handlers do not interleave with each other.  What does
happen between the calls of one handler is that a call fails, executed or not;
that Redis drops a session; and that the server is killed.  There is no
transaction, no compensation and no retry, and many results are not looked
at.  Then there are the long sequences: polls of a client that still
believes in a finished order, a second order to a driver that is still in the
geo set, a session that expires in the middle of a ride.

What makes each component correct:

* the sessions: a session belongs to a registered user of its role, and one that
  was handed out has a deadline;
* the orders: no session holds an order that is gone or somebody else's, an
  order leaves the cache only for MySQL and never comes back, the row names
  the right people, positions go into the reporter's own order;
* the answers: "ok" to `/startSetOrder` or `/finishOrder` means assigned or done,
  as far as Redis did not refuse what the handler wrote;
* the loop: a request is answered once at most, by the function it is meant for, and
  nobody who posts is left waiting;
* the phones: a user cannot finish another user's ride, a passenger who has an
  order sees that there is one, and a call comes back to the screen that waits;
* the passenger screen: what is drawn belongs to what was asked for;
* the connection to Redis: a reply belongs to its command, and an interrupted
  write leaves a prefix of its fields;
* the search: the driver an order gets was the nearest;
* the logs: nothing an earlier call left behind loses a message.

The hazards of the code, with their lines and the properties that watch them,
are listed in `PROJECT.json` under `hazards`.

## 2. The modules

| Module | What it is |
|---|---|
| `DataServer` | The two databases and one operator per data server command; its parameter `ok` is the `"result"` the web server sees. An answer that is not ok may come from a command that was executed, or from a pipeline of HSETs that stopped half way; an ok of setHash or remZset may come from writes that Redis refused (`Refused`). |
| `WebServer` | The five handlers: `pc` is the next remote call of the running handler, `req` its locals, one action per remote call, one for each acceptance and one for the reply; expiry and restart happen between them. |
| `OrderBook` | Abstract specification: what the order handlers promise, with neither calls nor failures. |
| `RideBook` | The mapping of the web server to the order book, of the sessions and orders at which Redis refuses no write. |
| `CacheRequest` | Abstract specification: a request to `/cache` as its steps, with neither buffers nor replies. |
| `SessionClock` | The lifecycle of a session with the clock that the others abstract. |
| `Phones` | The phones (`Data`, the JNI functions, the screens that call them) composed with `WebServer`: a phone posts, the server accepts the request and runs its handler, the phone acts on the answer, or on its loss. |
| `PassengerScreen` | The callbacks of the map service on the screen of the passenger. |
| `HttpServer` | The HTTP front of either server: connections, paths, methods, the branches of the callbacks that answer at once or not at all, the ends of the process. |
| `RedisPipeline` | The functions of `redis_op.cpp` over one connection: commands appended, sent, executed, replies read, at any point of which the connection may break; and its mapping to `CacheRequest`. |
| `GeoReply` | The search for a driver: reply of GEORADIUS, row loop, answer in pieces, buffer, `drivers[0]`. |
| `LogFiles` | `make_log.c`, the same in both servers, over days, kills and full disks. |
| `MCWebServer`, `MCPhones` | Symmetry sets for TLC: `RideBook` and `Phones` choose no phone, session or order by its name. |
| `SessionProofs` | Theorems on the types and locals of the handlers, on sessions, and on the pool, with proofs. |
| `WebServerProofs` | Theorems on the life of an order, with proofs. |
| `PartyProofs` | Theorems on whose order is written and whose names are recorded, and the proof that `WebServer` implements `OrderBook` under the mapping of `RideBook`. |
| `PhonesProofs` | Theorems on the phones with the server, on what they remember and whose rides they finish, with proofs. |
| `HttpProofs` | Theorems on the connections of `HttpServer`, with proofs. |
| `CacheProofs` | Theorems on what the operations of `/cache` do (`RedisPipeline`, refining `CacheRequest`; `GeoReply`) and on the deadline of `SessionClock`, with proofs. |
| `ScreenProofs` | Theorems on `PassengerScreen`, with proofs. |
| `LogProofs` | Theorems on `LogFiles`, with proofs. |

`Phones` EXTENDS `WebServer` and uses its actions, its own restricting what is
posted and when a request is accepted; `PhonesAreClients` states that the result
is a behaviour of `WebServer`, whose clients post anything they were told of.
`OrderBook` is above `WebServer`, the three modules of the layers below
(`HttpServer`, `RedisPipeline`, `GeoReply`) are what `DataServer` and
`WebServer` take as one step each: they show what that step may become.
`RedisPipeline` implements `CacheRequest` (`RequestSpec`), where a request is a
few steps taken in order, and `AsOneStep` says that from outside they are the
one step of `DataServer`.

### From the code to the model

* `hash[k]` is the Redis hash at key `k`; `Blank` is a key that is not there.
  Its fields are those a handler reads back.  Addresses, prices, times and coordinates
  are payload; `position` says only whether somebody wrote `dtemp_*` or `ptemp_*`.
* `volatile` holds the keys with a deadline; `geo` is `ONLINE_DRIVER_GEO_ZSET`.
  Coordinates are abstracted, so `RadiusGeo` answers any member or none.
* `Refused` holds the keys at which Redis may refuse a write (no memory, no disk,
  a read-only replica) without anybody being told: `rop_hash_set_append` does not look at
  the type of a reply (`redis_op.cpp:344-356`), and `deal_cache_remZset` drops the result
  (`deal_cache.c:282-286`).  At these keys any field of a setHash may keep its old
  value, and the ZREM may not happen, whatever the answer.  A refused DEL or EXPIREAT is
  answered with an error, as a failure of any other kind; so is a refused GEOADD,
  and the handler drops that answer.  The constant is any set of keys, the pool's
  among them; a behaviour in which writes were refused at some keys is a behaviour
  of the specification whose `Refused` are these keys, so what is said of the keys outside
  `Refused` is said of every key at which no write was refused.
* `userTable` and `orderTable` are the two tables, with the uniqueness of the
  user name and the primary key of the orders.
* `Advance(r, ok, next)` is the repeated `if (ret == 0) ret = curl_to_...`: the
  next call on success and the reply otherwise.  `Proceed` is a call whose
  result the code drops.  `Results` are the results a call may have.
* `owner`, `orders`, `handed` and `told` are history: for whom a session was
  created, which uuids are used up, which sessions and orders clients know.
  `handed` and `told` restrict what clients can post; no server code reads them.
* A deadline may pass at any moment after it was set, and a `setLifecycle` may
  remove the key at once (a deadline in the past). The safety results therefore
  hold for the EXPIREAT of the code, and for a corrected one.

* `Phones`: `data[p]` is the `Data` object of a phone, `screen[p]` which screen is
  shown, `call[p]` the one call its UI thread is in (what was posted, and
  whether the request is on its way, being served, answered or lost).  `client`
  is the phone whose request the server runs.  The functions that need a session
  have no caller in the app yet; they are taken to be called from the screens
  of a user who is logged in, which `HasSession` says.
* `PassengerScreen`: a place is its own name and its own coordinates; `asked` are
  the questions under way, whose answers may come in any order, or as errors.
  `orderly` is history: whether every answer so far came in turn and without one.
* `HttpServer`: the connections of the web server (`WebConn`) and of the data
  server (`DataConn`) are served by the same loop.  A client of the system posts
  what the code posts (`Posts`); a browser may send anything to the paths in
  `Looked`, with a body that is JSON or one that is broken.  A request has a method, a
  path, a body, and whether its URI parses.  A GET for which there is no memory is left
  without an answer (`cache.c:39` and its like).  `Crash` is the end of the process
  inside a callback: at a body that is not JSON or lacks a field (`deal_cache.c:376`),
  at the response that `deal_persistent` did not set, or at an `evbuffer_new` that
  failed; all connections of that server end with it.  What a callback does after
  it has called its function is in the other modules.
* `RedisPipeline`: the fields of a hash, one string and one member of the geo set
  stand for Redis; `obuf`, `inbox` and `replies` are the three places a command
  or its reply can be in.  A NULL reply that is looked into, and a reply that is
  freed twice (`redis_op.cpp:352`), leave open whether the process goes on.
  `before`, `expired` and `refused` are history, for the properties.
* `GeoReply`: a distance in metres for each driver of the pool; `Kilometre` is how
  many there are to the unit the query uses.  A field that is not written is
  what `malloc` left there: any distance, of any length up to `Longest`.
* `LogFiles`: a date is a number, `Month` and `Year` its quotients.

### Repairs the model had to make

The source does not compile as committed (`retrun`, `NLL`, undeclared
variables, calls with a wrong number of arguments).  Where the model had to
choose, it takes the evident repair: `startorder_real` is given the missing
`"ACTIVE"` that the client waits for (`PassengerLocationChanged.cpp:151`), and
`finish_order.c:90` calls `curl_to_dataserver_create_order`, the function that
takes an `order_t`.  Calls of functions that exist under another spelling
(`rop_is_key_exist`, `rop_del_key`, `curl_to_dataserver_req`) reach them, the
format `"EXISTS %S"` is `"EXISTS %s"`; `server_data/make_log.c:79` calls `out_out_file`,
which is defined nowhere, and is taken to call `out_put_file` below it.  `WebServer` and `Phones` take the route
`finishOrder` to reach its handler, or nothing could be asked about the end of a
ride (`HttpServer` has the route as it is written); `get_array` and `geo_array` of
`rop_geo_radius` are the same array.
Where the text has a meaning of its own it is kept: the missing `== 0` of
`location_changed.c:144`, `"idel"` for idle drivers, the names of fields.

## 3. The runs

### What holds

| Run | Module | Instance | Distinct states |
|---|---|---|---|
| `ride` | `MCWebServer` | 2 driver sessions, 1 passenger session, 2 orders; statuses ready and driving; writing the order id into the passenger's session may fail, sessions may expire at any time, and Redis may refuse what is written into the passenger's | 3 870 000 |
| `faults` | `RideBook` | a driver and a user who has to register first, 1 session of each role, 1 order; every call flaky, kill -9 at every call, finishing `"NONE"`; Redis may refuse what is written into the passenger's session | 2 140 000 |
| `phones` | `MCPhones` | 2 phones, 1 driver session, 2 passenger sessions, 1 order; statuses idle, ready, waiting | 1 430 000 |
| `lossy` | `Phones`, fair | 1 phone whose calls break and whose app is killed, 1 driver and 2 passenger sessions, 1 order, a user who has to register; a new session may fail | 454 000 |
| `http` | `HttpServer`, fair | 1 connection to each server, 3 requests on each, GET, POST and another method, good and bad URIs, broken bodies, ends of the process | 38 700 |
| `pipeline` | `RedisPipeline`, fair | 2 fields, 2 values; the connection may break, Redis may refuse | 177 000 |
| `geo` | `GeoReply`, fair | 3 drivers at distances up to 3, a radius of 2 (1 kilometre of 2 metres), a buffer for 2 of them, kills of the data server | 160 000 |
| `screen` | `PassengerScreen` | 2 places, 3 questions under way | 165 000 |
| `logs` | `LogFiles`, fair | 5 days of 2 to a month of 2 to a year | 30 300 |

What each asks, and what it shows:

* `ride`: no session holds an order that is gone or somebody else's
  (`NoDanglingOrder`); no late report brings a finished order back
  (`NoResurrection`) or writes into another's (`OwnPosition`); the row names the
  right two people (`RightNames`); a driver who said that he is busy is not in
  the pool (`BusyIsNotPooled`).  Redis may refuse what is written into the passenger's
  session, and the properties are about the other sessions and the orders.  Two drivers and two orders are what it
  takes for a newer order over an older one in one session, for a driver who is
  assigned twice, and for a passenger who does not learn of the first order.
* `faults`: any call may fail, and Redis may refuse what is written into the
  passenger's session.  "ok" to `/finishOrder` means recorded and held by no session
  but one that Redis refused to clear (`FinishedIsDone`); "ok" to `/startSetOrder`
  means that the order names both sides and each holds it, but where Redis refused
  to write that (`OrderedIsAssigned`); of the sessions and orders at which nothing
  is refused the order book is kept (`BookSpec`).  Refusals or not, a session belongs
  to a registered user of its role (`SessionIsRegistered`) and has a deadline once it is
  handed out (`HandedSessionExpires`), and an order leaves the cache for MySQL only
  (`NoOrderLost`).  One failure of any
  call is what tells the handlers apart; more sessions add the same again.
* `phones`: two users after each other on one phone, and two phones at once.  A
  phone finishes only orders of the session in its `Data` (`OnlyPartiesFinish`), a passenger
  whose phone knows of an order is not shown idle (`KnownOrderIsShown`), and the
  phones are clients as `WebServer` takes them to be (`PhonesAreClients`), so
  everything shown about the server with any clients is true with these.
  Two limits: a user who has just registered has no session of his own
  (`reg.cpp:70`), so one who finishes with the session and the order of the user before
  him is not told apart; and `setStatus` (`Data.cpp:39`) works for any role but is taken
  to be called by the screen of a driver only (the app has no caller), on which
  `KnownOrderIsShown` rests.
* `lossy`: the same phone when answers are lost or taken for errors, when the app
  is killed while the server works for it, and when a request fails half-way.
  Its beliefs are then wrong, yet they do not reach another's order
  (`OnlyPartiesFinish`); every request ends (`EveryRequestEnds`) and the screen
  that waits comes back to life (`EveryCallReturns`).
* `http`: the answer a client reads is that of its own request (`OwnAnswer`), also
  after a GET that was not answered or a process that ended; whoever sent
  anything but a GET gets an answer or sees the connection end
  (`NobodyWaitsForEver`; a GET that is not answered is waited for in vain); each
  command the web server posts has its function in the data server
  (`StoreIsServed`).  `/login` is left out of
  `Looked`, see below.  Three requests let two answers too many pile up.
* `pipeline`: a reply belongs to its command (`OwnReplies`); an ok means that all
  of a request was done and an error that all, nothing or the first few fields
  were (`AsOneStep`, with `PrefixWritten` for a setHash at any time); getHash puts
  each value under its own field (`GotOwnValues`); a single write that is refused
  is not answered with ok (`SingleWriteIsTold`); buffers, replies and broken
  connections together are one request of `CacheRequest`, each step of it executed
  once at most (`RequestSpec`); and each request ends (`EveryCallEnds`).
* `geo`: the driver an order gets was the nearest at the time of the search
  (`NearestIsTaken`) although names and distances are copied row by row by the
  wrong index; the buffer of the web server is overrun by leftover memory only
  (`OverrunIsLeftovers`: three drivers end the data server, and two of ordinary size
  fit); the query ends (`EveryQueryEnds`).  Three rows are needed: the wrong
  index is right in row 0, leaves out the distance in row 1, and ends the
  process in row 2.
* `screen`: the route that is drawn starts where its start is marked
  (`RouteStartsAtStart`); as long as answers come in turn, the screen ends up
  about what was typed and searched last (`SettledScreen`).
* `logs`: the directories are always a chain from the top (`ChainFits`); a message
  is lost only for what happens during its own LOG, never for what a killed
  call or a full disk left behind (`FiledUnlessDisturbed`); LOG gives the mutex
  back (`LogReturns`).  Five days pass the end of two months and of a year.

Each of `RideTypeOK` (which contains `TypeOK`), `HttpTypeOK`, `OpTypeOK`,
`GeoTypeOK`, `ScreenTypeOK` and `LogTypeOK` is the one type invariant of its
component.

Bounds.  `Posts`, `Statuses`, `NoOrder` and `Flaky` say which requests and
statuses clients send and at which calls something may go wrong; a request that
would need a fresh id is not accepted when none is left.  `Lossy`, `Failing`,
`Refusing` and `Killing` switch a kind of failure on.  What is named BOUND in a
module has no counterpart in the code.

Deadlock is checked except in `ride`, `faults` and `clock`.  In the first two the
finite set of uuids may be used up by sessions no client was given (their
replies or lifecycles fail), and clients then have nothing left to post; `clock`
ends at its last instant.

Each property of a passing run has a mutant: an operator of the modules whose
name starts with `Mut`, used by no action.  It stands for a plausible mistake in
the code (a result not looked at, a release left out, the same session read
twice, an answer from an old search), and the property fails when the mutant
takes the place of the definition it follows; `PROJECT.json` lists the pairs.

### Fairness

* `FairRideSpec` (`lossy`): weak fairness of the server while a handler runs (the
  event loop has no other work, `https_server.c:164`) and of a phone that has
  its answer (`curl_easy_perform` returns it); strong fairness of `Dispatch`,
  the acceptance of a waiting phone's request: libevent serves connections in
  the order they become ready, and other phones cannot overtake one for ever.
* `HttpSpec`: weak fairness of a request being taken, whether its callback or the
  process comes to an end, and of reading, for the same reasons.
* `OpSpec`: weak fairness of the running handler and of Redis.  `GeoSpec`: of the
  steps of the query.  `LogSpec`: of the steps of a running LOG.

All of it assumes that a call returns: neither `curl_send` nor the connection to
Redis has a timeout, so a server that takes a request and stays silent for ever stops
the one before it.  Users, Redis's clock, broken connections, kills and restarts
are unfair everywhere.

### What does not hold

Three runs end in a counterexample to a sentence of the repository:

* `clock`: `EXPIREAT key 600` removes the session at the moment it is to be kept.
* `routes`: `/finishOrder` reaches no callback, since the path is registered
  without its slash.
* `three`: three drivers within the radius end the data server
  (`redis_op.cpp:739` indexes the row where a constant is meant).

As long as `clock` and `routes` stand, they hide what comes after them in
practice: no session survives its own login, and no ride is finished.  The other
results are about the service as it is with those repaired, and hold in both cases.

The modules state more sentences that the code does not keep, under "what the
comments say" at their ends.  They have no run of their own; put one into the
cfg of a run of its module (each needs the posts and statuses that lead to it)
and TLC shows the way there:

| Property | What happens instead |
|---|---|
| `WebServer!ExpiredIsToldSo` | An expired session is answered with recode "2" (server error), not with "1", log in again (`location_changed.c:94`). |
| `WebServer!WaitingIsServed` | A waiting passenger who has an order is answered without position or status, for a missing `== 0` (`location_changed.c:144`). |
| `WebServer!StartTimeRecorded` | The start time is stored as `start_driving_time` and read as `start_order_time` (`remote_store.c:817`). |
| `WebServer!OnlyReadyIsPooled` | The server knows an idle driver as `"idel"`, the phone says `"idle"` (`busi_cb.h:42`): he stays in the pool. |
| `Phones!SignedIn` | A registration opens the screen of the role without a session (`reg.cpp:81`). |
| `Phones!StartedOrderIsKnown` | The phone looks for `"ordierid"` (`StartOrder.cpp:97`). |
| `Phones!FinishedDriverIsIdle` | The branch that would notice is behind one that asks for an order (`DriverLocationChanged.cpp:78`). |
| `PassengerScreen!TipsMatchText`, `!RouteEndsAtEnd`, `!SelfMarkerStays` | An older answer that comes later replaces the tips; a route is drawn to the end of a later search; drawing a route removes the passenger's marker. |
| `RedisPipeline!OkMeansWritten` | setHash does not look at the type of its replies (`redis_op.cpp:347`). |
| `RedisPipeline!FailureIsAnswered` | A connection that breaks before the reply ends the process (`redis_op.cpp:221`). |
| `GeoReply!WithinRadius`, `!DistanceIsOwn` | The radius is meant in metres and sent in kilometres (`redis_op.cpp:725`); the second driver's distance is never set (`:739`). |
| `HttpServer!OwnAnswer` with `"/login"` in `Looked` | GET `/login` is answered twice (`login.c:45`). |

## 4. What is proved

Every safety property that a passing run checks, invariant or action property, is
stated by a theorem here, for every value of the constants.

Assumptions: `Identifiers` (the prefixes of `create_sessionid` and
`create_orderid` keep the kinds of identifier and the words "NONE" and "" apart,
`util.c:23-45`), `Bounds` (which requests and words the constants may name); for
the phones `PhoneBounds` (nobody is no phone; an answer always leaves the
server, what becomes of it is the phone's); for the layers below `HttpBounds`,
`PipelineBounds`, `GeoBounds` (there are finitely many drivers, and two of
ordinary size fit the buffer), `ScreenBounds` and `CalendarIsNatural`.  No
assumption on how many of anything there are, nor on which calls are flaky, with
three exceptions that stand in the theorems themselves:

* `BusyDriversAreNotOffered` assumes `"rem_geo" \notin Flaky` and that the pool's key is
  not in `Refused`: the branch drops the result of the removal
  (`location_changed.c:113,124`), and the data server answers ok to a ZREM that Redis
  refused, so a driver whose removal failed is told "ok" and stays in the pool.  Every
  other call may fail and every other write be refused.
* `ConnectionsAreTyped` and `AnswersAreOwn` assume `"/login" \notin Looked`: a GET
  of that path is answered twice (`login.c:45`), after which answers are off by one.
* `LifecycleRemovesAtOnce` assumes that the servers are not started in the first ten
  minutes of 1970.

One limit stands in the properties.  `SafeSession` and `SafeOrder` are the sessions and
orders outside `Refused`, and `NoDanglingOrder`, `FinishedIsDone`, `OrderedIsAssigned`,
`NoResurrection`, `RightNames`, `OwnPosition`, `BookSpec` and `OnlyPartiesFinish` speak of
these.  Of the others they are false in the code: when Redis has no memory it refuses
the HSET of "NONE" and executes the DEL, and an order is finished, with an ok, that
a session still holds.  `SessionIsRegistered`, `HandedSessionExpires` and
`NoOrderLost` have no such limit; `KnownOrderIsShown` has none either, for it is about
what a phone was told.

| Theorem | Statement |
|---|---|
| `TypesHold` | `Spec => []TypeOK` |
| `LocalsAreReady` | `Spec => []TypeInv` |
| `NobodyDangles` | `Spec => []NoDanglingOrder` |
| `FinishIsFinal` | `Spec => []FinishedIsDone` |
| `OrderIsAssigned` | `Spec => []OrderedIsAssigned` |
| `OrdersAreNotLost` | `Spec => NoOrderLost` |
| `OrdersStayFinished` | `Spec => NoResurrection` |
| `SessionsAreRegistered` | `Spec => []SessionIsRegistered` |
| `HandedSessionsExpire` | `Spec => []HandedSessionExpires` |
| `PositionsAreOwn` | `Spec => OwnPosition` |
| `NamesAreRight` | `Spec => RightNames` |
| `ImplementsBook` | `Spec => BookSpec` |
| `HoldersAreOwn` | `Spec => []Book!HoldersAreParties` |
| `OrdersGoOn` | `Spec => Book!StagesGoOn /\ Book!OnlyOpenIsGiven` |
| `PhonesKeepTypes` | `RideSpec => []RideTypeOK` |
| `PhonesImplementClients` | `RideSpec => PhonesAreClients` |
| `PhonesKeepOrders` | `RideSpec => []NoDanglingOrder /\ NoResurrection` |
| `PhonesKeepPromises` | `RideSpec` implies the other properties of `Spec` above, the book's among them |
| `KnownOrdersAreShown` | `RideSpec => []KnownOrderIsShown` |
| `PartiesFinish` | `RideSpec => OnlyPartiesFinish` |
| `BusyDriversAreNotOffered` | `Spec => []BusyIsNotPooled`, if the removal neither fails nor is refused |
| `StorePostsAreDealtWith` | `HttpSpec => []StoreIsServed` |
| `ConnectionsAreTyped` | `HttpSpec => []HttpTypeOK`, without GET `/login` |
| `AnswersAreOwn` | `HttpSpec => []OwnAnswer`, without GET `/login` |
| `PipelineIsTyped` | `OpSpec => []OpTypeOK` |
| `RepliesAreOwn` | `OpSpec => []OwnReplies` |
| `WritesArePrefixes` | `OpSpec => []PrefixWritten` |
| `ValuesAreOwn` | `OpSpec => []GotOwnValues` |
| `SingleWritesAreTold` | `OpSpec => []SingleWriteIsTold` |
| `ServesRequests` | `OpSpec => RequestSpec` |
| `RequestsAreOneStep` | `OpSpec => []AsOneStep` |
| `LifecycleRemovesAtOnce` | `Spec` of `SessionClock` `=> []SetIsGone`, if `Start >= 600` |
| `QueriesAreTyped` | `GeoSpec => []GeoTypeOK` |
| `NearestDriverIsTaken` | `GeoSpec => []NearestIsTaken` |
| `OverrunsAreLeftovers` | `GeoSpec => []OverrunIsLeftovers` |
| `ThreeAreNotAnswered` | `GeoSpec => []AnsweredFew` |
| `ScreenIsTyped` | `ScreenSpec => []ScreenTypeOK` |
| `RoutesStartAtStart` | `ScreenSpec => []RouteStartsAtStart` |
| `ScreenSettles` | `ScreenSpec => []SettledScreen` |
| `LogsAreTyped` | `LogSpec => []LogTypeOK` |
| `ChainsFit` | `LogSpec => []ChainFits` |
| `MessagesAreFiled` | `LogSpec => []FiledUnlessDisturbed` |

The argument.  `TypeOK` alone is not inductive: `req.driver` has the type
"driver session or empty", and `SetOrderidDriver` uses it as a key that must be
a session.  `TypeInv` adds `LocalsFor`, what each handler has put into its
locals by the time each call is due.

`NoDanglingOrder` is not inductive either.  That deleting an order is safe
depends on the calls of the same handler before it, which released its two
sessions; that a poll's write is safe depends on the order it read being
there.  `OrderInv` is the conjunction of `TypeInv`, `DataInv` (`NoDanglingOrder`;
an order id that was not used has neither hash nor row, and no session holds it; clients are told of used
ones only) and `HandlerInv`, which ties the locals of the running handler to the
databases: `Assigning` (the order names the two sessions in the locals, and the
driver's session, once written, holds it or has expired), `Reporting` (the order
a poll of a safe session reads is in the cache until its reply, since only a finish
deletes orders and no finish runs meanwhile) and `Finishing` (the locals are the order's own two
sessions, it is recorded from the insert on, and the sessions released so far do
not hold it).
Each action has a lemma that it preserves `OrderInv`; `Harmless` gathers the
steps that change neither an order nor who holds it.  The two action properties
follow from `OrderInv` by the one action that can remove or write each order.

The pool (`SessionProofs`, last part).  `BusyIsNotPooled` looks at the reply only;
`PoolInv` follows the report there: one that says "catching" or "driving" is a
driver's, goes through `rem_geo`, and from then on finds its driver outside the
pool, which the branches that are left do not touch.

The sessions (`SessionProofs`).  That a session carries the name of a registered user
rests on the call before the one that writes it: `SessionInv` adds what `login_cb`
and `reg_cb` have established by each call (`LoggingIn`: the user is in MySQL
before the session is created, and its deadline is set before the reply), and
that only sessions that were created are handed out.  Users are never removed
and a name is never rewritten, so both survive every other step.

Whose order it is (`PartyProofs`).  A report writes into an order it read earlier,
and a finish records names read from sessions that may expire between the two
reads.  `PartyInv` adds to `OrderInv` and `SessionInv` that an order which a session
holds names both its sessions, that one among them (`HeldAreOwn`), and that an order
a client was told of names both its sessions or has its row (`ToldAreFull`; a setHash
that stops half way leaves orders that do not, and they are never held).  A
session in `Refused` may hold on to an order that was finished, which by then has
its row (`Own`); no order gets a row twice, and a safe session is never given one
that has it.  Further that the order in a report's locals is one of the reporter's
(`Reporter`), that the names in a finish's locals are those of the order's own
sessions or empty (`Namer`), and that an order being assigned has no row (`Fresh`).

The refinement (`PartyProofs`, second part).  Each step that writes a hash either concerns a
session, and is then an assignment or a release of the book, or none of its
steps; or it concerns the order in the locals, and is then its creation, its
removal or unseen; the insert is the record step.  `PartyInv` supplies the
order and the session the step of the book is about.  Sessions and orders in `Refused` are left out of the book by
the mapping (`SafeOrder` for its orders; `Held` is None for such a session), so a step
that concerns one of them is a stutter or changes the book's other half only.  An order is
closed when it has a row and names nobody, since the position that a refused session
still reports may bring its hash back without any name.  What the book promises
then holds for the web server: `OrdersGoOn` follows from the steps of the book
alone, with no look at any handler; `HoldersAreOwn`, that an order has one driver
and one passenger, uses `NoDanglingOrder` for what a session holds.  TLC checks
`BookSpec` in `faults` only, where every call fails; for two drivers and more
there is the proof.

The phones.  `PhonesImplementClients` is a refinement without a mapping, for
`Phones` keeps the variables of `WebServer`: each step of the phones leaves them
alone or is a step of `Next`.  What is to be shown is that an accepted request is
one a client may post.  `RideInv` says so of everything on its way: what
a phone remembers and what is in its calls are sessions that were handed out and
orders that were told (`Honest`), and a request keeps the shape of its handler.
That is inductive since `handed` and `told` only grow, and the reply that brings
a new session or order to a phone is the step that adds it to them.
`PhonesKeepOrders` and `PhonesKeepPromises` then follow from the theorems on
`WebServer` without another look at any handler.

What the phones remember (`PhonesProofs`, second part).  `finish_order_cb` does not compare
the order with a session, so that nobody finishes a stranger's ride depends on `Data`.
`Bookkeeping` says that the order in `Data` is one of the session in `Data` or was
finished (`Mine`, of the orders in `SafeOrder`), that this is so for the order in the call too, that a
login is under way only when the order was forgotten, and that the locals of
the handler are those of the message of the phone that waits (`Serves`).  `Mine`
survives the servers' steps because the parties of an order never change and it
disappears only with a row; the answer of a report brings an order of the
reporter by `Reporter`; the reply of a login finds no order to mix up.  A phone
that is killed, or whose call breaks, remembers less or the same.

The connections (`HttpProofs`).  That an answer is that of its own request is about
the order of answers on a kept connection.  `TurnInv` says that a client that
waits has either its request or at most one answer under way, which carries the
number of that request, and that a connection at rest is empty.  A callback that
answers twice breaks the second half, and this is where the assumption on
`/login` enters; a client whose GET is not answered has neither, and the end of
the process empties the connections of its server.  `StoreIsServed` needs the types only (`ServedInv`), since the
store client posts nothing but commands the tables have.

The pipelines (`CacheProofs`, first part).  A reply is taken for the answer of the
command whose turn it is, by its position and nothing else.  `OpInv` makes the
channel explicit: the replies, then what Redis has, then what is in the output buffer are
the commands of the request, each at its place (`InOrder`; where the connection
broke only the replies are left).  Without it the position of a reply means
nothing.  `Connected` adds that a connection is there while a request runs, so that
an ok comes with the last reply, and `HashWritten`, `HashRead` and `SingleWritten`
what the executed commands have done to the store and what the replies carry.

A request as a whole (`CacheProofs`, middle part).  `ServesRequests` maps the
connection to `CacheRequest`: the step that is next is the one after the replies
that are there (`Executed`), and the result is what the request would end with if
it ended with the next reply (`Outcome`), so the step is taken when Redis executes
it, and appending, sending and reading are stutters.  `OpInv` does not bear that
alone.  `Quiet` adds what else is under way: nothing after the end and nothing
while a pipeline is appended to, at most one command or reply of a request that
is not a pipeline, and no result but ok while a pipeline runs.  A connection that
breaks takes replies with it, so `next` may go back there, and nowhere else.
`RequestsAreOneStep` looks at the store: `AloneInv` says that what was executed of a
request is done, for all of them but setHash, whose prefix `HashWritten` has, and
that a reply that says the hash was there is right about the store before.

The query (`CacheProofs`, third part).  `FoundIsSorted` is about GEORADIUS: a
reply has each driver within the radius once, the nearest first (an injection
between finite sets of one size is onto).  `GeoInv` carries it to the answer: the
rows have the names of the reply in its order, and the buffer followed by what is
left is the array, so the first of the buffer is the first of the reply.  For the
buffer, `FewRows` adds that there are never more than two rows, the third being
fatal.  `Size` is a fold; a proof by induction is out of reach, but for two entries
its function can be written out (`FewAreSmall`).  `ThreeAreNotAnswered` follows from
the same count: the reply names every driver found (`FoundListsAll`), and an answer
that is sent has the rows of the whole reply.

The deadline (`CacheProofs`, at the end).  `LifecycleRemovesAtOnce` says of every
clock what the counterexample of `clock` shows of one: EXPIREAT with 600 drops a
session in the step that was to keep it.

The screen (`ScreenProofs`).  What a question was about is not kept with its answer,
so the invariant is about the queue of questions.  For `RouteStartsAtStart`: every
route was asked for from the start there is now, or before there was one, and
those without a start come first.  For `SettledScreen`: while answers come in
turn, the last question of a kind is about what the screen is to show, or there
is none of it and the screen shows it.

The logs (`LogProofs`).  `FiledUnlessDisturbed` looks at a call that has ended.
`LogInv` follows the call: as long as nothing disturbed it, what is above the
directory it asks for next is there (`OnItsWay`), whatever directories earlier
calls left; the day of its path is not before that of its stamp (`InTime`).

Only model-checked:

* every liveness property (`EveryRequestEnds`, `EveryCallReturns`,
  `NobodyWaitsForEver`, `EveryCallEnds`, `EveryQueryEnds`, `LogReturns`):
  fairness and ENABLED are out of the prover's reach;
* what the three runs with a counterexample show.

## 5. Not modelled

* The configuration file (`config.c`): a sequential scan at the start of each
  server, with no later reader but the connections to Redis and MySQL.
* TLS, and the JSON and HTTP libraries (`cJSON.*`, libcurl, libevent): third-party
  code.  A JSON message is its fields, a call arrives or fails.
* Lengths of lines, messages and identifiers, except where a buffer is filled
  by the number of drivers (`GeoReply`).
* Passwords: a wrong one is a login that fails, whatever the passwords are.
* In `Phones`, a call to the data server that is still on its way when the web
  server is killed: it has either been executed or not by the time the next
  request is served.  A restart of the data server, or a loss of Redis's
  memory, in the middle of a ride; `RedisPipeline` and `GeoReply` have the end of
  the process, not what the web server makes of an empty Redis.
* MySQL's mode and its errors other than "not inserted" and "not found".
* The functions of `redis_op.cpp` that no handler calls (lists, batches,
  counters, `rop_flush_database`).
* `DriverActivity`, which shows a map with the driver's own marker and makes no call; the
  activities that try out the JNI calls or were replaced (`JNITestActivity`,
  `LoginActivity`, `MainActivity`).
* `login.cpp:85` and `reg.cpp:61` post to port 7777 (login without TLS), and the
  start-up scripts have the servers at 18888 and 18889; the models take the
  address to be right.

## 6. Plan

Done, in the order of importance: the handlers with failures, expiry and restarts
and their order book (`WebServer`, `OrderBook`, `RideBook`); the deadline with
a clock; the phones composed with the server; the layers below; the screen and
the logs; every safety property of the runs proved, the refinement of the order
book and that of the clients among them;
the book's promises carried over to the web server and to the phones, and the
commands of `/cache` proved to be the requests, and the single steps, that
`DataServer` takes them for.

Left, and why:

1. The search as `DataServer!RadiusGeo` needs no mapping: that step answers any
   member of the pool or none, and `NearestDriverIsTaken` says more.
2. A proof that joins the two levels in one module would carry the state of
   `RedisPipeline` through every handler of `WebServer`.  `AsOneStep` is stated in
   the terms of `DataServer`'s operators so that the two can be read side by side;
   a hash that expires in the middle of a setHash, and a write that Redis refuses,
   are left out of it; `DataServer` has the refused writes in `SetHash` and
   `RemZset`, at the keys of `Refused`.
3. The properties of `SessionClock` for a corrected EXPIREAT: there is no such code.
4. `NoDanglingOrder` when Redis comes back empty: the sessions and the orders go
   together, the rows stay; what a phone then posts needs its own run.
5. Liveness, for the reason given in section 4.
