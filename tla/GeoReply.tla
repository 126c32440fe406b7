------------------------------ MODULE GeoReply ------------------------------
(***************************************************************************)
(* How set_order gets a driver: GEORADIUS in Redis, the array that         *)
(* rop_geo_radius fills from the reply, the answer of the data server, and *)
(* the buffer and the loop of curl_to_cacheserver_radiusGeo.  WebServer    *)
(* takes all of this as one answer; here it is what it really is: rows,    *)
(* fields and pieces.                                                      *)
(***************************************************************************)
EXTENDS Integers, SequencesExt, FiniteSetsExt

CONSTANTS
    Driver,     \* the sessions of the drivers
    NoDriver,   \* nobody
    Kilometre,  \* BOUND: how many metres a kilometre has
    GEO_RADIUS, \* what set_order sends as the radius
    Far,        \* BOUND: the largest distance, in metres
    Capacity,   \* BOUND: RESPONSE_DATA_LEN, in drivers of ordinary size
    Longest,    \* BOUND: the size of a driver whose distance is leftover memory
    Killing     \* BOUND: whether the data server may be killed during a query

ASSUME GeoBounds ==
    /\ IsFiniteSet(Driver) /\ NoDriver \notin Driver
    /\ {Kilometre, GEO_RADIUS, Far, Longest} \subseteq Nat \ {0}
    /\ Capacity \in Nat /\ Capacity >= 2
    /\ Killing \in BOOLEAN

VARIABLES
    near,       \* Redis: the distance of each driver in the pool, 0 for the others
    data,       \* the data server: it waits, copies rows, sends its answer, or is gone
    reply,      \* the reply of GEORADIUS
    array,      \* geo_array, as far as it is filled
    left,       \* the part of the answer that has not arrived yet
    web,        \* the web server: it waits for an order or for an answer, or is gone
    buffer,     \* res_data
    chosen,     \* drivers[0]; NoDriver when set_order answers RECODE_NO_DRIVER
    asked       \* history: near at the time of the query

geoVars == <<near, data, reply, array, left, web, buffer, chosen, asked>>

Distance == 0..Far
Entry == [name : Driver, distance : Distance, size : 1..Longest]

Size(s) == FoldLeft(LAMBDA n, e : n + e.size, 0, s)

\* The unit of the query is the kilometre.
InRange(pool) == {d \in Driver : pool[d] > 0 /\ pool[d] <= GEO_RADIUS * Kilometre}

\* What GEORADIUS ... ASC may return.
Found(pool) ==
    {s \in SetToSeqs(InRange(pool)) :
        \A i, j \in DOMAIN s : i < j => pool[s[i]] <= pool[s[j]]}

\* mutant: the field of an element does not depend on the row
MutTarget(i, j) ==
    CASE j = 0 -> "name" [] j = 1 -> "distance" [] j = 2 -> "location" [] OTHER -> "none"

\* The field that element j of row i (both from 0) is copied to.
Target(i, j) ==
    CASE j = 0 -> "name"
      [] j # 0 /\ j = i -> "distance"
      [] j # 0 /\ j # i /\ j = 2 -> "location"
      [] OTHER -> "none"

\* Element 0 is the name, 1 the distance, and 2 an array, which has no string.
RowIsFatal(i) == Target(i, 2) \notin {"location", "none"}

\* A row that is not fatal.  What is not written is what malloc left there.
Rows(i, d, pool) ==
    [name : {d},
     distance : IF Target(i, 1) = "distance" THEN {pool[d]} ELSE Distance,
     size : IF Target(i, 1) = "distance" THEN {1} ELSE 1..Longest]

GeoInit ==
    /\ near \in [Driver -> Distance]
    /\ data = "ready" /\ reply = <<>> /\ array = <<>> /\ left = <<>>
    /\ web = "idle" /\ buffer = <<>> /\ chosen = NoDriver
    /\ asked = near

-----------------------------------------------------------------------------
\* addGeo of a driver that reports, remZset of one that is taken
Report(d, n) ==
    /\ data = "ready"
    /\ near' = [near EXCEPT ![d] = n]
    /\ UNCHANGED <<data, reply, array, left, web, buffer, chosen, asked>>

\* set_order_cb asks, and the data server has the reply of Redis.
Ask ==
    /\ web = "idle" /\ data = "ready"
    /\ \E s \in Found(near) : reply' = s
    /\ data' = "copying" /\ web' = "waiting"
    /\ array' = <<>> /\ buffer' = <<>> /\ chosen' = NoDriver
    /\ asked' = near
    /\ UNCHANGED <<near, left>>

\* One turn of the loop of rop_geo_radius
CopyRow ==
    /\ data = "copying"
    /\ Len(array) < Len(reply)
    /\ LET i == Len(array)
       IN  IF RowIsFatal(i)
           THEN data' = "down" /\ UNCHANGED array
           ELSE /\ \E row \in Rows(i, reply[i + 1], near) : array' = Append(array, row)
                /\ UNCHANGED data
    /\ UNCHANGED <<near, reply, left, web, buffer, chosen, asked>>

\* make_response_geo_drivers_json
Answer ==
    /\ data = "copying"
    /\ Len(array) = Len(reply)
    /\ data' = "sending"
    /\ left' = array
    /\ UNCHANGED <<near, reply, array, web, buffer, chosen, asked>>

\* mutant: the piece is copied to the start of the buffer.
MutReceive ==
    /\ web = "waiting" /\ data = "sending"
    /\ \E n \in 1..Len(left) :
        /\ buffer' = SubSeq(left, 1, n)
        /\ left' = SubSeq(left, n + 1, Len(left))
        /\ web' = IF Size(buffer') > Capacity THEN "overrun" ELSE "waiting"
    /\ UNCHANGED <<near, data, reply, array, chosen, asked>>

\* reg_curl_to_dataserver_cb is called with the next piece, and does not ask
\* whether there is room for it.
Receive ==
    /\ web = "waiting" /\ data = "sending"
    /\ \E n \in 1..Len(left) :
        /\ buffer' = buffer \o SubSeq(left, 1, n)
        /\ left' = SubSeq(left, n + 1, Len(left))
        /\ web' = IF Size(buffer') > Capacity THEN "overrun" ELSE "waiting"
    /\ UNCHANGED <<near, data, reply, array, chosen, asked>>

\* mutant: an answer of nothing is waited for.
MutTake ==
    /\ web = "waiting" /\ data = "sending" /\ left = <<>> /\ buffer # <<>>
    /\ chosen' = buffer[1].name
    /\ web' = "answered" /\ data' = "ready"
    /\ UNCHANGED <<near, reply, array, left, buffer, asked>>

\* The loop over the drivers, and set_order_cb takes the first.
Take ==
    /\ web = "waiting" /\ data = "sending" /\ left = <<>>
    /\ chosen' = IF buffer = <<>> THEN NoDriver ELSE buffer[1].name
    /\ web' = "answered" /\ data' = "ready"
    /\ UNCHANGED <<near, reply, array, left, buffer, asked>>

\* curl_easy_perform returns an error, curl_send -1, and the order fails.
Broken ==
    /\ web = "waiting" /\ data = "down"
    /\ web' = "failed"
    /\ UNCHANGED <<near, data, reply, array, left, buffer, chosen, asked>>

\* The order is answered, and the next one may come.
ReplyToOrder ==
    /\ web \in {"answered", "failed"}
    /\ web' = "idle"
    /\ UNCHANGED <<near, data, reply, array, left, buffer, chosen, asked>>

\* The process is killed while it works on the query.
Kill ==
    /\ Killing /\ data \in {"copying", "sending"}
    /\ data' = "down"
    /\ UNCHANGED <<near, reply, array, left, web, buffer, chosen, asked>>

\* start-up.sh of either server
RestartData ==
    /\ data = "down" /\ web # "waiting"
    /\ data' = "ready"
    /\ reply' = <<>> /\ array' = <<>> /\ left' = <<>>
    /\ UNCHANGED <<near, web, buffer, chosen, asked>>

RestartWeb ==
    /\ web = "overrun"
    /\ web' = "idle" /\ buffer' = <<>>
    /\ data' = IF data = "down" THEN data ELSE "ready"
    /\ left' = <<>>
    /\ UNCHANGED <<near, reply, array, chosen, asked>>

GeoStep == CopyRow \/ Answer \/ Receive \/ Take \/ Broken \/ ReplyToOrder

GeoNext ==
    \/ \E d \in Driver, n \in Distance : Report(d, n)
    \/ Ask
    \/ GeoStep
    \/ Kill \/ RestartData \/ RestartWeb

GeoSpec == GeoInit /\ [][GeoNext]_geoVars /\ WF_geoVars(GeoStep)

-----------------------------------------------------------------------------
\* The types; and the server waits for what was asked and is not answered: the
\* rows are those of the reply, in its order, and the buffer and what is left are
\* together the array (remote_store.c:24-25, redis_op.cpp:734-747).
GeoTypeOK ==
    /\ near \in [Driver -> Distance] /\ asked \in [Driver -> Distance]
    /\ data \in {"ready", "copying", "sending", "down"}
    /\ web \in {"idle", "waiting", "answered", "failed", "overrun"}
    /\ reply \in Found(asked) \cup {<<>>}
    /\ array \in Seq(Entry) /\ Len(array) <= Len(reply)
    /\ \A i \in DOMAIN array : array[i].name = reply[i]
    /\ chosen \in Driver \cup {NoDriver}
    /\ data = "sending" => buffer \o left = array

\* Whatever the row loop leaves out and however the answer is cut, an order that
\* gets a driver gets one that was nearest, and "no driver" means there was none
\* within the radius (set_order.c:100-107, redis_op.cpp:725).
NearestIsTaken ==
    web = "answered" =>
        IF InRange(asked) = {} THEN chosen = NoDriver
        ELSE /\ chosen \in InRange(asked)
             /\ \A d \in InRange(asked) : asked[chosen] <= asked[d]

\* The buffer of remote_store.c:24 has no bound check, and only a driver whose
\* distance is leftover memory can make two drivers too many for it: with three
\* there is no answer at all (redis_op.cpp:739-741).
OverrunIsLeftovers ==
    web = "overrun" => \E i \in DOMAIN buffer : buffer[i].size > 1

\* The web server does not wait for ever: neither for a data server that ended
\* nor for an answer without drivers (remote_store.c:55-59).
EveryQueryEnds == web = "waiting" ~> web # "waiting"

(* What the comments say and the functions do not do                        *)

\* "how many metres around" (deal_cache.c:225): the driver is within the radius.
WithinRadius ==
    web = "answered" /\ chosen # NoDriver => asked[chosen] <= GEO_RADIUS

\* "how many metres away from oneself" (remote_store.c:366): the distance of a
\* driver in the answer is its own.
DistanceIsOwn ==
    web = "answered" => \A i \in DOMAIN buffer : buffer[i].distance = asked[buffer[i].name]

\* "OUT: the data of all drivers" (remote_store.c:313): a query that nothing
\* disturbs returns every driver within the radius.
AllDriversReported ==
    /\ ~Killing => web # "failed"
    /\ web = "answered" => {buffer[i].name : i \in DOMAIN buffer} = InRange(asked)
=============================================================================
