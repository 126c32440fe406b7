----------------------------- MODULE DataServer -----------------------------
(***************************************************************************)
(* The data server (src/server_data): one command of the web server is one *)
(* JSON request to /cache (Redis) or /persistent (MySQL), executed to its  *)
(* end by a single-threaded event loop.  Every command is an operator of   *)
(* this module whose last parameter ok is the "result" the web server      *)
(* gets: TRUE for "ok", FALSE for "error" or for no answer at all.  An     *)
(* answer FALSE does not say that nothing was done: the connection may     *)
(* break after the command was executed, and a pipeline of HSETs may stop  *)
(* half way.  Nor does TRUE always say that all was done: two functions do *)
(* not look at what Redis answers, see Refused.                            *)
(***************************************************************************)
EXTENDS Naturals, FiniteSets

CONSTANTS
    User,           \* user names
    DriverSid,      \* the strings "online-driver-<uuid>"
    PassengerSid,   \* the strings "online-user-<uuid>"
    OrderId,        \* the strings "orderid-<uuid>"
    OldDrivers,     \* the users a database that is not empty knows
    OldPassengers,  \*   before the servers start, by their driver column
    Refused         \* the keys at which Redis may refuse a write and the
                    \*   answer is "ok" all the same

SessionId == DriverSid \cup PassengerSid

None  == "NONE"     \* ORDER_ID_NONE: the session has no order
Empty == ""         \* an absent hash field reads as the empty string

\* create_sessionid and create_orderid put a prefix of their own on every
\* uuid, so the three kinds of identifier and the two words are all different.
ASSUME Identifiers ==
    /\ OldDrivers \subseteq User /\ OldPassengers \subseteq User
    /\ OldDrivers \cap OldPassengers = {}
    /\ DriverSid \cap PassengerSid = {}
    /\ SessionId \cap OrderId = {}
    /\ User \cap {None, Empty} = {}
    /\ (SessionId \cup OrderId) \cap {None, Empty} = {}

OrderKey == OrderId \cup {None, Empty}  \* what a client can send as an orderid
Key      == SessionId \cup OrderKey     \* the Redis keys the commands name

\* The key of the pool, a sorted set.
KEY_ONLINE_DRIVERS_GEO_ZSET == "ONLINE_DRIVER_GEO_ZSET"

\* Redis refuses a write when it has no memory left, cannot save its data or is a
\* read-only replica.  Refused is a constant: what is said of the other keys holds
\* of every run in which the refusals concern no other key than these.
ASSUME Refusals == Refused \subseteq Key \cup {KEY_ONLINE_DRIVERS_GEO_ZSET}

(***************************************************************************)
(* One Redis hash.  A session has username and orderid, an order the rest. *)
(* Addresses, prices, coordinates and the fields no handler reads back are *)
(* payload; position stands for dtemp_* and ptemp_*, of which it only says *)
(* whether someone wrote one.                                              *)
(***************************************************************************)
Hash == [ username            : User \cup {Empty},
          orderid             : OrderKey,
          order_status        : {Empty, "INIT", "ACTIVE"},
          passenger_sessionid : PassengerSid \cup {Empty},
          driver_sessionid    : DriverSid \cup {Empty},
          start_order_time    : {Empty, "time"},
          position            : {Empty, "point"} ]

Blank == [ username |-> Empty, orderid |-> Empty, order_status |-> Empty,
           passenger_sessionid |-> Empty, driver_sessionid |-> Empty,
           start_order_time |-> Empty, position |-> Empty ]

\* A row of OBO_TABLE_ORDER, reduced to the two people and the start time.
Row == [ passenger_username : User \cup {Empty},
         driver_username    : User \cup {Empty},
         start_order_time   : {Empty, "time"} ]

NoRow == [ passenger_username |-> None, driver_username |-> None,
           start_order_time |-> None ]

VARIABLES
    hash,       \* Redis: the hash at each key, Blank where there is no key
    volatile,   \* Redis: the keys that have a deadline
    geo,        \* Redis: the members of ONLINE_DRIVER_GEO_ZSET
    userTable,  \* MySQL: the driver column of OBO_TABLE_USER, Empty: no row
    orderTable  \* MySQL: OBO_TABLE_ORDER by its primary key, or NoRow

dataVars == <<hash, volatile, geo, userTable, orderTable>>

DataTypeOK ==
    /\ hash \in [Key -> Hash]
    /\ volatile \subseteq SessionId
    /\ geo \subseteq DriverSid
    /\ userTable \in [User -> {Empty, "yes", "no"}]
    /\ orderTable \in [OrderKey -> Row \cup {NoRow}]

DataInit ==
    /\ hash = [k \in Key |-> Blank]
    /\ volatile = {}
    /\ geo = {}
    /\ userTable = [u \in User |-> IF u \in OldDrivers THEN "yes"
                                   ELSE IF u \in OldPassengers THEN "no" ELSE Empty]
    /\ orderTable = [o \in OrderKey |-> NoRow]

Exists(k) == hash[k] # Blank

-----------------------------------------------------------------------------
(* /cache: the Redis commands                                              *)

\* The hashes whose fields are each the old or the new one.
Mixed(old, new) ==
    [ username            : {old.username, new.username},
      orderid             : {old.orderid, new.orderid},
      order_status        : {old.order_status, new.order_status},
      passenger_sessionid : {old.passenger_sessionid, new.passenger_sessionid},
      driver_sessionid    : {old.driver_sessionid, new.driver_sessionid},
      start_order_time    : {old.start_order_time, new.start_order_time},
      position            : {old.position, new.position} ]

\* setHash: the HSETs are sent in one pipeline, so a failure leaves the hash
\* as it was, or with the first few of the fields (the set partial), or with
\* all of them and only the answer lost.  The type of a reply is not looked at:
\* a HSET that Redis refused counts as any other.
SetHash(k, partial, full, ok) ==
    /\ \E h \in IF k \in Refused THEN Mixed(hash[k], full)
              ELSE IF ok THEN {full} ELSE {hash[k], full} \cup partial :
          hash' = [hash EXCEPT ![k] = h]
    /\ UNCHANGED <<volatile, geo, userTable, orderTable>>

\* existKey: "error" answers both for a key that is not there and a failure.
ExistKey(k, ok) ==
    /\ ok => Exists(k)
    /\ UNCHANGED dataVars

\* The key is gone, with its fields and its deadline.
Remove(k) ==
    /\ hash' = [hash EXCEPT ![k] = Blank]
    /\ volatile' = volatile \ {k}
    /\ UNCHANGED <<geo, userTable, orderTable>>

\* setLifecycle: EXPIREAT answers 1 for a key that is there.  The deadline is
\* absolute, and one that has passed already removes the key at once; the
\* clock is not modelled, so both outcomes are possible.
SetLifecycle(k, ok) ==
    \/ /\ Exists(k)
       /\ volatile' = volatile \cup {k}
       /\ UNCHANGED <<hash, geo, userTable, orderTable>>
    \/ /\ Exists(k)
       /\ Remove(k)
    \/ /\ ~ok
       /\ UNCHANGED dataVars

\* deleteKey: the answer is "error" when there was nothing to delete.
DeleteKey(k, ok) ==
    \/ /\ ok => Exists(k)
       /\ Remove(k)
    \/ /\ ~ok
       /\ UNCHANGED dataVars

\* remZset: "ok" whether or not the member was there, and also when Redis refused
\* to remove it.
RemZset(d, ok) ==
    /\ \E g \in IF ok /\ KEY_ONLINE_DRIVERS_GEO_ZSET \notin Refused
              THEN {geo \ {d}} ELSE {geo, geo \ {d}} : geo' = g
    /\ UNCHANGED <<hash, volatile, userTable, orderTable>>

AddGeo(d, ok) ==
    /\ \E g \in IF ok THEN {geo \cup {d}} ELSE {geo, geo \cup {d}} : geo' = g
    /\ UNCHANGED <<hash, volatile, userTable, orderTable>>

\* radiusGeo: the drivers of the pool within the radius; positions are
\* abstracted, so the first of the answer is any member of the pool, or there
\* is none (Empty).
RadiusGeo(d, ok) ==
    /\ d \in IF ok THEN geo \cup {Empty} ELSE {Empty}
    /\ UNCHANGED dataVars

\* Redis drops a key that has a deadline: at any time after SetLifecycle,
\* since the clock is not modelled.
Expire(k) ==
    /\ k \in volatile
    /\ Remove(k)

-----------------------------------------------------------------------------
(* /persistent: the MySQL commands                                         *)

\* Login query: a row with this name and role; a wrong password fails too.
QueryUser(u, role, ok) ==
    /\ ok => userTable[u] = role
    /\ UNCHANGED dataVars

\* u_name is unique: a second insert of a name is refused.
InsertUser(u, role, ok) ==
    \/ /\ userTable[u] = Empty
       /\ userTable' = [userTable EXCEPT ![u] = role]
       /\ UNCHANGED <<hash, volatile, geo, orderTable>>
    \/ /\ ~ok
       /\ UNCHANGED dataVars

\* orderid is the primary key: a second insert of an order is refused.
InsertOrder(o, row, ok) ==
    \/ /\ orderTable[o] = NoRow
       /\ orderTable' = [orderTable EXCEPT ![o] = row]
       /\ UNCHANGED <<hash, volatile, geo, userTable>>
    \/ /\ ~ok
       /\ UNCHANGED dataVars
=============================================================================
