---------------------------- MODULE RedisPipeline ----------------------------
(***************************************************************************)
(* The data server's side of Redis (redis_op.cpp under deal_cache.c): one  *)
(* connection per request, on which a function either sends one command    *)
(* and waits for its reply, or appends several to a buffer and then takes  *)
(* the replies one by one.  hiredis sends what is in the buffer when the   *)
(* first reply is asked for; Redis executes it command by command; the     *)
(* connection may break at any point.  DataServer takes a request as one   *)
(* step: this module shows what may become of it.                          *)
(***************************************************************************)
EXTENDS Integers, SequencesExt, FiniteSetsExt

CONSTANTS
    Field,      \* the fields of a hash (a session or an order)
    Value,      \* what is written
    NoValue,    \* nothing is there
    Failing,    \* BOUND: whether a connection may fail or break
    Refusing    \* BOUND: whether Redis may refuse writes (memory, disk)

ASSUME PipelineBounds ==
    /\ NoValue \notin Value
    /\ {"string", "member"} \cap Field = {}
    /\ Failing \in BOOLEAN /\ Refusing \in BOOLEAN

VARIABLES
    server,     \* the data server: waits for a request, runs one, ends it, or is gone
    call,       \* the request: command, fields and value
    ret,        \* the local ret
    values,     \* rvalues of getHash
    conn,       \* the connection: its state, and whether it is usable
    appended,   \* how many commands were appended to the buffer
    obuf,       \* those that hiredis has not sent yet
    inbox,      \* those that Redis has not executed yet
    replies,    \* the replies that were not read yet
    store,      \* Redis: the fields of the hash, the string, the geo member
    volatile,   \* Redis: whether the hash has a deadline
    before,     \* history: store when the request came
    expired,    \* history: whether the hash expired during the request
    refused     \* history: whether Redis refused a write during the request

handler  == <<server, call, ret, values, conn, appended>>
channel  == <<obuf, inbox, replies>>
redis    == <<store, volatile>>
opVars   == <<server, call, ret, values, conn, appended, obuf, inbox, replies,
              store, volatile, before, expired, refused>>

Place == Field \cup {"string", "member"}

NoCall == [cmd |-> "none", fields |-> <<>>, value |-> NoValue]

\* The fields of a request are distinct, and there is at least one.
FieldLists == {s \in UNION {[1..n -> Field] : n \in 1..Cardinality(Field)} : IsInjective(s)}

Calls ==
    [cmd : {"setHash"}, fields : FieldLists, value : Value] \cup
    [cmd : {"getHash"}, fields : FieldLists, value : {NoValue}] \cup
    [cmd : {"setString", "setLimitedString", "addGeo"}, fields : {<<>>}, value : Value] \cup
    [cmd : {"existKey", "deleteKey", "setLifecycle", "remZset", "radiusGeo"},
     fields : {<<>>}, value : {NoValue}]

Command(name, place, value) == [name |-> name, place |-> place, value |-> value]

\* What a request sends.  A string that is not "unlimited" is two commands.
Commands(c) ==
    CASE c.cmd = "setHash" -> [i \in DOMAIN c.fields |-> Command("hset", c.fields[i], c.value)]
      [] c.cmd = "getHash" -> [i \in DOMAIN c.fields |-> Command("hget", c.fields[i], NoValue)]
      [] c.cmd = "setString"    -> <<Command("set", "string", c.value)>>
      [] c.cmd = "setLimitedString" -> <<Command("set", "string", c.value),
                                         Command("expire", "string", NoValue)>>
      [] c.cmd = "addGeo"       -> <<Command("geoadd", "member", c.value)>>
      [] c.cmd = "existKey"     -> <<Command("exists", "hash", NoValue)>>
      [] c.cmd = "deleteKey"    -> <<Command("del", "hash", NoValue)>>
      [] c.cmd = "setLifecycle" -> <<Command("expireat", "hash", NoValue)>>
      [] c.cmd = "remZset"      -> <<Command("zrem", "member", NoValue)>>
      [] c.cmd = "radiusGeo"    -> <<Command("georadius", "member", NoValue)>>
      [] OTHER                  -> <<>>

\* rop_hash_set_append and rop_hash_get_append; the others are redisCommand.
Pipelined(c) == c.cmd \in {"setHash", "getHash"}

\* The functions that look into a reply without asking whether there is one.
Unchecked == {"exists", "del", "expireat", "set", "expire", "zrem"}

-----------------------------------------------------------------------------
OpInit ==
    /\ server = "idle" /\ call = NoCall /\ ret = 0 /\ values = <<>>
    /\ conn = [state |-> "none", read |-> 0] /\ appended = 0
    /\ obuf = <<>> /\ inbox = <<>> /\ replies = <<>>
    /\ store = [p \in Place |-> NoValue] /\ volatile = FALSE
    /\ before = store /\ expired = FALSE /\ refused = FALSE

\* deal_cache_*: the request comes in and rop_connectdb_nopwd is called.
Connect(c) ==
    /\ server = "idle"
    /\ call' = c /\ values' = <<>> /\ appended' = 0
    /\ \/ /\ conn' = [state |-> "open", read |-> 0]
          /\ server' = "run" /\ ret' = 0
       \/ /\ Failing
          /\ conn' = [state |-> "none", read |-> 0]
          /\ server' = "end" /\ ret' = -1
    /\ before' = store /\ expired' = FALSE /\ refused' = FALSE
    /\ UNCHANGED <<channel, redis>>

\* A command is put into the buffer; all of a pipeline before the first reply.
AppendCommand ==
    /\ server = "run"
    /\ appended < Len(Commands(call))
    /\ Pipelined(call) \/ appended = conn.read
    /\ appended' = appended + 1
    /\ obuf' = Append(obuf, Commands(call)[appended + 1])
    /\ UNCHANGED <<server, call, ret, values, conn, inbox, replies, redis, before, expired, refused>>

\* hiredis has no memory for the command: the pipeline ends, nothing was sent.
AppendFails ==
    /\ Failing
    /\ server = "run" /\ Pipelined(call)
    /\ appended < Len(Commands(call))
    /\ ret' = -1 /\ server' = "end"
    /\ UNCHANGED <<call, values, conn, appended, channel, redis, before, expired, refused>>

\* The first redisGetReply sends what is in the buffer.
Flush ==
    /\ server = "run" /\ conn.state = "open"
    /\ obuf # <<>>
    /\ Pipelined(call) => appended = Len(Commands(call))
    /\ inbox' = inbox \o obuf
    /\ obuf' = <<>>
    /\ UNCHANGED <<handler, replies, redis, before, expired, refused>>

\* Mutant: a string's ret is the one of its last command.
MutRetOf(reply) ==
    CASE reply.name \in {"exists", "del", "expireat", "expire"} ->
              IF reply.type = "integer" /\ reply.integer = 1 THEN 0 ELSE -1
      [] reply.name = "set"       -> IF reply.type = "status" THEN 0 ELSE -1
      [] reply.name = "geoadd"    -> IF reply.type = "integer" THEN 0 ELSE -1
      [] OTHER                    -> 0

\* What the function that sent a command makes of its reply; the result of a ZREM
\* and of the EXPIRE of a string is dropped.
RetOf(reply) ==
    CASE reply.name = "exists"    -> IF reply.type = "integer" /\ reply.integer = 1 THEN 0 ELSE -1
      [] reply.name \in {"del", "expireat"} -> IF reply.integer > 0 THEN 0 ELSE -1
      [] reply.name = "set"       -> IF reply.type = "status" THEN 0 ELSE -1
      [] reply.name = "expire"    -> ret
      [] reply.name = "geoadd"    -> IF reply.type = "integer" THEN 0 ELSE -1
      [] reply.name = "georadius" -> IF reply.type = "array" THEN 0 ELSE -1
      [] OTHER                    -> 0

\* Mutant: the value goes to the front of the list.
MutKeep(reply) == IF reply.name = "hget" THEN <<reply.str>> \o values ELSE values

\* The value of an HGET is kept; a reply without one leaves an empty string.
Keep(reply) == IF reply.name = "hget" THEN Append(values, reply.str) ELSE values

\* redisGetReply, the next reply is there.  Of the pipelines, no function looks
\* at its type: an error is a reply like any other.
GetReply ==
    /\ server = "run"
    /\ replies # <<>>
    /\ ret' = RetOf(Head(replies))
    /\ values' = Keep(Head(replies))
    /\ replies' = Tail(replies)
    /\ conn' = [conn EXCEPT !.read = @ + 1]
    /\ server' = IF conn.read + 1 = Len(Commands(call)) THEN "end" ELSE "run"
    /\ UNCHANGED <<call, appended, obuf, inbox, redis, before, expired, refused>>

\* Where the server may be when a reply does not come.  A pipeline that has read
\* one frees it again: the process may end there, or go on.
AfterNoReply ==
    IF Commands(call)[conn.read + 1].name \in Unchecked THEN {"down"}
    ELSE IF Pipelined(call) /\ conn.read > 0 THEN {"end", "down"}
    ELSE {"end"}

\* Mutant: the pipeline is left with the ret of the reply before.
MutNoReply ==
    /\ server = "run" /\ conn.state = "broken"
    /\ replies = <<>> /\ conn.read < appended
    /\ server' \in AfterNoReply
    /\ UNCHANGED <<call, ret, values, conn, appended, channel, redis, before, expired, refused>>

\* Mutant: the request is sent again over a new connection, as often as it takes.
MutNoReplyRetries ==
    /\ server = "run" /\ conn.state = "broken"
    /\ replies = <<>> /\ conn.read < appended
    /\ conn' = [state |-> "open", read |-> 0]
    /\ appended' = 0 /\ values' = <<>> /\ obuf' = <<>>
    /\ UNCHANGED <<server, call, ret, inbox, replies, redis, before, expired, refused>>

\* redisGetReply fails, or redisCommand is NULL.
NoReply ==
    /\ server = "run" /\ conn.state = "broken"
    /\ replies = <<>> /\ conn.read < appended
    /\ ret' = -1
    /\ server' \in AfterNoReply
    /\ UNCHANGED <<call, values, conn, appended, channel, redis, before, expired, refused>>

\* Mutant: a connection that is still open is kept for the next request.
MutDisconnect ==
    /\ server = "end"
    /\ server' = "idle"
    /\ call' = NoCall /\ values' = <<>> /\ appended' = 0
    /\ conn' = [state |-> "none", read |-> 0]
    /\ UNCHANGED <<ret, channel, redis, before, expired, refused>>

\* rop_disconnect: what was not sent, executed or read goes with the connection.
Disconnect ==
    /\ server = "end"
    /\ server' = "idle"
    /\ call' = NoCall /\ values' = <<>> /\ appended' = 0
    /\ conn' = [state |-> "none", read |-> 0]
    /\ obuf' = <<>> /\ inbox' = <<>> /\ replies' = <<>>
    /\ UNCHANGED <<ret, redis, before, expired, refused>>

\* start-up.sh.
StartUp ==
    /\ server = "down"
    /\ server' = "idle"
    /\ call' = NoCall /\ values' = <<>> /\ appended' = 0
    /\ conn' = [state |-> "none", read |-> 0]
    /\ obuf' = <<>> /\ inbox' = <<>> /\ replies' = <<>>
    /\ UNCHANGED <<ret, redis, before, expired, refused>>

-----------------------------------------------------------------------------
(* Redis, as redis_op.cpp uses it                                          *)

HashThere == \E f \in Field : store[f] # NoValue

Cleared == [p \in Place |-> IF p \in Field THEN NoValue ELSE store[p]]

Reply(name, type, n, str) == [name |-> name, type |-> type, integer |-> n, str |-> str]

\* A write, and what Redis answers to it.
Write(c) ==
    \/ /\ c.name \in {"hset", "set", "geoadd"}
       /\ store' = [store EXCEPT ![c.place] = c.value]
       /\ volatile' = volatile
       /\ replies' = Append(replies, IF c.name = "set" THEN Reply("set", "status", 0, NoValue)
                       ELSE Reply(c.name, "integer", IF store[c.place] = NoValue THEN 1 ELSE 0, NoValue))
    \/ /\ c.name = "zrem"
       /\ store' = [store EXCEPT !["member"] = NoValue]
       /\ volatile' = volatile
       /\ replies' = Append(replies, Reply("zrem", "integer",
                       IF store["member"] = NoValue THEN 0 ELSE 1, NoValue))
    \/ /\ c.name = "del"
       /\ store' = Cleared /\ volatile' = FALSE
       /\ replies' = Append(replies, Reply("del", "integer", IF HashThere THEN 1 ELSE 0, NoValue))
    \/ /\ c.name = "expireat"
       /\ store' = store /\ volatile' = HashThere
       /\ replies' = Append(replies, Reply("expireat", "integer", IF HashThere THEN 1 ELSE 0, NoValue))
    \/ /\ c.name = "expire"
       /\ UNCHANGED redis
       /\ replies' = Append(replies, Reply("expire", "integer",
                       IF store["string"] = NoValue THEN 0 ELSE 1, NoValue))

\* A replica that is read-only, or a Redis that cannot save, refuses all writes;
\* one without memory refuses those that need some.
Refuse(c) ==
    /\ Refusing
    /\ c.name \in {"hset", "set", "geoadd", "zrem", "del", "expireat", "expire"}
    /\ replies' = Append(replies, Reply(c.name, "error", 0, NoValue))
    /\ UNCHANGED redis

ReadOnly(c) ==
    /\ \/ /\ c.name = "hget"
          /\ replies' = Append(replies, Reply("hget",
                 IF store[c.place] = NoValue THEN "nil" ELSE "string", 0, store[c.place]))
       \/ /\ c.name = "exists"
          /\ replies' = Append(replies, Reply("exists", "integer", IF HashThere THEN 1 ELSE 0, NoValue))
       \/ /\ c.name = "georadius"
          /\ replies' = Append(replies, Reply("georadius", "array", 0, store["member"]))
    /\ UNCHANGED redis

Execute ==
    /\ inbox # <<>> /\ conn.state = "open"
    /\ \/ (Write(Head(inbox)) \/ ReadOnly(Head(inbox))) /\ UNCHANGED refused
       \/ Refuse(Head(inbox)) /\ refused' = TRUE
    /\ inbox' = Tail(inbox)
    /\ UNCHANGED <<handler, obuf, before, expired>>

\* The deadline of the hash has come.
Expire ==
    /\ volatile
    /\ store' = Cleared /\ volatile' = FALSE
    /\ expired' = TRUE
    /\ UNCHANGED <<handler, channel, before, refused>>

\* The connection breaks: Redis drops the commands it has not executed, and of
\* the replies on the way some may have arrived.
Break ==
    /\ Failing
    /\ conn.state = "open"
    /\ conn' = [conn EXCEPT !.state = "broken"]
    /\ inbox' = <<>>
    /\ \E n \in 0..Len(replies) : replies' = SubSeq(replies, 1, n)
    /\ UNCHANGED <<server, call, ret, values, appended, obuf, redis, before, expired, refused>>

-----------------------------------------------------------------------------
HandlerStep == AppendCommand \/ Flush \/ GetReply \/ NoReply \/ Disconnect

OpNext ==
    \/ \E c \in Calls : Connect(c)
    \/ HandlerStep \/ AppendFails \/ StartUp \/ Execute \/ Expire \/ Break

\* The handler runs while it is not waiting, and Redis executes what it is sent.
OpSpec ==
    /\ OpInit
    /\ [][OpNext]_opVars
    /\ WF_opVars(HandlerStep) /\ WF_opVars(Execute)

-----------------------------------------------------------------------------
\* Every variable has its type, and the commands on the way are no more than were
\* appended.
OpTypeOK ==
    /\ server \in {"idle", "run", "end", "down"}
    /\ call \in Calls \cup {NoCall}
    /\ ret \in {0, -1}
    /\ values \in Seq(Value \cup {NoValue})
    /\ conn.state \in {"none", "open", "broken"} /\ conn.read \in 0..appended
    /\ appended \in 0..Len(Commands(call))
    /\ store \in [Place -> Value \cup {NoValue}]
    /\ volatile \in BOOLEAN /\ (volatile => HashThere)

\* What is in the buffer, at Redis or on its way back belongs to the request that
\* runs, in the order of its commands: the reply that is read is the reply of the
\* command it is taken for (redis_op.cpp:333-356, 370-399), also after a pipeline
\* that was given up half-way.
OwnReplies ==
    /\ server = "idle" => obuf = <<>> /\ inbox = <<>> /\ replies = <<>>
    /\ server = "run" /\ conn.state = "open" =>
          [i \in 1..Len(replies) |-> replies[i].name]
             \o [i \in 1..Len(inbox) |-> inbox[i].name] \o [i \in 1..Len(obuf) |-> obuf[i].name]
          = [i \in 1..(appended - conn.read) |-> Commands(call)[conn.read + i].name]

\* The first n fields of the request are written, and nothing else.
Written(n) ==
    store = [p \in Place |-> IF \E i \in 1..n : call.fields[i] = p THEN call.value ELSE before[p]]

\* setHash writes its fields in their order, so at any time some first few of them
\* are written and no other field is touched; with an ok, all of them
\* (deal_cache.c:146, redis_op.cpp:344-356).  DataServer!SetHash rests on this; where
\* Redis refuses writes, any of them may be missing (OkMeansWritten, and the keys
\* of DataServer!Refused).
PrefixWritten ==
    call.cmd = "setHash" /\ ~expired /\ ~refused =>
        /\ \E n \in 0..Len(call.fields) : Written(n)
        /\ server = "end" /\ ret = 0 => Written(Len(call.fields))

\* What the store is when all of a request other than a setHash was executed
Done ==
    CASE call.cmd \in {"setString", "setLimitedString"} -> [before EXCEPT !["string"] = call.value]
      [] call.cmd = "addGeo"    -> [before EXCEPT !["member"] = call.value]
      [] call.cmd = "remZset"   -> [before EXCEPT !["member"] = NoValue]
      [] call.cmd = "deleteKey" -> [p \in Place |-> IF p \in Field THEN NoValue ELSE before[p]]
      [] OTHER                  -> before

\* From outside a request is one step, the one DataServer takes it for: with an ok all
\* of it was done, and the hash it asked about was there; with an error, or the end of
\* the process, all or nothing (of a setHash, the first few fields), for the answer of
\* what was done may have been lost (deal_cache.c:22, 94-99, 146, 366;
\* redis_op.cpp:333-356, 370-399, 674-773).
AsOneStep ==
    /\ PrefixWritten
    /\ server \in {"end", "down"} /\ call.cmd # "setHash" /\ ~expired /\ ~refused =>
          /\ store \in {before, Done}
          /\ server = "end" /\ ret = 0 =>
                /\ store = Done
                /\ call.cmd \in {"existKey", "deleteKey", "setLifecycle"} =>
                      \E f \in Field : before[f] # NoValue
                /\ call.cmd = "setLifecycle" => volatile

\* getHash with an ok has a value for every field, each the value of its own field,
\* or none where the hash expired between two HGETs (redis_op.cpp:381-399).
GotOwnValues ==
    call.cmd = "getHash" /\ server = "end" /\ ret = 0 =>
        /\ Len(values) = Len(call.fields)
        /\ \A i \in DOMAIN values :
              values[i] = before[call.fields[i]] \/ (expired /\ values[i] = NoValue)

\* Where Redis may refuse to write, the functions that look at the type of their
\* reply tell so: after an ok the string or the member is there, also when a string's
\* second command succeeded on the value before (deal_cache.c:53-60,
\* redis_op.cpp:674-685, 755-773).
SingleWriteIsTold ==
    server = "end" /\ ret = 0 =>
        /\ call.cmd \in {"setString", "setLimitedString"} => store["string"] = call.value
        /\ call.cmd = "addGeo" => store["member"] = call.value

\* The commands whose replies there are; Redis has executed these, and more only
\* where a broken connection lost their replies.
Executed == conn.read + Len(replies)

\* What the request would end with if it ended with the next reply.
Outcome == IF replies = <<>> THEN ret ELSE RetOf(Head(replies))

Requests == INSTANCE CacheRequest WITH
                stage <- server, next <- Executed + 1, link <- conn.state, result <- Outcome

\* With its buffer, its replies and its connection that may break at any point, a
\* function of redis_op.cpp does what a request is thought to do: each of its steps
\* once at most and in their order, none after its end, and an ok of existKey,
\* setLifecycle and deleteKey says that the hash was there (redis_op.cpp:333-356,
\* 370-399; deal_cache.c:22, 94-99, 366).
RequestSpec == Requests!Spec

\* A request ends, with an answer or with the process (rop_* have no timeout).
EveryCallEnds == server = "run" ~> server # "run"

(* What the comments say and the functions do not do                        *)

\* "0 succ, -1 fail" (remote_store.c:608): after a setHash that succeeded the fields
\* are there, although Redis may have refused to write.
OkMeansWritten ==
    call.cmd = "setHash" /\ ~expired /\ server = "end" /\ ret = 0 => Written(Len(call.fields))

\* "2: the operation failed" (remote_store.c:381-382): an operation that fails in
\* Redis is answered with an error, not with the end of the server.
FailureIsAnswered == server # "down"
=============================================================================
