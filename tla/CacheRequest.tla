---------------------------- MODULE CacheRequest ----------------------------
(***************************************************************************)
(* What a request to /cache is to the one who sent it, without commands,   *)
(* buffers and replies: its steps are taken one after the other, each once *)
(* at most, while the request runs and Redis can be reached, and none once *)
(* it has ended.  It ends with an ok when all of them were taken and what  *)
(* it asked about was there.  This is what DataServer takes for granted.   *)
(***************************************************************************)
EXTENDS Integers, Sequences

CONSTANTS
    Field, Value, NoValue,  \* of the hash
    Calls, NoCall,          \* the requests: command, fields and value
    Refusing                \* whether Redis may refuse writes

VARIABLES
    stage,      \* "idle", "run", "end", or "down" with the data server
    call,       \* the request
    next,       \* the step that is next, as far as the data server can know
    link,       \* the connection to Redis
    result,     \* 0 while the request goes well, else -1
    store,      \* the hash, the string and the geo member
    volatile    \* whether the hash has a deadline

requestVars == <<stage, call, next, link, result, store, volatile>>

\* A field each; the string, and its deadline; or one.
Steps(c) ==
    IF c.cmd \in {"setHash", "getHash"} THEN Len(c.fields)
    ELSE IF c.cmd = "setLimitedString" THEN 2 ELSE 1

There == \E f \in Field : store[f] # NoValue

Init ==
    /\ stage = "idle" /\ call = NoCall /\ next = 1 /\ link = "none" /\ result = 0
    /\ store = [p \in Field \cup {"string", "member"} |-> NoValue]
    /\ volatile = FALSE

Accept(c) ==
    /\ stage = "idle"
    /\ call' = c /\ next' = 1
    /\ \/ stage' = "run" /\ link' = "open" /\ result' = 0
       \/ stage' = "end" /\ link' = "none" /\ result' = -1
    /\ UNCHANGED <<store, volatile>>

-----------------------------------------------------------------------------
(* The step that is next                                                   *)

Put(place) ==
    /\ store' = [store EXCEPT ![place] = call.value]
    /\ UNCHANGED <<volatile, result>>

DropHash ==
    /\ store' = [p \in DOMAIN store |-> IF p \in Field THEN NoValue ELSE store[p]]
    /\ volatile' = FALSE

FirstOfString == call.cmd \in {"setString", "setLimitedString"} /\ next = 1

Told(there) == result' = IF there THEN 0 ELSE -1

Change ==
    \/ call.cmd = "setHash" /\ Put(call.fields[next])
    \/ FirstOfString /\ Put("string")
    \/ call.cmd = "addGeo" /\ Put("member")
    \/ /\ call.cmd = "remZset"
       /\ store' = [store EXCEPT !["member"] = NoValue]
       /\ UNCHANGED <<volatile, result>>
    \/ call.cmd = "deleteKey" /\ DropHash /\ Told(There)
    \/ call.cmd = "setLifecycle" /\ store' = store /\ volatile' = There /\ Told(There)
    \/ call.cmd = "existKey" /\ UNCHANGED <<store, volatile>> /\ Told(There)
    \/ /\ \/ call.cmd \in {"getHash", "radiusGeo"}
          \/ call.cmd = "setLimitedString" /\ next = 2
       /\ UNCHANGED <<store, volatile, result>>

\* The steps whose refusal nobody is told of.
Silent == call.cmd \in {"setHash", "remZset"} \/ (call.cmd = "setLimitedString" /\ next = 2)

\* Redis refuses to write.
Refuse ==
    /\ Refusing
    /\ call.cmd \notin {"getHash", "existKey", "radiusGeo"}
    /\ result' = IF Silent THEN result ELSE -1
    /\ UNCHANGED <<store, volatile>>

Serve ==
    /\ stage = "run" /\ link = "open" /\ next <= Steps(call)
    /\ Change \/ Refuse
    /\ next' = next + 1
    /\ UNCHANGED <<stage, call, link>>

-----------------------------------------------------------------------------
\* Of the last steps it is not known any more whether they were taken.
Break ==
    /\ link = "open" /\ link' = "broken"
    /\ \/ UNCHANGED <<next, result>>
       \/ stage = "run" /\ next' \in 1..(next - 1) /\ result' \in {0, -1}
    /\ UNCHANGED <<stage, call, store, volatile>>

\* With all of its steps taken; or given up, before the first one or because Redis
\* is not there any more.
End ==
    /\ stage = "run"
    /\ \/ next > Steps(call) /\ stage' = "end" /\ result' = result
       \/ next = 1 /\ stage' = "end" /\ result' = -1
       \/ link = "broken" /\ stage' \in {"end", "down"} /\ result' = -1
    /\ UNCHANGED <<call, next, link, store, volatile>>

Leave ==
    /\ stage \in {"end", "down"}
    /\ stage' = "idle" /\ call' = NoCall /\ next' = 1 /\ link' = "none"
    /\ UNCHANGED <<result, store, volatile>>

Expire ==
    /\ volatile
    /\ DropHash
    /\ UNCHANGED <<stage, call, next, link, result>>

Next == Serve \/ Break \/ End \/ Leave \/ Expire \/ \E c \in Calls : Accept(c)

Spec == Init /\ [][Next]_requestVars
=============================================================================
