---------------------------- MODULE SessionClock ----------------------------
(***************************************************************************)
(* The deadline of a session, with the clock that WebServer abstracts:     *)
(* curl_to_cacheserver_lifecycle sends 600, the data server hands it to    *)
(* Redis as EXPIREAT <key> 600, and Redis reads an absolute Unix time.     *)
(***************************************************************************)
EXTENDS Naturals

CONSTANTS
    Session,    \* the session ids
    Start,      \* the Unix time at which the servers are started
    Period,     \* BOUND: the clock is looked at every Period seconds
    End         \* BOUND: the last time looked at

SESSIONID_LIFECYCLE == 600

Forever == 0        \* the deadline of a key that has none
Never   == 0        \* of a session whose lifecycle was not set

VARIABLES
    now,        \* Redis's clock
    keys,       \* the sessions in the cache
    deadline,   \* the Unix time at which each key is to be dropped, or Forever
    touched     \* when setLifecycle last answered "ok" for a session, or Never

clockVars == <<now, keys, deadline, touched>>

Init ==
    /\ now = Start
    /\ keys = {}
    /\ deadline = [s \in Session |-> Forever]
    /\ touched = [s \in Session |-> Never]

\* setHash of a new session: a key without a deadline
CreateSession(s) ==
    /\ s \notin keys
    /\ touched[s] = Never
    /\ keys' = keys \cup {s}
    /\ UNCHANGED <<now, deadline, touched>>

\* EXPIREAT of a key that is there: a deadline in the past removes it at once.
SetLifecycle(s) ==
    /\ s \in keys
    /\ deadline' = [deadline EXCEPT ![s] = SESSIONID_LIFECYCLE]
    /\ keys' = IF SESSIONID_LIFECYCLE <= now THEN keys \ {s} ELSE keys
    /\ touched' = [touched EXCEPT ![s] = now]
    /\ UNCHANGED now

\* Time passes, and Redis drops the keys whose deadline has come.
Tick ==
    /\ now + Period <= End
    /\ now' = now + Period
    /\ keys' = {s \in keys : deadline[s] = Forever \/ deadline[s] > now'}
    /\ UNCHANGED <<deadline, touched>>

Next == Tick \/ \E s \in Session : CreateSession(s) \/ SetLifecycle(s)

Spec == Init /\ [][Next]_clockVars

\* A session whose lifecycle was set lives that long (remote_store.c:519, the
\* "timeout (lifecycle)" of a key; busi_cb.h:32, 600).
LivesItsLifecycle ==
    \A s \in Session :
        touched[s] # Never /\ now < touched[s] + SESSIONID_LIFECYCLE => s \in keys
=============================================================================
