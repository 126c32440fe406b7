------------------------------ MODULE RideBook ------------------------------
(* The web server implements the order book of the orders and sessions of  *)
(* which Redis refuses no write; the others are not in the book.           *)
EXTENDS WebServer

\* An order's stage is what the two databases know of it together: the hash
\* in Redis while it runs, the row in MySQL once it is finished.  A hash without
\* sessions is what a late position makes of an order that was deleted.
Stage(o) ==
    IF orderTable[o] = NoRow THEN IF Exists(o) THEN "open" ELSE "unborn"
                             ELSE IF Parties(o) = {Empty} THEN "closed" ELSE "recorded"

Held(s) == IF s \in SafeSession /\ hash[s].orderid \in SafeOrder
           THEN hash[s].orderid ELSE None

Book == INSTANCE OrderBook WITH
            OrderId <- SafeOrder,
            NoOne <- None,
            stage <- [o \in SafeOrder |-> Stage(o)],
            party <- [o \in SafeOrder |-> Parties(o) \ {Empty}],
            holds <- [s \in SessionId |-> Held(s)]

\* The handlers (set_order.c:98-127, finish_order.c:80-100), with every failed
\* call, expiry and restart between their calls, do to the orders what the order
\* book allows and nothing else.  Where Redis refuses the HSETs of a session it may
\* hold on to an order that is closed, with an ok to everybody (redis_op.cpp:344-356);
\* such a session, and an order whose own HSETs are refused, is no part of the book.
BookSpec == Book!Spec
=============================================================================
