----------------------------- MODULE OrderBook -----------------------------
(***************************************************************************)
(* What the order handlers promise, without calls, replies or failures:    *)
(* an order is created for at most one passenger and one driver session,   *)
(* is held by those sessions only, is recorded for good once, and is       *)
(* closed when it is recorded and nobody holds it.                         *)
(***************************************************************************)
CONSTANTS DriverSid, PassengerSid, OrderId, NoOne

SessionId == DriverSid \cup PassengerSid

VARIABLES
    stage,  \* where each order is in its life
    party,  \* the sessions each order was created for, while it is not closed
    holds   \* the order each session holds, or NoOne

bookVars == <<stage, party, holds>>

Init ==
    /\ stage = [o \in OrderId |-> "unborn"]
    /\ party = [o \in OrderId |-> {}]
    /\ holds = [s \in SessionId |-> NoOne]

\* An order appears with its sessions, or with some of them when the write
\* stopped half way.
Create(o, p, d) ==
    /\ stage[o] = "unborn"
    /\ stage' = [stage EXCEPT ![o] = "open"]
    /\ party' \in {[party EXCEPT ![o] = S] : S \in {{}, {p}, {p, d}}}
    /\ UNCHANGED holds

\* Only an open order is given out, and only to the sessions it was made for.
Assign(s, o) ==
    /\ stage[o] = "open"
    /\ s \in party[o]
    /\ holds' = [holds EXCEPT ![s] = o]
    /\ UNCHANGED <<stage, party>>

Record(o) ==
    /\ stage[o] = "open"
    /\ stage' = [stage EXCEPT ![o] = "recorded"]
    /\ UNCHANGED <<party, holds>>

\* A session lets go of its order: it is finished, or the session expired.
Release(s) ==
    /\ holds' = [holds EXCEPT ![s] = NoOne]
    /\ UNCHANGED <<stage, party>>

Close(o) ==
    /\ stage[o] = "recorded"
    /\ \A s \in SessionId : holds[s] # o
    /\ stage' = [stage EXCEPT ![o] = "closed"]
    /\ party' = [party EXCEPT ![o] = {}]
    /\ UNCHANGED holds

Next ==
    \/ \E o \in OrderId :
          \/ \E p \in PassengerSid, d \in DriverSid : Create(o, p, d)
          \/ \E s \in SessionId : Assign(s, o)
          \/ Record(o)
          \/ Close(o)
    \/ \E s \in SessionId : Release(s)

Spec == Init /\ [][Next]_bookVars

-----------------------------------------------------------------------------
(* What a rider can count on                                               *)

\* An order is held only while it is under way, only by sessions it was made for,
\* and by one driver and one passenger at most (set_order.c:98-127).
HoldersAreParties ==
    /\ \A s \in SessionId : holds[s] # NoOne =>
          s \in party[holds[s]] /\ stage[holds[s]] \in {"open", "recorded"}
    /\ \A S \in {DriverSid, PassengerSid} : \A s, t \in S :
          holds[s] # NoOne /\ holds[s] = holds[t] => s = t

LifeOf(before, after) ==
    \/ before = after
    \/ before = "unborn" /\ after = "open"
    \/ before = "open" /\ after = "recorded"
    \/ before = "recorded" /\ after = "closed"

StageStep == \A o \in OrderId : LifeOf(stage[o], stage'[o])

\* An order goes through its life in one direction: it is not recorded twice, nor open
\* again after that (finish_order.c:93-98).
StagesGoOn == [][StageStep]_bookVars

GivingStep == \A s \in SessionId : holds'[s] \notin {NoOne, holds[s]} => stage[holds'[s]] = "open"

\* An order that was recorded is given to no session any more, neither back to one
\* that let go of it nor to another (set_order.c:115-127, finish_order.c:93-98).
OnlyOpenIsGiven == [][GivingStep]_bookVars
============================================================================
