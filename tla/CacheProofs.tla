----------------------------- MODULE CacheProofs -----------------------------
(***************************************************************************)
(* What the operations of the data server's /cache do, for every value of  *)
(* the constants.  The pipelines of RedisPipeline, for every set of fields *)
(* and values: the reply that is read is the reply of its command, and an  *)
(* ok means what the function says, as far as it can.  The query of        *)
(* GeoReply, for every set of drivers and every pool: however the row loop *)
(* fills its array and however the answer is cut into pieces, the driver   *)
(* that is taken is a nearest one.  The deadline of SessionClock: a key is *)
(* removed as soon as its lifecycle is set.                                *)
(***************************************************************************)
EXTENDS RedisPipeline, GeoReply, SessionClock, FiniteSetTheorems, SequenceTheorems, TLAPS

Names == {"hset", "hget", "set", "expire", "geoadd", "exists", "del", "expireat",
          "zrem", "georadius"}

Stored == Value \cup {NoValue}

Cmds == [name : Names, place : Place \cup {"hash"}, value : Stored]

Answers == [name : Names, type : {"integer", "status", "string", "nil", "array", "error"},
            integer : {0, 1}, str : Stored]

\* A write goes to a place of its own kind, and writes something.
Sound(m) ==
    /\ m \in Cmds
    /\ m.name \in {"hset", "hget"} => m.place \in Field
    /\ m.name = "set" => m.place = "string"
    /\ m.name = "geoadd" => m.place = "member"
    /\ m.name \in {"hset", "set", "geoadd"} => m.value \in Value

OpTypes ==
    /\ server \in {"idle", "run", "end", "down"}
    /\ call \in Calls \cup {NoCall}
    /\ ret \in {0, -1}
    /\ values \in Seq(Stored)
    /\ conn \in [state : {"none", "open", "broken"}, read : Nat]
    /\ appended \in 0..Len(Commands(call))
    /\ obuf \in Seq(Cmds) /\ inbox \in Seq(Cmds) /\ replies \in Seq(Answers)
    /\ store \in [Place -> Stored] /\ before \in [Place -> Stored]
    /\ volatile \in BOOLEAN /\ expired \in BOOLEAN /\ refused \in BOOLEAN

Deadlined == volatile => HashThere

\* The channel holds the commands of the request and nothing else, each in its
\* place: the replies first, then what Redis has, then what is in the buffer.
InOrder ==
    /\ Executed <= appended
    /\ \A i \in 1..Len(replies) : replies[i].name = Commands(call)[conn.read + i].name
    /\ conn.state = "broken" => inbox = <<>>
    /\ conn.state # "broken" =>
          /\ Executed + Len(inbox) + Len(obuf) = appended
          /\ \A i \in 1..Len(inbox) : inbox[i] = Commands(call)[Executed + i]
          /\ \A i \in 1..Len(obuf) :
                obuf[i] = Commands(call)[Executed + Len(inbox) + i]

\* The connection is there while a request runs, and an ok comes with the last reply.
Connected ==
    /\ server = "idle" => call = NoCall /\ conn.state = "none"
    /\ conn.state = "none" => server \in {"idle", "end"} /\ appended = 0
    /\ server \in {"run", "end"} => call \in Calls
    /\ server = "end" /\ ret = 0 => conn.read = Len(Commands(call))

\* The fields that are written are the executed ones, or more where replies were lost.
HashWritten ==
    call.cmd = "setHash" /\ ~expired /\ ~refused =>
        \E n \in Executed..Len(call.fields) :
            /\ Written(n)
            /\ conn.state # "broken" => n = Executed

\* A value that was found in a field during the request
FromField(v, f) == v = before[f] \/ (expired /\ v = NoValue)

HashRead ==
    call.cmd = "getHash" =>
        /\ Len(values) = conn.read
        /\ \A f \in Field : FromField(store[f], f)
        /\ \A i \in 1..Len(values) : FromField(values[i], call.fields[i])
        /\ \A i \in 1..Len(replies) : FromField(replies[i].str, call.fields[conn.read + i])

Single == {"setString", "setLimitedString", "addGeo"}

Goal(c) == IF c.cmd = "addGeo" THEN "member" ELSE "string"

Accepts(r) == \/ r.name = "set" /\ r.type = "status"
              \/ r.name = "geoadd" /\ r.type = "integer"

\* A write that was accepted, or told to be, is there.
SingleWritten ==
    call.cmd \in Single =>
        /\ \A i \in 1..Len(replies) : Accepts(replies[i]) => store[Goal(call)] = call.value
        /\ conn.read > 0 /\ ret = 0 => store[Goal(call)] = call.value

ChannelInv == OpTypes /\ Deadlined /\ InOrder /\ Connected

OpInv == ChannelInv /\ HashWritten /\ HashRead /\ SingleWritten

-----------------------------------------------------------------------------
(* What a request sends *)

USE PipelineBounds DEF Names, Stored, Cmds, Command

LEMMA FieldsOf ==
    ASSUME NEW s \in FieldLists
    PROVE  s \in Seq(Field) /\ Len(s) \in Nat \ {0}
<1>1. PICK n \in 1..Cardinality(Field) : s \in [1..n -> Field]  BY DEF FieldLists
<1>2. n \in Nat \ {0}  BY <1>1
<1> QED  BY <1>1, <1>2

LEMMA HashCommands ==
    ASSUME NEW c \in Calls, Pipelined(c)
    PROVE  /\ c.fields \in Seq(Field) /\ Len(c.fields) \in Nat \ {0}
           /\ Commands(c) \in Seq(Cmds) /\ Len(Commands(c)) = Len(c.fields)
           /\ \A i \in 1..Len(c.fields) :
                /\ c.cmd = "setHash" => Commands(c)[i] = Command("hset", c.fields[i], c.value)
                /\ c.cmd = "getHash" => Commands(c)[i] = Command("hget", c.fields[i], NoValue)
           /\ c.value \in Stored /\ (c.cmd = "setHash" => c.value \in Value)
<1>1. c.fields \in FieldLists /\ c.value \in Stored /\ (c.cmd = "setHash" => c.value \in Value)
  BY DEF Calls, Pipelined
<1>2. c.fields \in Seq(Field) /\ Len(c.fields) \in Nat \ {0} /\ DOMAIN c.fields = 1..Len(c.fields)
  BY <1>1, FieldsOf
<1>3. CASE c.cmd = "setHash"
  <2>1. Commands(c) = [i \in 1..Len(c.fields) |-> Command("hset", c.fields[i], c.value)]
    BY <1>2, <1>3 DEF Commands
  <2> QED  BY <1>1, <1>2, <1>3, <2>1 DEF Place
<1>4. CASE c.cmd = "getHash"
  <2>1. Commands(c) = [i \in 1..Len(c.fields) |-> Command("hget", c.fields[i], NoValue)]
    BY <1>2, <1>4 DEF Commands
  <2> QED  BY <1>1, <1>2, <1>4, <2>1 DEF Place
<1> QED  BY <1>3, <1>4 DEF Pipelined

\* The first command of a string or a member, and the deadline of the string
LEMMA SingleCommands ==
    ASSUME NEW c \in Calls, c.cmd \in Single
    PROVE  /\ c.value \in Value
           /\ Commands(c)[1].value = c.value /\ Commands(c)[1].place = Goal(c)
           /\ Commands(c)[1].name = IF c.cmd = "addGeo" THEN "geoadd" ELSE "set"
           /\ Len(Commands(c)) \in {1, 2}
           /\ Len(Commands(c)) = 2 =>
                c.cmd = "setLimitedString" /\ Commands(c)[2].name = "expire"
BY DEF Calls, Single, Commands, Goal

LEMMA CommandsAreSound ==
    ASSUME NEW c \in Calls
    PROVE  /\ Commands(c) \in Seq(Cmds) /\ Len(Commands(c)) \in Nat \ {0}
           /\ \A i \in 1..Len(Commands(c)) : Sound(Commands(c)[i])
<1>1. CASE Pipelined(c)
  <2>1. ASSUME NEW i \in 1..Len(Commands(c))  PROVE Sound(Commands(c)[i])
    <3>1. i \in 1..Len(c.fields) /\ c.fields[i] \in Field  BY <1>1, HashCommands
    <3>2. /\ c.cmd = "setHash" => Commands(c)[i] = Command("hset", c.fields[i], c.value)
          /\ c.cmd = "getHash" => Commands(c)[i] = Command("hget", c.fields[i], NoValue)
          /\ c.value \in Stored /\ (c.cmd = "setHash" => c.value \in Value)
      BY <1>1, <3>1, HashCommands
    <3>3. /\ c.value \in Value => Sound(Command("hset", c.fields[i], c.value))
          /\ Sound(Command("hget", c.fields[i], NoValue))
      BY <3>1 DEF Sound, Place
    <3> QED  BY <1>1, <3>2, <3>3 DEF Pipelined
  <2> QED  BY <1>1, <2>1, HashCommands
<1>2. CASE c.cmd \in {"setString", "addGeo"}
  <2>1. c.value \in Value  BY <1>2 DEF Calls
  <2>2. \E m \in Cmds : Sound(m) /\ Commands(c) = <<m>>
    BY <1>2, <2>1 DEF Commands, Sound, Place
  <2> QED  BY <2>2
<1>3. CASE c.cmd = "setLimitedString"
  <2>1. c.value \in Value  BY <1>3 DEF Calls
  <2>2. \E m, k \in Cmds : Sound(m) /\ Sound(k) /\ Commands(c) = <<m, k>>
    BY <1>3, <2>1 DEF Commands, Sound, Place
  <2> QED  BY <2>2
<1>4. CASE c.cmd \in {"existKey", "deleteKey", "setLifecycle", "remZset", "radiusGeo"}
  <2>1. \E m \in Cmds : Sound(m) /\ Commands(c) = <<m>>
    BY <1>4 DEF Commands, Sound, Place
  <2> QED  BY <2>1
<1> QED  BY <1>1, <1>2, <1>3, <1>4 DEF Calls, Pipelined

LEMMA NoCommands == Commands(NoCall) = <<>> /\ NoCall \notin Calls /\ NoCall.cmd = "none"
BY DEF Commands, NoCall, Calls

\* A sequence that agrees with three others, one after the other
LEMMA ThreeParts ==
    ASSUME NEW S, NEW A \in Seq(S), NEW B \in Seq(S), NEW D \in Seq(S), NEW F \in Seq(S),
           Len(F) = Len(A) + Len(B) + Len(D),
           \A i \in 1..Len(A) : F[i] = A[i],
           \A i \in 1..Len(B) : F[Len(A) + i] = B[i],
           \A i \in 1..Len(D) : F[Len(A) + Len(B) + i] = D[i]
    PROVE  A \o B \o D = F
<1>1. PICK C : C = A \o B  OBVIOUS
<1>2. /\ C \in Seq(S) /\ Len(C) = Len(A) + Len(B)
      /\ \A i \in 1..Len(A) : C[i] = A[i]
      /\ \A i \in 1..Len(B) : C[Len(A) + i] = B[i]
  BY <1>1
<1>3. PICK a \in Nat, b \in Nat, d \in Nat : a = Len(A) /\ b = Len(B) /\ d = Len(D)
  <2>1. Len(A) \in Nat /\ Len(B) \in Nat /\ Len(D) \in Nat  BY LenProperties
  <2> QED  BY <2>1, Zenon
<1>4. ASSUME NEW i \in 1..(a + b)  PROVE F[i] = C[i]
  <2>1. CASE i > a
    <3>1. PICK j \in 1..b : i = a + j
      <4>1. i - a \in 1..b /\ i = a + (i - a)  BY <2>1
      <4> QED  BY <4>1
    <3> QED  BY <1>2, <1>3, <3>1
  <2>2. CASE i <= a
    BY <1>2, <1>3, <2>2
  <2> QED  BY <2>1, <2>2
<1>5. PICK E : E = C \o D  OBVIOUS
<1>6. /\ E \in Seq(S) /\ Len(E) = a + b + d
      /\ \A i \in 1..(a + b) : E[i] = C[i]
      /\ \A i \in 1..d : E[a + b + i] = D[i]
  <2>1. /\ E \in Seq(S) /\ Len(E) = Len(C) + Len(D)
        /\ \A i \in 1..Len(C) : E[i] = C[i]
        /\ \A i \in 1..Len(D) : E[Len(C) + i] = D[i]
    <3>1. C \in Seq(S)  BY <1>2
    <3> QED  BY <1>5, <3>1
  <2>2. Len(C) = a + b /\ Len(D) = d  BY <1>2, <1>3
  <2> QED  BY <2>1, <2>2
<1>7. ASSUME NEW i \in 1..(a + b + d)  PROVE F[i] = E[i]
  <2>1. CASE i > a + b
    <3>1. PICK j \in 1..d : i = a + b + j
      <4>1. i - (a + b) \in 1..d /\ i = a + b + (i - (a + b))  BY <2>1
      <4> QED  BY <4>1
    <3> QED  BY <1>3, <1>6, <3>1
  <2>2. CASE i <= a + b
    BY <1>4, <1>6, <2>2
  <2> QED  BY <2>1, <2>2
<1>8. Len(F) = Len(E) /\ Len(E) = a + b + d  BY <1>3, <1>6
<1>9. E = F  BY <1>6, <1>7, <1>8
<1> QED  BY <1>1, <1>5, <1>9

-----------------------------------------------------------------------------
(* Each step keeps the invariant: the channel first *)

HIDE DEF Names, Stored, Cmds, Command

\* The reply that is read, and the command that is executed, are the next ones.
LEMMA NextReply ==
    ASSUME ChannelInv, replies # <<>>
    PROVE  /\ Head(replies) \in Answers /\ Len(replies) > 0
           /\ conn.read + 1 \in 1..Len(Commands(call))
           /\ Head(replies) = replies[1]
           /\ Head(replies).name = Commands(call)[conn.read + 1].name
<1>1. /\ replies \in Seq(Answers) /\ conn.read \in Nat /\ call \in Calls \cup {NoCall}
      /\ appended \in 0..Len(Commands(call)) /\ Executed <= appended
  BY DEF ChannelInv, OpTypes, InOrder
<1>2. Len(Commands(call)) \in Nat  BY <1>1, CommandsAreSound, NoCommands
<1>3. Len(replies) \in Nat \ {0} /\ Head(replies) = replies[1] /\ replies[1] \in Answers
  BY <1>1
<1>4. Head(replies).name = Commands(call)[conn.read + 1].name
  BY <1>3 DEF ChannelInv, InOrder
<1> QED  BY <1>1, <1>2, <1>3, <1>4 DEF Executed

LEMMA NextCommand ==
    ASSUME ChannelInv, inbox # <<>>, conn.state = "open"
    PROVE  /\ call \in Calls
           /\ Executed \in Nat /\ Executed + 1 \in 1..Len(Commands(call))
           /\ Head(inbox) = Commands(call)[Executed + 1]
           /\ Sound(Head(inbox))
<1>1. /\ Len(inbox) \in Nat \ {0} /\ Len(obuf) \in Nat /\ Len(replies) \in Nat
      /\ Head(inbox) = inbox[1] /\ conn.read \in Nat
      /\ appended \in 0..Len(Commands(call))
      /\ call \in Calls \cup {NoCall}
  BY DEF ChannelInv, OpTypes
<1>2. Len(Commands(call)) \in Nat
  BY <1>1, CommandsAreSound, NoCommands
<1>3. Executed + 1 \in 1..Len(Commands(call)) /\ Head(inbox) = Commands(call)[Executed + 1]
  <2>1. /\ Executed + Len(inbox) + Len(obuf) = appended
        /\ \A i \in 1..Len(inbox) : inbox[i] = Commands(call)[Executed + i]
    BY DEF ChannelInv, InOrder
  <2>2. Executed \in Nat  BY <1>1 DEF Executed
  <2> QED  BY <1>1, <1>2, <2>1, <2>2
<1>4. call \in Calls
  BY <1>1, <1>3, NoCommands
<1> QED  BY <1>1, <1>3, <1>4, CommandsAreSound DEF Executed

LEMMA OpInit_Inv == OpInit => OpInv
<1> SUFFICES ASSUME OpInit  PROVE OpInv
  OBVIOUS
<1>1. OpTypes
  <2>1. store \in [Place -> Stored]  BY DEF OpInit, Stored
  <2>2. conn \in [state : {"none", "open", "broken"}, read : Nat]  BY DEF OpInit
  <2>3. call \in Calls \cup {NoCall} /\ appended \in 0..Len(Commands(call))
    BY NoCommands DEF OpInit
  <2>4. before \in [Place -> Stored]  BY <2>1 DEF OpInit
  <2>5. /\ server \in {"idle", "run", "end", "down"} /\ ret \in {0, -1}
        /\ volatile \in BOOLEAN /\ expired \in BOOLEAN /\ refused \in BOOLEAN
    BY DEF OpInit
  <2>6. /\ values \in Seq(Stored) /\ replies \in Seq(Answers)
        /\ obuf \in Seq(Cmds) /\ inbox \in Seq(Cmds)
    BY DEF OpInit
  <2> QED  BY <2>6, <2>1, <2>2, <2>3, <2>4, <2>5 DEF OpTypes
<1>2. Deadlined /\ InOrder /\ Connected  BY DEF OpInit, Deadlined, InOrder, Connected, Executed
<1>3. HashWritten /\ HashRead /\ SingleWritten
  BY NoCommands DEF OpInit, HashWritten, HashRead, SingleWritten, Single
<1> QED  BY <1>1, <1>2, <1>3 DEF OpInv, ChannelInv

LEMMA ConnectStep == ASSUME OpInv, NEW c \in Calls, Connect(c)  PROVE OpInv'
<1>1. /\ server = "idle" /\ call' = c /\ values' = <<>> /\ appended' = 0
      /\ conn'.read = 0 /\ before' = store /\ expired' = FALSE /\ refused' = FALSE
      /\ conn' \in [state : {"none", "open", "broken"}, read : Nat]
      /\ conn'.state \in {"none", "open"} /\ ret' \in {0, -1}
      /\ \/ server' = "run" /\ conn'.state = "open"
         \/ server' = "end" /\ ret' = -1
      /\ UNCHANGED <<obuf, inbox, replies, store, volatile>>
  <2>1. /\ server = "idle" /\ call' = c /\ values' = <<>> /\ appended' = 0
        /\ before' = store /\ expired' = FALSE /\ refused' = FALSE
        /\ UNCHANGED <<obuf, inbox, replies, store, volatile>>
    BY DEF Connect, channel, redis
  <2>2. \/ conn' = [state |-> "open", read |-> 0] /\ server' = "run" /\ ret' = 0
        \/ conn' = [state |-> "none", read |-> 0] /\ server' = "end" /\ ret' = -1
    BY DEF Connect
  <2>3. /\ conn'.read = 0 /\ conn'.state \in {"none", "open"}
        /\ conn' \in [state : {"none", "open", "broken"}, read : Nat]
    BY <2>2
  <2> QED  BY <2>1, <2>2, <2>3
<1>2. obuf = <<>> /\ inbox = <<>> /\ replies = <<>>
  <2>1. call = NoCall /\ appended = 0 /\ conn.state = "none" /\ conn.read \in Nat
        /\ obuf \in Seq(Cmds) /\ inbox \in Seq(Cmds) /\ replies \in Seq(Answers)
    BY <1>1, NoCommands DEF OpInv, ChannelInv, OpTypes, Connected
  <2> QED  BY <2>1 DEF OpInv, ChannelInv, InOrder, Executed
<1>3. OpTypes'
  <2>1. Len(Commands(c)) \in Nat  BY CommandsAreSound
  <2>2. call' \in Calls \cup {NoCall} /\ appended' \in 0..Len(Commands(call'))
    BY <1>1, <2>1
  <2>3. values' \in Seq(Stored)  BY <1>1
  <2> QED  BY <1>1, <2>2, <2>3 DEF OpInv, ChannelInv, OpTypes
<1>4. Deadlined' /\ InOrder' /\ Connected'
  BY <1>1, <1>2 DEF OpInv, ChannelInv, Deadlined, InOrder, Connected, Executed, HashThere
<1>5. store = [p \in Place |-> before'[p]]
  BY <1>1 DEF OpInv, ChannelInv, OpTypes
<1>6. HashWritten'
  <2>1. Written(0)'  BY <1>1, <1>5 DEF Written
  <2>2. ASSUME call'.cmd = "setHash"  PROVE Len(call'.fields) \in Nat
    BY <1>1, <2>2, HashCommands DEF Pipelined
  <2>3. Executed' = 0  BY <1>1, <1>2 DEF Executed
  <2> QED  BY <2>1, <2>2, <2>3 DEF HashWritten
<1>7. HashRead' /\ SingleWritten'
  BY <1>1, <1>2 DEF HashRead, SingleWritten, FromField
<1> QED  BY <1>3, <1>4, <1>6, <1>7 DEF OpInv, ChannelInv

\* The end of a request, and of the process
LEMMA LeaveStep == ASSUME OpInv, Disconnect \/ StartUp  PROVE OpInv'
<1>1. /\ server' = "idle" /\ call' = NoCall /\ values' = <<>> /\ appended' = 0
      /\ conn' = [state |-> "none", read |-> 0]
      /\ obuf' = <<>> /\ inbox' = <<>> /\ replies' = <<>>
      /\ UNCHANGED <<ret, store, volatile, before, expired, refused>>
  BY DEF Disconnect, StartUp, redis
<1>2. OpTypes'  BY <1>1, NoCommands DEF OpInv, ChannelInv, OpTypes
<1>3. Deadlined' /\ InOrder' /\ Connected'
  BY <1>1 DEF OpInv, ChannelInv, Deadlined, InOrder, Connected, Executed, HashThere
<1>4. HashWritten' /\ HashRead' /\ SingleWritten'
  BY <1>1, NoCommands DEF HashWritten, HashRead, SingleWritten, Single
<1> QED  BY <1>2, <1>3, <1>4 DEF OpInv, ChannelInv

LEMMA AppendStep == ASSUME OpInv, AppendCommand  PROVE OpInv'
<1> DEFINE n == appended + 1
           c == Commands(call)[appended + 1]
<1>1. /\ server = "run" /\ appended < Len(Commands(call)) /\ appended' = n
      /\ obuf' = Append(obuf, c)
      /\ UNCHANGED <<server, call, ret, values, conn, inbox, replies, store, volatile,
                     before, expired, refused>>
  BY DEF AppendCommand, redis
<1>2. call \in Calls /\ n \in 1..Len(Commands(call)) /\ c \in Cmds
  <2>1. call \in Calls /\ appended \in Nat
    BY <1>1, CommandsAreSound DEF OpInv, ChannelInv, OpTypes, Connected
  <2>2. Commands(call) \in Seq(Cmds)  BY <2>1, CommandsAreSound
  <2>3. appended + 1 \in 1..Len(Commands(call))  BY <1>1, <2>1, <2>2
  <2>4. Commands(call)[appended + 1] \in Cmds  BY <2>2, <2>3
  <2> QED  BY <2>1, <2>3, <2>4
<1>3. OpTypes'
  BY <1>1, <1>2 DEF OpInv, ChannelInv, OpTypes
<1>4. InOrder'
  <2>1. UNCHANGED Executed  BY <1>1 DEF Executed
  <2>2. /\ Executed \in Nat /\ appended \in Nat /\ obuf \in Seq(Cmds)
        /\ Len(inbox) \in Nat /\ Len(obuf) \in Nat
    BY <1>2 DEF OpInv, ChannelInv, OpTypes, Executed
  <2>3. /\ Len(obuf') = Len(obuf) + 1 /\ obuf'[Len(obuf) + 1] = c
        /\ \A i \in 1..Len(obuf) : obuf'[i] = obuf[i]
    BY <1>1, <1>2, <2>2
  <2> HIDE DEF c
  <2>4. ASSUME conn.state # "broken", NEW i \in 1..Len(obuf')
        PROVE  obuf'[i] = Commands(call)[Executed + Len(inbox) + i]
    <3>1. CASE i = Len(obuf) + 1
      BY <1>2, <2>2, <2>3, <2>4, <3>1 DEF OpInv, ChannelInv, InOrder, c
    <3>2. CASE i \in 1..Len(obuf)
      BY <2>3, <2>4, <3>2 DEF OpInv, ChannelInv, InOrder
    <3> QED  BY <2>2, <2>3, <2>4, <3>1, <3>2
  <2>5. /\ Executed <= appended
        /\ conn.state # "broken" => Executed + Len(inbox) + Len(obuf) = appended
    BY DEF OpInv, ChannelInv, InOrder
  <2>6. /\ appended' = appended + 1
        /\ UNCHANGED <<conn, call, inbox, replies>>
    BY <1>1
  <2>7. /\ Executed <= appended + 1
        /\ conn.state # "broken" =>
              Executed + Len(inbox) + Len(obuf') = appended + 1
    BY <2>2, <2>3, <2>5
  <2> QED  BY <2>1, <2>4, <2>6, <2>7 DEF OpInv, ChannelInv, InOrder
<1>5. Deadlined' /\ Connected'
  BY <1>1, <1>2 DEF OpInv, ChannelInv, Deadlined, Connected, HashThere
<1>6. HashWritten' /\ HashRead' /\ SingleWritten'
  <2>1. HashWritten'  BY <1>1 DEF OpInv, HashWritten, Executed, Written
  <2>2. HashRead'  BY <1>1 DEF OpInv, HashRead, FromField
  <2>3. SingleWritten'  BY <1>1 DEF OpInv, SingleWritten
  <2> QED  BY <2>1, <2>2, <2>3
<1> QED  BY <1>3, <1>4, <1>5, <1>6 DEF OpInv, ChannelInv

\* A request that is given up: no memory, or no reply.
LEMMA GiveUpStep == ASSUME OpInv, AppendFails \/ NoReply  PROVE OpInv'
<1>1. /\ server = "run" /\ ret' = -1 /\ server' \in {"end", "down"}
      /\ UNCHANGED <<call, values, conn, appended, obuf, inbox, replies, store, volatile,
                     before, expired, refused>>
  <2>1. CASE AppendFails  BY <2>1 DEF AppendFails, channel, redis
  <2>2. CASE NoReply  BY <2>2 DEF NoReply, AfterNoReply, channel, redis
  <2> QED  BY <2>1, <2>2
<1>2. OpTypes'  BY <1>1 DEF OpInv, ChannelInv, OpTypes
<1>3. conn.state # "none" /\ call \in Calls  BY <1>1 DEF OpInv, ChannelInv, Connected
<1>4. Deadlined' /\ InOrder' /\ Connected'
  BY <1>1, <1>3 DEF OpInv, ChannelInv, Deadlined, InOrder, Connected, Executed, HashThere
<1>5. HashWritten' /\ HashRead' /\ SingleWritten'
  <2>1. HashWritten'  BY <1>1 DEF OpInv, HashWritten, Executed, Written
  <2>2. HashRead'  BY <1>1 DEF OpInv, HashRead, FromField
  <2>3. SingleWritten'  BY <1>1 DEF OpInv, SingleWritten
  <2> QED  BY <2>1, <2>2, <2>3
<1> QED  BY <1>2, <1>4, <1>5 DEF OpInv, ChannelInv

LEMMA FlushStep == ASSUME OpInv, Flush  PROVE OpInv'
<1>1. /\ server = "run" /\ conn.state = "open"
      /\ inbox' = inbox \o obuf /\ obuf' = <<>>
      /\ UNCHANGED <<server, call, ret, values, conn, appended, replies, store, volatile,
                     before, expired, refused>>
  BY DEF Flush, handler, redis
<1>2. OpTypes'
  <2>1. inbox' \in Seq(Cmds) /\ obuf' \in Seq(Cmds)
    BY <1>1 DEF OpInv, ChannelInv, OpTypes
  <2> QED  BY <1>1, <2>1 DEF OpInv, ChannelInv, OpTypes
<1>3. InOrder'
  <2>1. UNCHANGED Executed  BY <1>1 DEF Executed
  <2>2. /\ Executed \in Nat /\ obuf \in Seq(Cmds) /\ inbox \in Seq(Cmds)
        /\ appended \in Int
    BY DEF OpInv, ChannelInv, OpTypes, Executed
  <2>3. /\ Len(inbox') = Len(inbox) + Len(obuf) /\ Len(obuf') = 0
        /\ \A i \in 1..Len(inbox') :
              inbox'[i] = IF i <= Len(inbox) THEN inbox[i] ELSE obuf[i - Len(inbox)]
    BY <1>1, <2>2
  <2>4. /\ Executed + Len(inbox) + Len(obuf) = appended
        /\ \A i \in 1..Len(inbox) : inbox[i] = Commands(call)[Executed + i]
        /\ \A i \in 1..Len(obuf) : obuf[i] = Commands(call)[Executed + Len(inbox) + i]
    BY <1>1 DEF OpInv, ChannelInv, InOrder
  <2>5. ASSUME NEW i \in 1..Len(inbox')  PROVE inbox'[i] = Commands(call)[Executed + i]
    <3>1. CASE i <= Len(inbox)
      BY <2>2, <2>3, <2>4, <2>5, <3>1
    <3>2. CASE i > Len(inbox)
      <4>1. i - Len(inbox) \in 1..Len(obuf)
            /\ Executed + Len(inbox) + (i - Len(inbox)) = Executed + i
        BY <2>2, <2>3, <2>5, <3>2
      <4> QED  BY <2>2, <2>3, <2>4, <2>5, <3>2, <4>1
    <3> QED  BY <2>2, <2>3, <2>5, <3>1, <3>2
  <2> QED
    BY <1>1, <2>1, <2>2, <2>3, <2>4, <2>5 DEF OpInv, ChannelInv, InOrder
<1>4. Deadlined' /\ Connected'
  BY <1>1 DEF OpInv, ChannelInv, Deadlined, Connected, HashThere
<1>5. HashWritten' /\ HashRead' /\ SingleWritten'
  <2>1. HashWritten'  BY <1>1 DEF OpInv, HashWritten, Executed, Written
  <2>2. HashRead'  BY <1>1 DEF OpInv, HashRead, FromField
  <2>3. SingleWritten'  BY <1>1 DEF OpInv, SingleWritten
  <2> QED  BY <2>1, <2>2, <2>3
<1> QED  BY <1>2, <1>3, <1>4, <1>5 DEF OpInv, ChannelInv

LEMMA BreakStep == ASSUME OpInv, Break  PROVE OpInv'
<1>1. /\ conn.state = "open" /\ conn' = [conn EXCEPT !.state = "broken"]
      /\ inbox' = <<>>
      /\ UNCHANGED <<server, call, ret, values, appended, obuf, store, volatile,
                     before, expired, refused>>
  BY DEF Break, redis
<1>2. PICK n \in 0..Len(replies) : replies' = SubSeq(replies, 1, n)
  BY DEF Break
<1>3. /\ replies \in Seq(Answers) /\ conn.read \in Nat /\ appended \in Int
      /\ conn \in [state : {"none", "open", "broken"}, read : Nat]
  BY DEF OpInv, ChannelInv, OpTypes
<1>4. /\ replies' \in Seq(Answers) /\ Len(replies') = n
      /\ \A i \in 1..n : i \in 1..Len(replies) /\ replies'[i] = replies[i]
  BY <1>2, <1>3
<1>5. /\ conn' \in [state : {"none", "open", "broken"}, read : Nat]
      /\ conn'.read = conn.read /\ conn'.state = "broken"
  BY <1>1, <1>3
<1>6. Executed' <= Executed /\ Executed \in Nat /\ Executed' \in Nat
  BY <1>2, <1>3, <1>4, <1>5 DEF Executed
<1>7. OpTypes'
  BY <1>1, <1>4, <1>5 DEF OpInv, ChannelInv, OpTypes
<1>8. InOrder'
  <2>1. Executed <= appended /\ \A i \in 1..Len(replies) :
            replies[i].name = Commands(call)[conn.read + i].name
    BY DEF OpInv, ChannelInv, InOrder
  <2>2. Executed' <= appended'  BY <1>1, <1>3, <1>6, <2>1
  <2>3. \A i \in 1..n : replies'[i].name = Commands(call)[conn.read + i].name
    BY <1>4, <2>1
  <2> QED  BY <1>1, <1>4, <1>5, <2>2, <2>3 DEF InOrder
<1>9. Deadlined' /\ Connected'
  BY <1>1, <1>5 DEF OpInv, ChannelInv, Deadlined, Connected, HashThere
<1>10. HashWritten'
  <2> SUFFICES ASSUME call.cmd = "setHash", ~expired, ~refused
               PROVE  \E m \in Executed'..Len(call.fields) : Written(m)
    BY <1>1, <1>5 DEF HashWritten, Written
  <2>1. PICK m \in Executed..Len(call.fields) : Written(m)
    BY DEF OpInv, HashWritten
  <2> QED  BY <1>6, <2>1
<1>11. HashRead'
  BY <1>1, <1>4, <1>5 DEF OpInv, HashRead, FromField
<1>12. SingleWritten'
  BY <1>1, <1>4, <1>5 DEF OpInv, SingleWritten
<1> QED  BY <1>7, <1>8, <1>9, <1>10, <1>11, <1>12 DEF OpInv, ChannelInv

LEMMA ExpireStep == ASSUME OpInv, Expire  PROVE OpInv'
<1>1. /\ store' = Cleared /\ volatile' = FALSE /\ expired' = TRUE
      /\ UNCHANGED <<server, call, ret, values, conn, appended, obuf, inbox, replies,
                     before, refused>>
  BY DEF Expire, handler, channel
<1>2. store \in [Place -> Stored]  BY DEF OpInv, ChannelInv, OpTypes
<1>3. /\ store' \in [Place -> Stored]
      /\ \A f \in Field : store'[f] = NoValue
      /\ store'["string"] = store["string"] /\ store'["member"] = store["member"]
  BY <1>1, <1>2 DEF Cleared, Place, Stored
<1>4. OpTypes'  BY <1>1, <1>3 DEF OpInv, ChannelInv, OpTypes
<1>5. Deadlined' /\ InOrder' /\ Connected'
  BY <1>1 DEF OpInv, ChannelInv, Deadlined, InOrder, Connected, Executed
<1>6. HashWritten'  BY <1>1 DEF HashWritten
<1>7. HashRead'
  BY <1>1, <1>3 DEF OpInv, HashRead, FromField
<1>8. SingleWritten'
  BY <1>1, <1>3 DEF OpInv, SingleWritten, Goal
<1> QED  BY <1>4, <1>5, <1>6, <1>7, <1>8 DEF OpInv, ChannelInv

\* What a function makes of its reply
LEMMA RetOfReply == ASSUME NEW r \in Answers, ret \in {0, -1}  PROVE RetOf(r) \in {0, -1}
<1>1. r.name \in Names  BY DEF Answers
<1>2. CASE r.name \in {"exists", "del", "expireat"}  BY <1>2 DEF RetOf
<1>3. CASE r.name \in {"set", "geoadd", "georadius"}  BY <1>3 DEF RetOf
<1>4. CASE r.name = "expire"  BY <1>4 DEF RetOf
<1>5. CASE r.name \in {"hset", "hget", "zrem"}  BY <1>5 DEF RetOf
<1> QED  BY <1>1, <1>2, <1>3, <1>4, <1>5 DEF Names

LEMMA GetReplyStep == ASSUME OpInv, GetReply  PROVE OpInv'
<1> DEFINE N == Len(Commands(call))
<1>1. PICK r : r = Head(replies)  OBVIOUS
<1>2. /\ server = "run" /\ replies # <<>>
      /\ ret' = RetOf(r) /\ values' = Keep(r) /\ replies' = Tail(replies)
      /\ conn' = [conn EXCEPT !.read = @ + 1]
      /\ server' = IF conn.read + 1 = N THEN "end" ELSE "run"
      /\ UNCHANGED <<call, appended, obuf, inbox, store, volatile, before, expired, refused>>
  BY <1>1 DEF GetReply, redis
<1>3. /\ r \in Answers /\ r = replies[1] /\ Len(replies) \in Nat \ {0}
      /\ conn.read + 1 \in 1..N
      /\ r.name = Commands(call)[conn.read + 1].name
      /\ replies \in Seq(Answers) /\ values \in Seq(Stored) /\ ret \in {0, -1}
      /\ conn \in [state : {"none", "open", "broken"}, read : Nat] /\ appended \in Int
  BY <1>1, <1>2, NextReply DEF OpInv, ChannelInv, OpTypes
<1>4. call \in Calls /\ conn.state # "none"
  BY <1>2 DEF OpInv, ChannelInv, Connected
<1>5. /\ replies' \in Seq(Answers) /\ Len(replies') = Len(replies) - 1
      /\ \A i \in 1..Len(replies') : i + 1 \in 1..Len(replies) /\ replies'[i] = replies[i + 1]
  BY <1>2, <1>3
<1>6. /\ conn' \in [state : {"none", "open", "broken"}, read : Nat]
      /\ conn'.read = conn.read + 1 /\ conn'.state = conn.state
  BY <1>2, <1>3
<1>7. Executed' = Executed  BY <1>3, <1>5, <1>6 DEF Executed
<1>8. OpTypes'
  <2>1. r.str \in Stored  BY <1>3 DEF Answers
  <2>2. values' \in Seq(Stored)  BY <1>2, <1>3, <2>1 DEF Keep
  <2>3. ret' \in {0, -1}  BY <1>2, <1>3, RetOfReply
  <2>4. server' \in {"idle", "run", "end", "down"}  BY <1>2
  <2> HIDE DEF N
  <2> QED  BY <1>2, <1>5, <1>6, <2>2, <2>3, <2>4 DEF OpInv, ChannelInv, OpTypes
<1>9. InOrder'
  <2>1. \A i \in 1..Len(replies') : replies'[i].name = Commands(call)[conn'.read + i].name
    <3> SUFFICES ASSUME NEW i \in 1..Len(replies')
                 PROVE  replies'[i].name = Commands(call)[conn'.read + i].name
      OBVIOUS
    <3>1. conn'.read + i = conn.read + (i + 1)  BY <1>3, <1>5, <1>6
    <3> QED  BY <1>5, <3>1 DEF OpInv, ChannelInv, InOrder
  <2> QED  BY <1>2, <1>6, <1>7, <2>1 DEF OpInv, ChannelInv, InOrder
<1>10. Deadlined' /\ Connected'
  <2>1. server' \in {"run", "end"} /\ (server' = "end" => conn'.read = N)
    BY <1>2, <1>6
  <2> QED  BY <1>2, <1>4, <1>6, <2>1 DEF OpInv, ChannelInv, Deadlined, Connected, HashThere
<1>11. HashWritten'
  BY <1>2, <1>6, <1>7 DEF OpInv, HashWritten, Written
<1>12. HashRead'
  <2> SUFFICES ASSUME call.cmd = "getHash"
               PROVE  /\ Len(values') = conn'.read
                      /\ \A f \in Field : FromField(store[f], f)
                      /\ \A i \in 1..Len(values') : FromField(values'[i], call.fields[i])
                      /\ \A i \in 1..Len(replies') :
                            FromField(replies'[i].str, call.fields[conn'.read + i])
    BY <1>2 DEF HashRead, FromField
  <2>1. r.name = "hget"
    <3>1. conn.read + 1 \in 1..Len(call.fields)
          /\ Commands(call)[conn.read + 1] = Command("hget", call.fields[conn.read + 1], NoValue)
      BY <1>3, <1>4, HashCommands DEF Pipelined
    <3> QED  BY <1>3, <3>1 DEF Command
  <2>2. values' = Append(values, r.str) /\ r.str \in Stored
    BY <1>2, <1>3, <2>1 DEF Keep, Answers
  <2>3. /\ Len(values) = conn.read
        /\ \A f \in Field : FromField(store[f], f)
        /\ \A i \in 1..Len(values) : FromField(values[i], call.fields[i])
        /\ \A i \in 1..Len(replies) : FromField(replies[i].str, call.fields[conn.read + i])
    BY DEF OpInv, HashRead
  <2>4. FromField(r.str, call.fields[conn.read + 1])  BY <1>3, <2>3
  <2>5. ASSUME NEW i \in 1..Len(values')  PROVE FromField(values'[i], call.fields[i])
    BY <1>3, <2>2, <2>3, <2>4
  <2>6. ASSUME NEW i \in 1..Len(replies')
        PROVE  FromField(replies'[i].str, call.fields[conn'.read + i])
    <3>1. conn'.read + i = conn.read + (i + 1)  BY <1>3, <1>5, <1>6
    <3> QED  BY <1>5, <2>3, <3>1
  <2> QED  BY <1>3, <1>6, <2>2, <2>3, <2>5, <2>6
<1>13. SingleWritten'
  <2> SUFFICES ASSUME call.cmd \in Single
               PROVE  /\ \A i \in 1..Len(replies') :
                            Accepts(replies'[i]) => store[Goal(call)] = call.value
                      /\ ret' = 0 => store[Goal(call)] = call.value
    BY <1>2 DEF SingleWritten
  <2>1. /\ \A i \in 1..Len(replies) : Accepts(replies[i]) => store[Goal(call)] = call.value
        /\ conn.read > 0 /\ ret = 0 => store[Goal(call)] = call.value
    BY DEF OpInv, SingleWritten
  <2>2. ASSUME ret' = 0  PROVE store[Goal(call)] = call.value
    <3>1. CASE conn.read = 0
      <4>1. r.name \in {"set", "geoadd"}  BY <1>3, <1>4, <3>1, SingleCommands
      <4>2. Accepts(r)  BY <1>2, <2>2, <4>1 DEF RetOf, Accepts
      <4> QED  BY <1>3, <2>1, <4>2
    <3>2. CASE conn.read > 0
      <4>1. conn.read = 1 /\ r.name = "expire"  BY <1>3, <1>4, <3>2, SingleCommands
      <4>2. ret = 0  BY <1>2, <2>2, <4>1 DEF RetOf
      <4> QED  BY <2>1, <3>2, <4>2
    <3> QED  BY <1>3, <3>1, <3>2
  <2> QED  BY <1>5, <2>1, <2>2
<1> QED  BY <1>8, <1>9, <1>10, <1>11, <1>12, <1>13 DEF OpInv, ChannelInv

-----------------------------------------------------------------------------
(* Redis executes a command *)

\* A write to a place keeps the types, and a hash that is there.
LEMMA WriteKeeps ==
    ASSUME ChannelInv, NEW p \in Place, NEW v \in Stored,
           store' = [store EXCEPT ![p] = v],
           v = NoValue => p \notin Field
    PROVE  /\ store' \in [Place -> Stored] /\ store'[p] = v
           /\ HashThere => HashThere'
<1>1. store \in [Place -> Stored]  BY DEF ChannelInv, OpTypes
<1>2. \A f \in Field : f \in Place /\ (store[f] # NoValue => store'[f] # NoValue)
  BY <1>1 DEF Place
<1> QED  BY <1>1, <1>2 DEF HashThere

\* What a command does, and what its reply says
Does(c, r) ==
    /\ r.name = c.name
    /\ store' \in [Place -> Stored] /\ volatile' \in BOOLEAN /\ Deadlined'
    /\ c.name = "hset" => store' = [store EXCEPT ![c.place] = c.value] \/ refused'
    /\ c.name = "hget" => store' = store /\ r.str = store[c.place]
    /\ c.name = "expire" => store' = store
    /\ c.name \in {"set", "geoadd"} =>
          /\ Accepts(r) => store'[c.place] = c.value
          /\ store'[c.place] \in {store[c.place], c.value}

LEMMA ReplyType ==
    ASSUME NEW name \in Names, NEW type \in {"integer", "status", "string", "nil", "array", "error"},
           NEW n \in {0, 1}, NEW str \in Stored
    PROVE  Reply(name, type, n, str) \in Answers
BY DEF Reply, Answers

LEMMA WriteDoes ==
    ASSUME ChannelInv, NEW c, Sound(c), Write(c)
    PROVE  \E r \in Answers : replies' = Append(replies, r) /\ Does(c, r)
<1>0. /\ store \in [Place -> Stored] /\ volatile \in BOOLEAN /\ NoValue \in Stored
      /\ {"string", "member"} \subseteq Place
      /\ c.place \in Place \cup {"hash"} /\ c.value \in Stored /\ c.name \in Names
      /\ Deadlined
  BY DEF ChannelInv, OpTypes, Stored, Place, Sound, Cmds
<1>1. CASE c.name \in {"hset", "set", "geoadd"}
  <2> DEFINE r == IF c.name = "set" THEN Reply("set", "status", 0, NoValue)
                  ELSE Reply(c.name, "integer", IF store[c.place] = NoValue THEN 1 ELSE 0, NoValue)
  <2>1. /\ store' = [store EXCEPT ![c.place] = c.value] /\ volatile' = volatile
        /\ replies' = Append(replies, r)
    BY <1>1 DEF Write
  <2>2. c.place \in Place /\ c.value # NoValue
    BY <1>1 DEF Sound, Place
  <2>3. store' \in [Place -> Stored] /\ store'[c.place] = c.value /\ Deadlined'
    BY <1>0, <2>1, <2>2, WriteKeeps DEF Deadlined
  <2>4. r \in Answers /\ r.name = c.name
    <3>1. CASE c.name = "set"  BY <1>0, <3>1, ReplyType DEF Names, Reply
    <3>2. CASE c.name # "set"
      <4>1. (IF store[c.place] = NoValue THEN 1 ELSE 0) \in {0, 1}  OBVIOUS
      <4> QED  BY <1>0, <3>2, <4>1, ReplyType DEF Reply
    <3> QED  BY <3>1, <3>2
  <2> HIDE DEF r
  <2> QED  BY <1>0, <1>1, <2>1, <2>3, <2>4 DEF Does
<1>2. CASE c.name = "zrem"
  <2> DEFINE n == IF store["member"] = NoValue THEN 0 ELSE 1
             r == Reply("zrem", "integer", n, NoValue)
  <2>1. /\ store' = [store EXCEPT !["member"] = NoValue] /\ volatile' = volatile
        /\ replies' = Append(replies, r)
    BY <1>2 DEF Write
  <2>2. store' \in [Place -> Stored] /\ Deadlined'
    BY <1>0, <2>1, WriteKeeps DEF Deadlined
  <2>3. r \in Answers /\ r.name = "zrem"
    <3>1. n \in {0, 1}  OBVIOUS
    <3> HIDE DEF n
    <3> QED  BY <1>0, <3>1, ReplyType DEF Names, Reply
  <2> HIDE DEF r
  <2> QED  BY <1>0, <1>2, <2>1, <2>2, <2>3 DEF Does
<1>3. CASE c.name = "del"
  <2> DEFINE n == IF HashThere THEN 1 ELSE 0
             r == Reply("del", "integer", n, NoValue)
  <2>1. store' = Cleared /\ volatile' = FALSE /\ replies' = Append(replies, r)
    BY <1>3 DEF Write
  <2>2. store' \in [Place -> Stored]  BY <1>0, <2>1 DEF Cleared
  <2>3. r \in Answers /\ r.name = "del"
    <3>1. n \in {0, 1}  OBVIOUS
    <3> HIDE DEF n
    <3> QED  BY <1>0, <3>1, ReplyType DEF Names, Reply
  <2> HIDE DEF r
  <2> QED  BY <1>3, <2>1, <2>2, <2>3 DEF Does, Deadlined
<1>4. CASE c.name = "expireat"
  <2> DEFINE n == IF HashThere THEN 1 ELSE 0
             r == Reply("expireat", "integer", n, NoValue)
  <2>1. store' = store /\ volatile' = HashThere /\ replies' = Append(replies, r)
    BY <1>4 DEF Write
  <2>2. volatile' \in BOOLEAN /\ Deadlined'  BY <2>1 DEF Deadlined, HashThere
  <2>3. r \in Answers /\ r.name = "expireat"
    <3>1. n \in {0, 1}  OBVIOUS
    <3> HIDE DEF n
    <3> QED  BY <1>0, <3>1, ReplyType DEF Names, Reply
  <2> HIDE DEF r
  <2> QED  BY <1>0, <1>4, <2>1, <2>2, <2>3 DEF Does
<1>5. CASE c.name = "expire"
  <2> DEFINE n == IF store["string"] = NoValue THEN 0 ELSE 1
             r == Reply("expire", "integer", n, NoValue)
  <2>1. store' = store /\ volatile' = volatile /\ replies' = Append(replies, r)
    BY <1>5 DEF Write, redis
  <2>2. r \in Answers /\ r.name = "expire"
    <3>1. n \in {0, 1}  OBVIOUS
    <3> HIDE DEF n
    <3> QED  BY <1>0, <3>1, ReplyType DEF Names, Reply
  <2>3. Deadlined'  BY <1>0, <2>1 DEF Deadlined, HashThere
  <2> HIDE DEF r
  <2> QED  BY <1>0, <1>5, <2>1, <2>2, <2>3 DEF Does
<1> QED  BY <1>1, <1>2, <1>3, <1>4, <1>5 DEF Write

LEMMA ReadDoes ==
    ASSUME ChannelInv, NEW c, Sound(c),
           \/ ReadOnly(c)
           \/ Refuse(c) /\ refused' = TRUE
    PROVE  \E r \in Answers : replies' = Append(replies, r) /\ Does(c, r)
<1>0. /\ store \in [Place -> Stored] /\ volatile \in BOOLEAN /\ NoValue \in Stored
      /\ "member" \in Place /\ c.name \in Names /\ Deadlined
      /\ c.name = "hget" => c.place \in Place
  BY DEF ChannelInv, OpTypes, Stored, Place, Sound, Cmds
<1>1. store' = store /\ volatile' = volatile  BY DEF ReadOnly, Refuse, redis
<1>2. Deadlined'  BY <1>0, <1>1 DEF Deadlined, HashThere
<1>3. CASE Refuse(c) /\ refused' = TRUE
  <2> DEFINE r == Reply(c.name, "error", 0, NoValue)
  <2>1. /\ replies' = Append(replies, r)
        /\ c.name \in {"hset", "set", "geoadd", "zrem", "del", "expireat", "expire"}
    BY <1>3 DEF Refuse
  <2>2. r \in Answers /\ r.name = c.name /\ ~Accepts(r)
    BY <1>0, ReplyType DEF Reply, Accepts
  <2> HIDE DEF r
  <2> QED  BY <1>0, <1>1, <1>2, <1>3, <2>1, <2>2 DEF Does
<1>4. CASE ReadOnly(c)
  <2>1. CASE c.name = "hget"
    <3> DEFINE type == IF store[c.place] = NoValue THEN "nil" ELSE "string"
               r == Reply("hget", type, 0, store[c.place])
    <3>1. replies' = Append(replies, r)  BY <1>4, <2>1 DEF ReadOnly
    <3>2. type \in {"integer", "status", "string", "nil", "array", "error"}  OBVIOUS
    <3> HIDE DEF type
    <3>3. r \in Answers /\ r.name = "hget" /\ r.str = store[c.place]
      BY <1>0, <2>1, <3>2, ReplyType DEF Names, Reply
    <3> HIDE DEF r
    <3> QED  BY <1>0, <1>1, <1>2, <2>1, <3>1, <3>3 DEF Does
  <2>2. CASE c.name = "exists"
    <3> DEFINE n == IF HashThere THEN 1 ELSE 0
               r == Reply("exists", "integer", n, NoValue)
    <3>1. replies' = Append(replies, r)  BY <1>4, <2>2 DEF ReadOnly
    <3>2. n \in {0, 1}  OBVIOUS
    <3> HIDE DEF n
    <3>3. r \in Answers /\ r.name = "exists"  BY <1>0, <3>2, ReplyType DEF Names, Reply
    <3> HIDE DEF r
    <3> QED  BY <1>0, <1>1, <1>2, <2>2, <3>1, <3>3 DEF Does
  <2>3. CASE c.name = "georadius"
    <3> DEFINE r == Reply("georadius", "array", 0, store["member"])
    <3>1. replies' = Append(replies, r)  BY <1>4, <2>3 DEF ReadOnly
    <3>2. r \in Answers /\ r.name = "georadius"  BY <1>0, ReplyType DEF Names, Reply
    <3> HIDE DEF r
    <3> QED  BY <1>0, <1>1, <1>2, <2>3, <3>1, <3>2 DEF Does
  <2> QED  BY <1>4, <2>1, <2>2, <2>3 DEF ReadOnly
<1> QED  BY <1>3, <1>4

LEMMA ExecuteStep == ASSUME OpInv, Execute  PROVE OpInv'
<1> DEFINE k == Executed + 1
<1>1. PICK c : c = Head(inbox)  OBVIOUS
<1>2. /\ inbox # <<>> /\ conn.state = "open" /\ inbox' = Tail(inbox)
      /\ \/ Write(c)
         \/ ReadOnly(c)
         \/ Refuse(c) /\ refused' = TRUE
      /\ refused' = refused \/ refused' = TRUE
      /\ UNCHANGED <<server, call, ret, values, conn, appended, obuf, before, expired>>
  BY <1>1 DEF Execute, handler
<1>3. /\ call \in Calls /\ k \in 1..Len(Commands(call)) /\ Executed \in Nat
      /\ c = Commands(call)[k] /\ Sound(c)
  BY <1>1, <1>2, NextCommand DEF OpInv
<1>4. PICK r \in Answers : replies' = Append(replies, r) /\ Does(c, r)
  BY <1>2, <1>3, WriteDoes, ReadDoes DEF OpInv
<1>5. /\ inbox \in Seq(Cmds) /\ replies \in Seq(Answers) /\ conn.read \in Nat
      /\ Len(obuf) \in Nat /\ store \in [Place -> Stored] /\ refused \in BOOLEAN
  BY DEF OpInv, ChannelInv, OpTypes
<1>6. /\ replies' \in Seq(Answers) /\ Len(replies') = Len(replies) + 1
      /\ replies'[Len(replies) + 1] = r
      /\ \A i \in 1..Len(replies) : replies'[i] = replies[i]
  BY <1>4, <1>5
<1>7. /\ inbox' \in Seq(Cmds) /\ Len(inbox') = Len(inbox) - 1 /\ Len(inbox) \in Nat \ {0}
      /\ \A i \in 1..Len(inbox') : i + 1 \in 1..Len(inbox) /\ inbox'[i] = inbox[i + 1]
  BY <1>2, <1>5
<1>8. Executed' = k
  <2>1. Executed' = conn.read + (Len(replies) + 1)  BY <1>2, <1>6 DEF Executed
  <2>2. k = conn.read + (Len(replies) + 1)  BY <1>5 DEF Executed
  <2> QED  BY <2>1, <2>2
<1>9. OpTypes'
  BY <1>2, <1>4, <1>5, <1>6, <1>7 DEF OpInv, ChannelInv, OpTypes, Does
<1>10. InOrder'
  <2>1. /\ Executed + Len(inbox) + Len(obuf) = appended
        /\ \A i \in 1..Len(inbox) : inbox[i] = Commands(call)[Executed + i]
        /\ \A i \in 1..Len(obuf) : obuf[i] = Commands(call)[Executed + Len(inbox) + i]
    BY <1>2 DEF OpInv, ChannelInv, InOrder
  <2>2. ASSUME NEW i \in 1..Len(replies')
        PROVE  replies'[i].name = Commands(call)[conn.read + i].name
    <3>1. CASE i = Len(replies) + 1
      <4>1. conn.read + i = k  BY <1>5, <3>1 DEF Executed
      <4> QED  BY <1>3, <1>4, <1>6, <3>1, <4>1 DEF Does
    <3>2. CASE i \in 1..Len(replies)
      BY <1>6, <3>2 DEF OpInv, ChannelInv, InOrder
    <3> QED  BY <1>5, <1>6, <2>2, <3>1, <3>2
  <2>3. ASSUME NEW i \in 1..Len(inbox')  PROVE inbox'[i] = Commands(call)[k + i]
    <3>1. Executed + (i + 1) = k + i  BY <1>3
    <3> QED  BY <1>7, <2>1, <3>1
  <2>4. k + Len(inbox') + Len(obuf) = appended /\ k + Len(inbox') = Executed + Len(inbox)
    <3>1. /\ Executed + Len(inbox) + Len(obuf) = appended /\ Len(inbox') = Len(inbox) - 1
          /\ Executed \in Nat /\ Len(inbox) \in Nat /\ Len(obuf) \in Nat
      BY <1>3, <1>5, <1>7, <2>1
    <3> QED  BY <3>1
  <2>5. k <= appended  BY <1>3, <1>5, <1>7, <2>4
  <2> HIDE DEF k
  <2> QED  BY <1>2, <1>8, <2>1, <2>2, <2>3, <2>4, <2>5 DEF InOrder
<1>11. Deadlined' /\ Connected'
  BY <1>2, <1>4 DEF OpInv, ChannelInv, Connected, Does
<1>12. HashWritten'
  <2> SUFFICES ASSUME call.cmd = "setHash", ~expired, ~refused'
               PROVE  Executed' \in k..Len(call.fields) /\ Written(Executed)'
    <3>1. Executed' = k /\ UNCHANGED <<call, expired>>  BY <1>2, <1>8
    <3> HIDE DEF k
    <3> QED  BY <3>1 DEF HashWritten
  <2>1. Written(Executed) /\ ~refused
    BY <1>2, <1>5 DEF OpInv, HashWritten
  <2>2. k \in 1..Len(call.fields) /\ c = Command("hset", call.fields[k], call.value)
        /\ Len(call.fields) \in Nat
    BY <1>3, HashCommands DEF Pipelined
  <2>3. store' = [store EXCEPT ![call.fields[k]] = call.value]
    BY <1>4, <2>2 DEF Does, Command
  <2>4. Written(Executed)'
    <3>1. \A q \in Place : store[q] = IF \E i \in 1..Executed : call.fields[i] = q
                                      THEN call.value ELSE before[q]
      BY <2>1 DEF Written
    <3>2. \A q \in Place : (\E i \in 1..k : call.fields[i] = q)
                             <=> (\E i \in 1..Executed : call.fields[i] = q) \/ call.fields[k] = q
      BY <1>3
    <3> HIDE DEF k
    <3>3. \A q \in Place : store'[q] = IF \E i \in 1..k : call.fields[i] = q
                                       THEN call.value ELSE before[q]
      BY <1>5, <2>3, <3>1, <3>2
    <3>4. store' = [q \in Place |-> IF \E i \in 1..k : call.fields[i] = q
                                    THEN call.value ELSE before[q]]
      BY <1>5, <2>3, <3>3
    <3> QED  BY <1>2, <1>8, <3>4 DEF Written
  <2> QED  BY <1>8, <2>2, <2>4
<1>13. HashRead'
  <2> SUFFICES ASSUME call.cmd = "getHash"
               PROVE  /\ Len(values) = conn.read
                      /\ \A f \in Field : FromField(store'[f], f)
                      /\ \A i \in 1..Len(values) : FromField(values[i], call.fields[i])
                      /\ \A i \in 1..Len(replies') :
                            FromField(replies'[i].str, call.fields[conn.read + i])
    BY <1>2 DEF HashRead, FromField
  <2>1. k \in 1..Len(call.fields) /\ c = Command("hget", call.fields[k], NoValue)
        /\ call.fields[k] \in Field
    BY <1>3, HashCommands DEF Pipelined
  <2>2. store' = store /\ r.str = store[call.fields[k]]
    BY <1>4, <2>1 DEF Does, Command
  <2>3. conn.read + (Len(replies) + 1) = k  BY <1>5 DEF Executed
  <2>4. ASSUME NEW i \in 1..Len(replies')
        PROVE  FromField(replies'[i].str, call.fields[conn.read + i])
    <3>1. CASE i = Len(replies) + 1
      BY <1>6, <2>1, <2>2, <2>3, <3>1 DEF OpInv, HashRead
    <3>2. CASE i \in 1..Len(replies)
      BY <1>6, <3>2 DEF OpInv, HashRead
    <3> QED  BY <1>5, <1>6, <2>4, <3>1, <3>2
  <2> QED  BY <2>2, <2>4 DEF OpInv, HashRead
<1>14. SingleWritten'
  <2> SUFFICES ASSUME call.cmd \in Single
               PROVE  /\ \A i \in 1..Len(replies') :
                            Accepts(replies'[i]) => store'[Goal(call)] = call.value
                      /\ conn.read > 0 /\ ret = 0 => store'[Goal(call)] = call.value
    BY <1>2 DEF SingleWritten
  <2>1. /\ \A i \in 1..Len(replies) : Accepts(replies[i]) => store[Goal(call)] = call.value
        /\ conn.read > 0 /\ ret = 0 => store[Goal(call)] = call.value
    BY DEF OpInv, SingleWritten
  <2>2. CASE k = 1
    <3>1. c.name \in {"set", "geoadd"} /\ c.place = Goal(call) /\ c.value = call.value
      BY <1>3, <2>2, SingleCommands
    <3>2. /\ Accepts(r) => store'[Goal(call)] = call.value
          /\ store[Goal(call)] = call.value => store'[Goal(call)] = call.value
      BY <1>4, <3>1 DEF Does
    <3> QED  BY <1>5, <1>6, <2>1, <3>2
  <2>3. CASE k # 1
    <3>1. c.name = "expire"  BY <1>3, <2>3, SingleCommands
    <3>2. store' = store /\ ~Accepts(r)  BY <1>4, <3>1 DEF Does, Accepts
    <3>3. ASSUME NEW i \in 1..Len(replies'), Accepts(replies'[i])
          PROVE  store'[Goal(call)] = call.value
      <4>1. i \in 1..Len(replies)  BY <1>5, <1>6, <3>2, <3>3
      <4>2. replies'[i] = replies[i]  BY <1>6, <4>1
      <4> QED  BY <2>1, <3>2, <3>3, <4>1, <4>2
    <3> QED  BY <2>1, <3>2, <3>3
  <2> QED  BY <2>2, <2>3
<1> QED
  BY <1>9, <1>10, <1>11, <1>12, <1>13, <1>14 DEF OpInv, ChannelInv

LEMMA OpInvStep == OpInv /\ [OpNext]_opVars => OpInv'
<1> SUFFICES ASSUME OpInv, [OpNext]_opVars  PROVE OpInv'
  OBVIOUS
<1>1. CASE \E c \in Calls : Connect(c)  BY <1>1, ConnectStep
<1>2. CASE HandlerStep
  BY <1>2, AppendStep, FlushStep, GetReplyStep, GiveUpStep, LeaveStep DEF HandlerStep
<1>3. CASE AppendFails \/ StartUp  BY <1>3, GiveUpStep, LeaveStep
<1>4. CASE Execute \/ Expire \/ Break  BY <1>4, ExecuteStep, ExpireStep, BreakStep
<1>5. CASE UNCHANGED opVars
  <2>1. /\ UNCHANGED <<server, call, ret, values, conn, appended, obuf, inbox, replies>>
        /\ UNCHANGED <<store, volatile, before, expired, refused>>
    BY <1>5 DEF opVars
  <2>2. OpTypes'  BY <2>1 DEF OpInv, ChannelInv, OpTypes
  <2>3. Deadlined' /\ InOrder' /\ Connected'
    BY <2>1 DEF OpInv, ChannelInv, Deadlined, InOrder, Connected, Executed, HashThere
  <2>4. HashWritten' /\ HashRead' /\ SingleWritten'
    BY <2>1 DEF OpInv, HashWritten, HashRead, SingleWritten, Executed, Written, FromField
  <2> QED  BY <2>2, <2>3, <2>4 DEF OpInv, ChannelInv
<1> QED  BY <1>1, <1>2, <1>3, <1>4, <1>5 DEF OpNext

LEMMA OpInvHolds == OpSpec => []OpInv
BY OpInit_Inv, OpInvStep, PTL DEF OpSpec

-----------------------------------------------------------------------------
\* The types, no more replies read than commands appended, no more of them than
\* the request has, and a deadline only for a hash that is there
\* (redis_op.cpp:333-399).
THEOREM PipelineIsTyped == OpSpec => []OpTypeOK
<1>1. OpInv => OpTypeOK
  <2> SUFFICES ASSUME OpInv  PROVE OpTypeOK
    OBVIOUS
  <2>1. conn.read \in 0..appended
    <3>1. /\ conn.read \in Nat /\ Len(replies) \in Nat /\ appended \in Int
          /\ conn.read + Len(replies) <= appended
      BY DEF OpInv, ChannelInv, OpTypes, InOrder, Executed
    <3> QED  BY <3>1
  <2> QED  BY <2>1 DEF OpInv, ChannelInv, OpTypes, Deadlined, OpTypeOK, Stored
<1> QED  BY <1>1, OpInvHolds, PTL

\* The reply that is read is the reply of the command it is taken for, however many
\* fields the pipeline has and wherever one before it was given up
\* (redis_op.cpp:333-356, 370-399).
THEOREM RepliesAreOwn == OpSpec => []OwnReplies
<1>1. OpInv => OwnReplies
  <2> SUFFICES ASSUME OpInv  PROVE OwnReplies
    OBVIOUS
  <2>1. /\ replies \in Seq(Answers) /\ inbox \in Seq(Cmds) /\ obuf \in Seq(Cmds)
        /\ conn.read \in Nat /\ appended \in Int
    BY DEF OpInv, ChannelInv, OpTypes
  <2>2. ASSUME server = "idle"  PROVE obuf = <<>> /\ inbox = <<>> /\ replies = <<>>
    <3>1. appended = 0 /\ conn.state = "none"
      BY <2>2 DEF OpInv, ChannelInv, Connected
    <3> QED  BY <2>1, <3>1 DEF OpInv, ChannelInv, InOrder, Executed
  <2>3. ASSUME conn.state = "open"
        PROVE  [i \in 1..Len(replies) |-> replies[i].name]
                 \o [i \in 1..Len(inbox) |-> inbox[i].name] \o [i \in 1..Len(obuf) |-> obuf[i].name]
               = [i \in 1..(appended - conn.read) |-> Commands(call)[conn.read + i].name]
    <3> DEFINE a == Len(replies)
               b == Len(inbox)
               d == Len(obuf)
               A == [i \in 1..a |-> replies[i].name]
               B == [i \in 1..b |-> inbox[i].name]
               D == [i \in 1..d |-> obuf[i].name]
    <3>1. /\ a \in Nat /\ b \in Nat /\ d \in Nat /\ appended - conn.read = a + b + d
          /\ \A i \in 1..a : A[i] = Commands(call)[conn.read + i].name
          /\ \A i \in 1..b : B[i] = Commands(call)[conn.read + a + i].name
          /\ \A i \in 1..d : D[i] = Commands(call)[conn.read + a + b + i].name
      <4>1. /\ \A i \in 1..a : replies[i].name = Commands(call)[conn.read + i].name
            /\ Executed + b + d = appended
            /\ \A i \in 1..b : inbox[i] = Commands(call)[Executed + i]
            /\ \A i \in 1..d : obuf[i] = Commands(call)[Executed + b + i]
        BY <2>3 DEF OpInv, ChannelInv, InOrder
      <4>2. a \in Nat /\ b \in Nat /\ d \in Nat /\ Executed = conn.read + a
        BY <2>1 DEF Executed
      <4>3. /\ \A i \in 1..a : A[i] = replies[i].name
            /\ \A i \in 1..b : B[i] = inbox[i].name
            /\ \A i \in 1..d : D[i] = obuf[i].name
        OBVIOUS
      <4> HIDE DEF A, B, D, a, b, d
      <4>4. appended - conn.read = a + b + d
        <5>1. appended \in Int /\ conn.read \in Nat  BY <2>1
        <5>2. Executed + b + d = appended  BY <4>1
        <5> QED  BY <4>2, <5>1, <5>2
      <4>5. \A i \in 1..b : B[i] = Commands(call)[conn.read + a + i].name
        BY <4>1, <4>2, <4>3
      <4>6. \A i \in 1..d : D[i] = Commands(call)[conn.read + a + b + i].name
        BY <4>1, <4>2, <4>3
      <4> QED  BY <4>1, <4>2, <4>3, <4>4, <4>5, <4>6
    <3>2. /\ A \in Seq(Names) /\ Len(A) = a
          /\ B \in Seq(Names) /\ Len(B) = b
          /\ D \in Seq(Names) /\ Len(D) = d
      <4>1. /\ \A i \in 1..a : replies[i].name \in Names
            /\ \A i \in 1..b : inbox[i].name \in Names
            /\ \A i \in 1..d : obuf[i].name \in Names
        <5>1. /\ \A i \in 1..a : replies[i] \in Answers
              /\ \A i \in 1..b : inbox[i] \in Cmds
              /\ \A i \in 1..d : obuf[i] \in Cmds
          BY <2>1
        <5> HIDE DEF a, b, d
        <5> QED  BY <5>1 DEF Answers, Cmds
      <4> HIDE DEF a, b, d
      <4> QED  BY <3>1, <4>1
    <3> HIDE DEF A, B, D, a, b, d
    <3> DEFINE F == [i \in 1..(appended - conn.read) |-> Commands(call)[conn.read + i].name]
    <3>3. /\ Len(F) = a + b + d
          /\ \A i \in 1..(a + b + d) : F[i] = Commands(call)[conn.read + i].name
      BY <3>1
    <3> HIDE DEF F
    <3>4. /\ \A i \in 1..a : F[i] = A[i]
          /\ \A i \in 1..b : F[a + i] = B[i]
          /\ \A i \in 1..d : F[a + b + i] = D[i]
      <4>1. ASSUME NEW i \in 1..b  PROVE F[a + i] = B[i]
        <5>0. a \in Nat /\ b \in Nat /\ d \in Nat /\ conn.read \in Nat  BY <2>1, <3>1
        <5>1. a + i \in 1..(a + b + d) /\ conn.read + (a + i) = conn.read + a + i
          BY <5>0
        <5> QED  BY <3>1, <3>3, <5>1
      <4>2. ASSUME NEW i \in 1..d  PROVE F[a + b + i] = D[i]
        <5>0. a \in Nat /\ b \in Nat /\ d \in Nat /\ conn.read \in Nat  BY <2>1, <3>1
        <5>1. a + b + i \in 1..(a + b + d) /\ conn.read + (a + b + i) = conn.read + a + b + i
          BY <5>0
        <5> QED  BY <3>1, <3>3, <5>1
      <4>3. ASSUME NEW i \in 1..a  PROVE F[i] = A[i]
        BY <3>1, <3>3
      <4> QED  BY <4>1, <4>2, <4>3
    <3>5. F \in Seq(Names)
      <4>1. \A i \in 1..(a + b + d) : F[i] \in Names
        <5> SUFFICES ASSUME NEW i \in 1..(a + b + d)  PROVE F[i] \in Names
          OBVIOUS
        <5>1. CASE i <= a  BY <3>1, <3>2, <3>4, <5>1
        <5>2. CASE i > a /\ i <= a + b
          <6>1. i - a \in 1..b /\ a + (i - a) = i  BY <3>1, <5>2
          <6> QED  BY <3>2, <3>4, <6>1
        <5>3. CASE i > a + b
          <6>1. i - (a + b) \in 1..d /\ a + b + (i - (a + b)) = i  BY <3>1, <5>3
          <6> QED  BY <3>2, <3>4, <6>1
        <5> QED  BY <3>1, <5>1, <5>2, <5>3
      <4>2. appended - conn.read \in Nat /\ a + b + d = appended - conn.read  BY <3>1
      <4> QED  BY <4>1, <4>2 DEF F
    <3>6. A \o B \o D = F
      <4>1. /\ Len(F) = Len(A) + Len(B) + Len(D)
            /\ \A i \in 1..Len(A) : F[i] = A[i]
            /\ \A i \in 1..Len(B) : F[Len(A) + i] = B[i]
            /\ \A i \in 1..Len(D) : F[Len(A) + Len(B) + i] = D[i]
        BY <3>2, <3>3, <3>4
      <4>2. A \in Seq(Names) /\ B \in Seq(Names) /\ D \in Seq(Names)  BY <3>2
      <4> QED  BY ONLY <3>5, <4>1, <4>2, ThreeParts
    <3> QED  BY <3>6 DEF A, B, D, F, a, b, d
  <2> QED  BY <2>2, <2>3 DEF OwnReplies
<1> QED  BY <1>1, OpInvHolds, PTL

\* At any time the first few fields of a setHash are written and no other place is
\* touched; all of them with an ok (deal_cache.c:146, redis_op.cpp:344-356).
THEOREM WritesArePrefixes == OpSpec => []PrefixWritten
<1>1. OpInv => PrefixWritten
  <2> SUFFICES ASSUME OpInv, call.cmd = "setHash", ~expired, ~refused
               PROVE  /\ \E n \in 0..Len(call.fields) : Written(n)
                      /\ server = "end" /\ ret = 0 => Written(Len(call.fields))
    BY DEF PrefixWritten
  <2>1. PICK n \in Executed..Len(call.fields) : Written(n)
    BY DEF OpInv, HashWritten
  <2>2. call \in Calls  BY NoCommands DEF OpInv, ChannelInv, OpTypes
  <2>3. Len(call.fields) \in Nat /\ Len(Commands(call)) = Len(call.fields)
    BY <2>2, HashCommands DEF Pipelined
  <2>4. conn.read \in Nat /\ Len(replies) \in Nat
    BY DEF OpInv, ChannelInv, OpTypes
  <2>5. n \in 0..Len(call.fields)  BY <2>1, <2>3, <2>4 DEF Executed
  <2>6. ASSUME server = "end", ret = 0  PROVE n = Len(call.fields)
    <3>1. conn.read = Len(call.fields)
      BY <2>3, <2>6 DEF OpInv, ChannelInv, Connected
    <3> QED  BY <2>3, <2>4, <2>5, <3>1 DEF Executed
  <2> QED  BY <2>1, <2>5, <2>6
<1> QED  BY <1>1, OpInvHolds, PTL

\* After an ok of getHash there is a value for every field, its own
\* (redis_op.cpp:381-399).
THEOREM ValuesAreOwn == OpSpec => []GotOwnValues
<1>1. OpInv => GotOwnValues
  <2> SUFFICES ASSUME OpInv, call.cmd = "getHash", server = "end", ret = 0
               PROVE  /\ Len(values) = Len(call.fields)
                      /\ \A i \in DOMAIN values :
                            values[i] = before[call.fields[i]] \/ (expired /\ values[i] = NoValue)
    BY DEF GotOwnValues
  <2>1. call \in Calls /\ conn.read = Len(Commands(call)) /\ values \in Seq(Stored)
    BY DEF OpInv, ChannelInv, Connected, OpTypes
  <2>2. Len(Commands(call)) = Len(call.fields)  BY <2>1, HashCommands DEF Pipelined
  <2>3. DOMAIN values = 1..Len(values)  BY <2>1
  <2> QED  BY <2>1, <2>2, <2>3 DEF OpInv, HashRead, FromField
<1> QED  BY <1>1, OpInvHolds, PTL

\* After an ok a string or a member is there, also where Redis refuses to write
\* (deal_cache.c:53-60, redis_op.cpp:674-685, 755-773).
THEOREM SingleWritesAreTold == OpSpec => []SingleWriteIsTold
<1>1. OpInv => SingleWriteIsTold
  <2> SUFFICES ASSUME OpInv, server = "end", ret = 0, call.cmd \in Single
               PROVE  store[Goal(call)] = call.value
    BY DEF SingleWriteIsTold, Single, Goal
  <2>1. call \in Calls /\ conn.read = Len(Commands(call))
    BY DEF OpInv, ChannelInv, Connected
  <2>2. conn.read > 0  BY <2>1, CommandsAreSound
  <2> QED  BY <2>2 DEF OpInv, SingleWritten
<1> QED  BY <1>1, OpInvHolds, PTL

-----------------------------------------------------------------------------
(* The request as CacheRequest describes it                                *)

\* Nothing is under way when a request has ended or while a pipeline is appended to,
\* single commands go one by one, and only a reply can spoil the result.
Quiet ==
    /\ server \in {"end", "down"} => inbox = <<>> /\ replies = <<>>
    /\ server = "run" /\ Pipelined(call) =>
          /\ ret = 0
          /\ appended < Len(Commands(call)) =>
                inbox = <<>> /\ replies = <<>> /\ conn.read = 0
    /\ ~Pipelined(call) => appended <= conn.read + 1
    /\ server = "run" /\ conn.read = 0 => ret = 0

ServeInv == OpInv /\ Quiet

\* The names of the commands of a request
LEMMA CommandOf ==
    ASSUME NEW c \in Calls, NEW i \in 1..Len(Commands(c))
    PROVE  /\ c.cmd = "setHash" => Commands(c)[i] = Command("hset", c.fields[i], c.value)
           /\ c.cmd = "getHash" => Commands(c)[i] = Command("hget", c.fields[i], NoValue)
           /\ c.cmd = "setString" => i = 1 /\ Commands(c)[i] = Command("set", "string", c.value)
           /\ c.cmd = "setLimitedString" =>
                 \/ i = 1 /\ Commands(c)[i] = Command("set", "string", c.value)
                 \/ i = 2 /\ Commands(c)[i] = Command("expire", "string", NoValue)
           /\ c.cmd = "addGeo" => Commands(c)[i] = Command("geoadd", "member", c.value)
           /\ c.cmd = "existKey" => Commands(c)[i] = Command("exists", "hash", NoValue)
           /\ c.cmd = "deleteKey" => Commands(c)[i] = Command("del", "hash", NoValue)
           /\ c.cmd = "setLifecycle" => Commands(c)[i] = Command("expireat", "hash", NoValue)
           /\ c.cmd = "remZset" => Commands(c)[i] = Command("zrem", "member", NoValue)
           /\ c.cmd = "radiusGeo" => Commands(c)[i] = Command("georadius", "member", NoValue)
           /\ c.cmd \in {"setHash", "getHash", "setString", "setLimitedString", "addGeo",
                         "existKey", "deleteKey", "setLifecycle", "remZset", "radiusGeo"}
<1>1. c.cmd \in {"setHash", "getHash", "setString", "setLimitedString", "addGeo",
                 "existKey", "deleteKey", "setLifecycle", "remZset", "radiusGeo"}
  BY DEF Calls
<1>2. CASE Pipelined(c)
  <2>1. i \in 1..Len(c.fields)  BY <1>2, HashCommands
  <2>2. /\ c.cmd = "setHash" => Commands(c)[i] = Command("hset", c.fields[i], c.value)
        /\ c.cmd = "getHash" => Commands(c)[i] = Command("hget", c.fields[i], NoValue)
    BY <1>2, <2>1, HashCommands
  <2> QED  BY <1>1, <1>2, <2>2 DEF Pipelined
<1>3. CASE c.cmd = "setLimitedString"
  <2>1. Commands(c) = <<Command("set", "string", c.value), Command("expire", "string", NoValue)>>
    BY <1>3 DEF Commands
  <2>2. i \in 1..2  BY <2>1
  <2> QED  BY <1>3, <2>1, <2>2
<1>4. CASE ~Pipelined(c) /\ c.cmd # "setLimitedString"
  <2>1. Commands(c) = << Commands(c)[1] >> /\ i = 1  BY <1>1, <1>4 DEF Commands, Pipelined
  <2> QED  BY <1>1, <1>4, <2>1 DEF Commands, Pipelined
<1> QED  BY <1>2, <1>3, <1>4

\* The abstract request counts the commands.
LEMMA StepsAreCommands ==
    ASSUME NEW c \in Calls
    PROVE  Requests!Steps(c) = Len(Commands(c)) /\ Len(Commands(c)) \in Nat \ {0}
<1>1. CASE Pipelined(c)  BY <1>1, HashCommands DEF Requests!Steps, Pipelined
<1>2. CASE c.cmd = "setLimitedString"
  BY <1>2 DEF Requests!Steps, Commands
<1>3. CASE ~Pipelined(c) /\ c.cmd # "setLimitedString"
  <2>1. Len(Commands(c)) = 1  BY <1>3 DEF Calls, Commands, Pipelined
  <2> QED  BY <1>3, <2>1 DEF Requests!Steps, Pipelined
<1> QED  BY <1>1, <1>2, <1>3

\* The replies of a pipeline leave the result alone.
LEMMA PipelineIsOk ==
    ASSUME ChannelInv, Quiet, Pipelined(call), server = "run"
    PROVE  Outcome = 0
<1>1. ret = 0  BY DEF Quiet
<1>2. CASE replies # <<>>
  <2>1. Head(replies).name \in {"hset", "hget"}
    <3>1. call \in Calls  BY DEF ChannelInv, Connected
    <3>2. conn.read + 1 \in 1..Len(Commands(call))
          /\ Head(replies).name = Commands(call)[conn.read + 1].name
      BY <1>2, NextReply
    <3>3. PICK i \in 1..Len(Commands(call)) : i = conn.read + 1  BY <3>2
    <3>4. \/ Commands(call)[i] = Command("hset", call.fields[i], call.value)
          \/ Commands(call)[i] = Command("hget", call.fields[i], NoValue)
      BY <3>1, CommandOf DEF Pipelined
    <3>5. Commands(call)[i].name \in {"hset", "hget"}  BY <3>4 DEF Command
    <3> QED  BY <3>2, <3>3, <3>5
  <2> QED  BY <1>2, <2>1 DEF Outcome, RetOf
<1> QED  BY <1>1, <1>2 DEF Outcome

\* What is under way stays what the request is waiting for.
LEMMA QuietStep == ASSUME OpInv, Quiet, [OpNext]_opVars  PROVE Quiet'
<1>0. /\ ChannelInv /\ OpTypes /\ InOrder /\ Connected
      /\ conn.read \in Nat /\ appended \in Nat /\ Len(Commands(call)) \in Nat
      /\ replies \in Seq(Answers) /\ inbox \in Seq(Cmds) /\ obuf \in Seq(Cmds)
      /\ conn \in [state : {"none", "open", "broken"}, read : Nat]
  BY CommandsAreSound, NoCommands DEF OpInv, ChannelInv, OpTypes
<1>1. ASSUME NEW c \in Calls, Connect(c)  PROVE Quiet'
  <2>1. /\ server = "idle" /\ appended' = 0 /\ conn'.read = 0 /\ inbox' = inbox /\ replies' = replies
        /\ server' = "run" => ret' = 0
        /\ call' = c
    BY <1>1 DEF Connect, channel
  <2>2. appended = 0 /\ conn.state = "none"  BY <2>1 DEF OpInv, ChannelInv, Connected
  <2>3. Len(inbox) = 0 /\ Len(replies) = 0
    <3>1. Len(inbox) \in Nat /\ Len(obuf) \in Nat /\ Len(replies) \in Nat  BY <1>0
    <3>2. Executed + Len(inbox) + Len(obuf) = 0 /\ Executed = conn.read + Len(replies)
      BY <1>0, <2>2 DEF InOrder, Executed
    <3> QED  BY <1>0, <3>1, <3>2
  <2>4. inbox = <<>> /\ replies = <<>>  BY <1>0, <2>3
  <2>5. Len(Commands(c)) \in Nat  BY CommandsAreSound
  <2>6. server' \in {"run", "end"}  BY <1>1 DEF Connect
  <2> QED  BY <2>1, <2>4, <2>5, <2>6 DEF Quiet
<1>2. CASE AppendCommand
  <2>1. /\ server = "run" /\ server' = "run" /\ appended' = appended + 1
        /\ UNCHANGED <<call, ret, conn, inbox, replies>>
        /\ appended < Len(Commands(call))
        /\ Pipelined(call) \/ appended = conn.read
    BY <1>2 DEF AppendCommand
  <2> QED  BY <1>0, <2>1 DEF Quiet, Pipelined
<1>3. CASE Flush
  <2>1. /\ server = "run" /\ UNCHANGED <<server, call, ret, conn, appended, replies>>
        /\ Pipelined(call) => appended = Len(Commands(call))
    BY <1>3 DEF Flush, handler
  <2> QED  BY <1>0, <2>1 DEF Quiet, Pipelined
<1>4. CASE GetReply
  <2>1. /\ server = "run" /\ replies # <<>> /\ replies' = Tail(replies) /\ ret' = RetOf(Head(replies))
        /\ conn' = [conn EXCEPT !.read = @ + 1]
        /\ server' = IF conn.read + 1 = Len(Commands(call)) THEN "end" ELSE "run"
        /\ UNCHANGED <<call, appended, inbox, obuf>>
    BY <1>4 DEF GetReply
  <2>2. conn'.read = conn.read + 1 /\ conn'.state = conn.state  BY <1>0, <2>1
  <2>3. Len(replies') = Len(replies) - 1 /\ Len(replies) \in Nat \ {0} /\ replies' \in Seq(Answers)
    BY <1>0, <2>1
  <2>4. ASSUME server' = "end"  PROVE inbox = <<>> /\ replies' = <<>>
    <3>1. conn.read + 1 = Len(Commands(call))  BY <2>1, <2>4
    <3>2. Executed <= appended /\ appended <= Len(Commands(call))
      BY <1>0 DEF InOrder, OpTypes
    <3>3. Len(replies') = 0  BY <1>0, <2>3, <3>1, <3>2 DEF Executed
    <3>4. CASE conn.state = "broken"  BY <1>0, <2>3, <3>3, <3>4 DEF InOrder
    <3>5. CASE conn.state # "broken"
      <4>1. Executed + Len(inbox) + Len(obuf) = appended  BY <1>0, <3>5 DEF InOrder
      <4>2. Len(inbox) \in Nat /\ Len(obuf) \in Nat  BY <1>0
      <4>3. Len(inbox) = 0  BY <1>0, <2>3, <3>1, <3>2, <4>1, <4>2 DEF Executed
      <4> QED  BY <1>0, <2>3, <3>3, <4>3
    <3> QED  BY <3>4, <3>5
  <2>5. ASSUME Pipelined(call)  PROVE ret' = 0 /\ appended = Len(Commands(call))
    <3>1. Outcome = 0  BY <1>0, <2>1, <2>5, PipelineIsOk
    <3>2. appended <= Len(Commands(call))  BY <1>0 DEF OpTypes
    <3> QED  BY <1>0, <2>1, <2>5, <3>1, <3>2 DEF Outcome, Quiet
  <2>6. server' \in {"run", "end"}  BY <2>1
  <2> QED  BY <1>0, <2>1, <2>2, <2>4, <2>5, <2>6 DEF Quiet, Pipelined
<1>5. CASE NoReply
  <2>1. /\ conn.state = "broken" /\ replies = <<>> /\ server' \in {"end", "down"}
        /\ UNCHANGED <<call, conn, appended, inbox, replies>>
    BY <1>5 DEF NoReply, AfterNoReply, channel
  <2>2. inbox = <<>>  BY <1>0, <2>1 DEF InOrder
  <2> QED  BY <2>1, <2>2 DEF Quiet, Pipelined
<1>6. CASE AppendFails
  <2>1. /\ server = "run" /\ Pipelined(call) /\ appended < Len(Commands(call)) /\ server' = "end"
        /\ UNCHANGED <<call, conn, appended, inbox, replies>>
    BY <1>6 DEF AppendFails, channel
  <2> QED  BY <2>1 DEF Quiet, Pipelined
<1>7. CASE Disconnect \/ StartUp
  <2>1. server' = "idle" /\ call' = NoCall /\ appended' = 0 /\ conn'.read = 0
    BY <1>7 DEF Disconnect, StartUp
  <2> QED  BY <2>1 DEF Quiet
<1>8. CASE Execute
  <2>1. /\ inbox # <<>> /\ conn.state = "open" /\ inbox' = Tail(inbox)
        /\ UNCHANGED <<server, call, ret, values, conn, appended>>
    BY <1>8 DEF Execute, handler
  <2>2. server \notin {"end", "down"}  BY <2>1 DEF Quiet
  <2>3. ~(server = "run" /\ Pipelined(call) /\ appended < Len(Commands(call)))
    BY <2>1 DEF Quiet
  <2> QED  BY <2>1, <2>2, <2>3 DEF Quiet, Pipelined
<1>9. CASE Expire \/ UNCHANGED opVars
  <2>1. UNCHANGED <<server, call, ret, conn, appended, inbox, replies>>
    BY <1>9 DEF Expire, handler, channel, opVars
  <2> QED  BY <2>1 DEF Quiet, Pipelined
<1>10. CASE Break
  <2>1. /\ conn.state = "open" /\ conn' = [conn EXCEPT !.state = "broken"] /\ inbox' = <<>>
        /\ UNCHANGED <<server, call, ret, appended>>
    BY <1>10 DEF Break
  <2>2. PICK n \in 0..Len(replies) : replies' = SubSeq(replies, 1, n)  BY <1>10 DEF Break
  <2>3. conn'.read = conn.read  BY <1>0, <2>1
  <2>4. replies = <<>> => replies' = <<>>
    <3>1. ASSUME replies = <<>>  PROVE replies' = <<>>
      <4>1. n = 0  BY <3>1
      <4>2. replies' \in Seq(Answers) /\ Len(replies') = 0  BY <1>0, <2>2, <4>1
      <4> QED  BY <4>2
    <3> QED  BY <3>1
  <2> QED  BY <2>1, <2>3, <2>4 DEF Quiet, Pipelined
<1> QED
  BY <1>1, <1>2, <1>3, <1>4, <1>5, <1>6, <1>7, <1>8, <1>9, <1>10 DEF OpNext, HandlerStep

-----------------------------------------------------------------------------
LEMMA OutcomeType == ASSUME ServeInv  PROVE Outcome \in {0, -1}
<1>1. ret \in {0, -1}  BY DEF ServeInv, OpInv, ChannelInv, OpTypes
<1> QED  BY <1>1 DEF Outcome, RetOf

\* The same, of the state after a step
LEMMA PipelineHasOk == ServeInv /\ Pipelined(call) /\ server = "run" => Outcome = 0
BY PipelineIsOk DEF ServeInv, OpInv

LEMMA PipelineStaysOk ==
    ASSUME ServeInv', Pipelined(call'), server' = "run"
    PROVE  Outcome' = 0
<1>1. (ServeInv /\ Pipelined(call) /\ server = "run" => Outcome = 0)'
  BY PipelineHasOk, PTL
<1> QED  BY <1>1

\* A single command waits for its reply.
LEMMA OneByOne ==
    ASSUME ServeInv, ~Pipelined(call), server = "run"
    PROVE  /\ replies # <<>> => inbox = <<>> /\ Len(replies) = 1
           /\ inbox # <<>> => replies = <<>>
<1>1. /\ conn.read \in Nat /\ appended \in Nat /\ Len(inbox) \in Nat
      /\ Len(obuf) \in Nat /\ Len(replies) \in Nat /\ replies \in Seq(Answers) /\ inbox \in Seq(Cmds)
      /\ InOrder /\ appended <= conn.read + 1
  BY CommandsAreSound, NoCommands DEF ServeInv, Quiet, OpInv, ChannelInv, OpTypes
<1>2. conn.state # "broken" => conn.read + Len(replies) + Len(inbox) <= conn.read + 1
  BY <1>1 DEF InOrder, Executed
<1>3. conn.read + Len(replies) <= conn.read + 1  BY <1>1 DEF InOrder, Executed
<1>4. conn.state = "broken" => inbox = <<>>  BY <1>1 DEF InOrder
<1>5. /\ replies # <<>> => Len(replies) > 0
      /\ inbox # <<>> => Len(inbox) > 0
  BY <1>1
<1>6. /\ Len(replies) > 0 => Len(replies) = 1 /\ (conn.state = "broken" \/ Len(inbox) = 0)
      /\ Len(inbox) > 0 => conn.state = "broken" \/ Len(replies) = 0
  <2>1. PICK l \in Nat, k \in Nat, d \in Nat :
                l = Len(replies) /\ k = Len(inbox) /\ d = conn.read
    BY <1>1
  <2>2. d + l <= d + 1 /\ (conn.state # "broken" => d + l + k <= d + 1)
    BY <1>2, <1>3, <2>1
  <2>3. (l > 0 => l = 1 /\ (conn.state = "broken" \/ k = 0)) /\ (k > 0 => conn.state = "broken" \/ l = 0)
    BY <2>2
  <2> QED  BY <2>1, <2>3
<1>7. /\ Len(inbox) = 0 => inbox = <<>>
      /\ Len(replies) = 0 => replies = <<>>
  BY <1>1
<1> QED  BY <1>4, <1>5, <1>6, <1>7

LEMMA InitServes == OpInit => Quiet /\ Requests!Init
<1> SUFFICES ASSUME OpInit  PROVE Quiet /\ Requests!Init
  OBVIOUS
<1>1. Executed = 0 /\ Outcome = 0  BY DEF OpInit, Executed, Outcome
<1>2. Quiet  BY NoCommands DEF OpInit, Quiet
<1> QED  BY <1>1, <1>2 DEF OpInit, Requests!Init, Place

LEMMA ConnectAccepts ==
    ASSUME ServeInv, ServeInv', NEW c \in Calls, Connect(c)
    PROVE  Requests!Accept(c)
<1>1. /\ server = "idle" /\ call' = c
      /\ \/ conn' = [state |-> "open", read |-> 0] /\ server' = "run" /\ ret' = 0
         \/ conn' = [state |-> "none", read |-> 0] /\ server' = "end" /\ ret' = -1
      /\ UNCHANGED <<replies, store, volatile, inbox>>
  BY DEF Connect, channel, redis
<1>2. replies' = <<>>
  BY <1>1 DEF ServeInv, OpInv, ChannelInv, InOrder, OpTypes, Connected, Quiet, Executed
<1>3. conn'.read = 0 /\ conn'.state \in {"open", "none"}
      /\ (server' = "run" => conn'.state = "open") /\ (server' = "end" => conn'.state = "none")
  BY <1>1
<1>4. Executed' = 0 /\ Outcome' = ret'  BY <1>2, <1>3 DEF Executed, Outcome
<1> QED  BY <1>1, <1>3, <1>4 DEF Requests!Accept

\* The buffer is the pipeline's own affair.
LEMMA BufferStutters ==
    ASSUME AppendCommand \/ Flush \/ UNCHANGED opVars
    PROVE  UNCHANGED Requests!requestVars
<1>1. UNCHANGED <<server, call, ret, conn, replies, store, volatile>>
  BY DEF AppendCommand, Flush, opVars, handler, redis, channel
<1>2. UNCHANGED Executed /\ UNCHANGED Outcome  BY <1>1 DEF Executed, Outcome, RetOf
<1> QED  BY <1>1, <1>2 DEF Requests!requestVars

LEMMA ReplyEnds ==
    ASSUME ServeInv, ServeInv', GetReply
    PROVE  Requests!End \/ UNCHANGED Requests!requestVars
<1>1. /\ server = "run" /\ replies # <<>> /\ replies' = Tail(replies) /\ ret' = RetOf(Head(replies))
      /\ conn' = [conn EXCEPT !.read = @ + 1]
      /\ server' = IF conn.read + 1 = Len(Commands(call)) THEN "end" ELSE "run"
      /\ UNCHANGED <<call, store, volatile>>
  BY DEF GetReply, redis
<1>2. /\ conn.read \in Nat /\ Len(replies) \in Nat \ {0} /\ Len(replies') = Len(replies) - 1
      /\ conn'.read = conn.read + 1 /\ conn'.state = conn.state
      /\ call \in Calls /\ replies' \in Seq(Answers)
  BY <1>1 DEF ServeInv, OpInv, ChannelInv, OpTypes, Connected
<1>3. Executed' = Executed /\ Executed >= conn.read + 1 /\ Executed \in Nat
  BY <1>2 DEF Executed
<1>4. Outcome' = Outcome
  <2>1. Outcome = ret'  BY <1>1 DEF Outcome
  <2>2. CASE replies' = <<>>  BY <2>1, <2>2 DEF Outcome
  <2>3. CASE replies' # <<>>
    <3>1. server' = "run"  BY <1>1, <2>3 DEF ServeInv, Quiet
    <3>2. Pipelined(call)  BY <1>1, <1>2, <2>3, OneByOne
    <3>3. Outcome = 0  BY <1>1, <3>2, PipelineIsOk DEF ServeInv, OpInv
    <3>4. Outcome' = 0  BY <1>1, <3>1, <3>2, PipelineStaysOk
    <3> QED  BY <3>3, <3>4
  <2> QED  BY <2>2, <2>3
<1>5. CASE server' = "run"
  BY <1>1, <1>2, <1>3, <1>4, <1>5 DEF Requests!requestVars
<1>6. CASE server' = "end"
  <2>1. Requests!Steps(call) = conn.read + 1  BY <1>1, <1>2, <1>6, StepsAreCommands
  <2>2. Executed + 1 > Requests!Steps(call)  BY <1>2, <1>3, <2>1
  <2> QED  BY <1>1, <1>2, <1>3, <1>4, <1>6, <2>2 DEF Requests!End
<1> QED  BY <1>1, <1>5, <1>6

LEMMA GivingUpEnds ==
    ASSUME ServeInv, NoReply \/ AppendFails
    PROVE  Requests!End
<1>1. /\ server = "run" /\ ret' = -1
      /\ UNCHANGED <<call, conn, replies, store, volatile>>
  BY DEF NoReply, AppendFails, channel, redis
<1>2. replies = <<>>
  BY DEF NoReply, AppendFails, ServeInv, Quiet
<1>3. UNCHANGED Executed /\ Outcome' = -1  BY <1>1, <1>2 DEF Executed, Outcome
<1>4. CASE NoReply
  <2>1. conn.state = "broken" /\ server' \in {"end", "down"}
    BY <1>4 DEF NoReply, AfterNoReply
  <2> QED  BY <1>1, <1>3, <2>1 DEF Requests!End
<1>5. CASE AppendFails
  <2>1. conn.read = 0 /\ server' = "end"  BY <1>5 DEF AppendFails, ServeInv, Quiet
  <2>2. Executed + 1 = 1  BY <1>2, <2>1 DEF Executed
  <2> QED  BY <1>1, <1>3, <2>1, <2>2 DEF Requests!End
<1> QED  BY <1>4, <1>5

LEMMA LeavingLeaves ==
    ASSUME ServeInv, Disconnect \/ StartUp
    PROVE  Requests!Leave
<1>1. /\ server \in {"end", "down"} /\ server' = "idle" /\ call' = NoCall
      /\ conn' = [state |-> "none", read |-> 0] /\ replies' = <<>>
      /\ UNCHANGED <<ret, store, volatile>>
  BY DEF Disconnect, StartUp, redis
<1>2. replies = <<>>  BY <1>1 DEF ServeInv, Quiet
<1>3. conn'.read = 0 /\ conn'.state = "none"  BY <1>1
<1>4. Executed' = 0 /\ Outcome' = Outcome  BY <1>1, <1>2, <1>3 DEF Executed, Outcome
<1> QED  BY <1>1, <1>3, <1>4 DEF Requests!Leave

LEMMA BreakBreaks == ASSUME ServeInv, Break  PROVE Requests!Break
<1>1. /\ conn.state = "open" /\ conn' = [conn EXCEPT !.state = "broken"]
      /\ UNCHANGED <<server, call, ret, store, volatile>>
  BY DEF Break, redis
<1>2. PICK n \in 0..Len(replies) : replies' = SubSeq(replies, 1, n)  BY DEF Break
<1>3. /\ replies \in Seq(Answers) /\ conn.read \in Nat /\ Len(replies) \in Nat
      /\ conn'.read = conn.read /\ conn'.state = "broken" /\ ret \in {0, -1}
  BY <1>1 DEF ServeInv, OpInv, ChannelInv, OpTypes
<1>4. n \in Nat /\ n <= Len(replies) /\ replies' \in Seq(Answers) /\ Len(replies') = n
      /\ \A i \in 1..n : replies'[i] = replies[i]
  BY <1>2, <1>3
<1>5. n > 0 => Outcome' = Outcome
  <2>1. ASSUME n > 0  PROVE Outcome' = Outcome
    <3>1. Head(replies') = Head(replies) /\ replies # <<>> /\ replies' # <<>>
      BY <1>3, <1>4, <2>1
    <3> QED  BY <1>1, <3>1 DEF Outcome, RetOf
  <2> QED  BY <2>1
<1>6. n = 0 => Outcome' = ret
  BY <1>1, <1>4 DEF Outcome
<1>7. Outcome' \in {0, -1}  BY <1>3, <1>4, <1>5, <1>6, OutcomeType
<1>8. Executed' = conn.read + n /\ Executed = conn.read + Len(replies)
  BY <1>3, <1>4 DEF Executed
<1>9. CASE n = Len(replies)
  <2>1. Outcome' = Outcome
    <3>1. n = 0 => replies = <<>>
      <4>1. Len(replies) = 0 => replies = <<>>  BY <1>3
      <4> QED  BY <1>9, <4>1
    <3>2. n = 0 => Outcome = ret  BY <3>1 DEF Outcome
    <3> QED  BY <1>4, <1>5, <1>6, <3>2
  <2> QED  BY <1>1, <1>3, <1>8, <1>9, <2>1 DEF Requests!Break
<1>10. CASE n # Len(replies)
  <2>1. Len(replies) > 0 /\ Executed' + 1 \in 1..((Executed + 1) - 1)
    BY <1>3, <1>4, <1>8, <1>10
  <2>2. server = "run"
    BY <1>1, <1>3, <2>1 DEF ServeInv, Quiet, OpInv, ChannelInv, OpTypes, Connected
  <2> QED  BY <1>1, <1>3, <1>7, <2>1, <2>2 DEF Requests!Break
<1> QED  BY <1>9, <1>10

LEMMA ExpireExpires == ASSUME ServeInv, Expire  PROVE Requests!Expire
<1>1. /\ volatile /\ store' = Cleared /\ volatile' = FALSE
      /\ UNCHANGED <<server, call, ret, conn, replies>>
  BY DEF Expire, handler, channel
<1>2. UNCHANGED Executed /\ UNCHANGED Outcome  BY <1>1 DEF Executed, Outcome, RetOf
<1>3. DOMAIN store = Place  BY DEF ServeInv, OpInv, ChannelInv, OpTypes
<1> QED  BY <1>1, <1>2, <1>3 DEF Requests!Expire, Requests!DropHash, Cleared

\* What a command did, and the reply to it
Did(c, r) ==
    /\ r.name = c.name
    /\ \/ /\ c.name \in {"hset", "set", "geoadd", "zrem", "del", "expireat", "expire"}
          /\ Refusing /\ r.type = "error" /\ r.integer = 0 /\ UNCHANGED redis
       \/ /\ c.name \in {"hset", "set", "geoadd"}
          /\ r.type = IF c.name = "set" THEN "status" ELSE "integer"
          /\ store' = [store EXCEPT ![c.place] = c.value] /\ volatile' = volatile
       \/ c.name = "zrem" /\ store' = [store EXCEPT !["member"] = NoValue] /\ volatile' = volatile
       \/ /\ c.name \in {"del", "expireat", "exists"}
          /\ r.type = "integer" /\ r.integer = IF HashThere THEN 1 ELSE 0
          /\ \/ c.name = "del" /\ store' = Cleared /\ volatile' = FALSE
             \/ c.name = "expireat" /\ store' = store /\ volatile' = HashThere
             \/ c.name = "exists" /\ UNCHANGED redis
       \/ c.name = "georadius" /\ r.type = "array" /\ UNCHANGED redis
       \/ c.name \in {"expire", "hget"} /\ UNCHANGED redis

LEMMA ExecuteDoes ==
    ASSUME Execute
    PROVE  \E r : replies' = Append(replies, r) /\ Did(Head(inbox), r)
<1> DEFINE c == Head(inbox)
<1>1. CASE Write(c)  BY <1>1 DEF Write, Did, Reply
<1>2. CASE Refuse(c)  BY <1>2 DEF Refuse, Did, Reply
<1>3. CASE ReadOnly(c)  BY <1>3 DEF ReadOnly, Did, Reply
<1> QED  BY <1>1, <1>2, <1>3 DEF Execute

\* What Redis does with the next command is the next step of the request.
LEMMA ExecuteServes ==
    ASSUME ServeInv, ServeInv', Execute
    PROVE  Requests!Serve
<1> DEFINE n == Executed + 1
           c == Head(inbox)
<1>1. /\ inbox # <<>> /\ conn.state = "open"
      /\ UNCHANGED <<server, call, ret, conn>>
  BY DEF Execute, handler
<1>2. server = "run"
  BY <1>1 DEF ServeInv, Quiet, OpInv, ChannelInv, OpTypes, Connected
<1>3. /\ call \in Calls /\ n \in 1..Len(Commands(call)) /\ c = Commands(call)[n]
      /\ Executed \in Nat
  BY <1>1, NextCommand DEF ServeInv, OpInv
<1>4. Requests!Steps(call) = Len(Commands(call))  BY <1>3, StepsAreCommands
<1>5. PICK r : replies' = Append(replies, r) /\ Did(c, r)
  BY ExecuteDoes
<1>6. replies \in Seq(Answers) /\ replies' \in Seq(Answers) /\ conn.read \in Nat /\ Len(replies) \in Nat
      /\ DOMAIN store = Place
  BY DEF ServeInv, OpInv, ChannelInv, OpTypes
<1>7. Executed' = Executed + 1
  <2>1. Len(replies') = Len(replies) + 1  BY <1>5, <1>6
  <2> QED  BY <1>1, <1>6, <2>1 DEF Executed
<1>8. Pipelined(call) => Outcome = 0 /\ Outcome' = 0
  BY <1>1, <1>2, PipelineHasOk, PipelineStaysOk
<1>9. ASSUME ~Pipelined(call)  PROVE Outcome = ret /\ Outcome' = RetOf(r) /\ n = conn.read + 1
  <2>1. replies = <<>>  BY <1>1, <1>2, <1>9, OneByOne
  <2>2. replies' # <<>> /\ Head(replies') = r  BY <1>5, <2>1
  <2>3. Outcome = ret  BY <2>1 DEF Outcome
  <2>4. Outcome' = RetOf(r)  BY <1>1, <2>2 DEF Outcome, RetOf
  <2>5. Executed = conn.read  BY <1>6, <2>1 DEF Executed
  <2> QED  BY <2>3, <2>4, <2>5
<1>10. n = 1 /\ ~Pipelined(call) => ret = 0
  <2>1. ASSUME n = 1, ~Pipelined(call)  PROVE ret = 0
    <3>1. conn.read = 0  BY <1>6, <1>9, <2>1
    <3> QED  BY <1>2, <3>1 DEF ServeInv, Quiet
  <2> QED  BY <2>1
<1>11. Requests!Change \/ Requests!Refuse
  <2>1. CASE call.cmd = "setHash"
    <3>1. c = Command("hset", call.fields[n], call.value)  BY <1>3, <2>1, CommandOf
    <3>2. Outcome' = Outcome  BY <1>8, <2>1 DEF Pipelined
    <3> QED  BY <1>5, <2>1, <3>1, <3>2
             DEF Did, Command, redis, Requests!Change, Requests!Put, Requests!Refuse,
                 Requests!Silent
  <2>2. CASE call.cmd = "getHash"
    <3>1. c = Command("hget", call.fields[n], NoValue)  BY <1>3, <2>2, CommandOf
    <3>2. Outcome' = Outcome  BY <1>8, <2>2 DEF Pipelined
    <3> QED  BY <1>5, <2>2, <3>1, <3>2 DEF Did, Command, redis, Requests!Change
  <2>3. CASE call.cmd \in {"setString", "setLimitedString"} /\ n = 1
    <3>1. c = Command("set", "string", call.value)  BY <1>3, <2>3, CommandOf
    <3>2. Outcome = 0 /\ Outcome' = RetOf(r)  BY <1>9, <1>10, <2>3 DEF Pipelined
    <3>3. r.name = "set"  BY <1>5, <3>1 DEF Did, Command
    <3>4. Outcome' = IF r.type = "status" THEN 0 ELSE -1  BY <3>2, <3>3 DEF RetOf
    <3> QED  BY <1>5, <2>3, <3>1, <3>2, <3>4
             DEF Did, Command, redis, Requests!Change, Requests!Put, Requests!FirstOfString,
                 Requests!Refuse, Requests!Silent
  <2>4. CASE call.cmd = "setLimitedString" /\ n # 1
    <3>1. n = 2 /\ c = Command("expire", "string", NoValue)
      BY <1>3, <2>4, CommandOf DEF Command
    <3>2. Outcome = ret /\ Outcome' = RetOf(r)  BY <1>9, <2>4 DEF Pipelined
    <3>3. r.name = "expire"  BY <1>5, <3>1 DEF Did, Command
    <3>4. Outcome' = Outcome  BY <3>2, <3>3 DEF RetOf
    <3> QED  BY <1>5, <2>4, <3>1, <3>4
             DEF Did, Command, redis, Requests!Change, Requests!Refuse, Requests!Silent
  <2>5. CASE call.cmd = "addGeo"
    <3>1. c = Command("geoadd", "member", call.value)  BY <1>3, <2>5, CommandOf
    <3>2. Outcome = 0 /\ Outcome' = RetOf(r)
      <4>1. n = 1  BY <1>3, <2>5, SingleCommands DEF Single
      <4> QED  BY <1>9, <1>10, <2>5, <4>1 DEF Pipelined
    <3>3. r.name = "geoadd"  BY <1>5, <3>1 DEF Did, Command
    <3>4. Outcome' = IF r.type = "integer" THEN 0 ELSE -1  BY <3>2, <3>3 DEF RetOf
    <3> QED  BY <1>5, <2>5, <3>1, <3>2, <3>4
             DEF Did, Command, redis, Requests!Change, Requests!Put, Requests!Refuse,
                 Requests!Silent
  <2>6. CASE call.cmd \in {"remZset", "radiusGeo", "deleteKey", "setLifecycle", "existKey"}
    <3>1. n = 1
      <4>1. Len(Commands(call)) = 1  BY <2>6 DEF Commands
      <4> QED  BY <1>3, <4>1
    <3>2. Outcome = 0 /\ Outcome' = RetOf(r)  BY <1>9, <1>10, <2>6, <3>1 DEF Pipelined
    <3>3. CASE call.cmd = "remZset"
      <4>1. c = Command("zrem", "member", NoValue)  BY <1>3, <3>3, CommandOf
      <4>2. r.name = "zrem"  BY <1>5, <4>1 DEF Did, Command
      <4>3. Outcome' = Outcome  BY <3>2, <4>2 DEF RetOf
      <4> QED  BY <1>5, <3>3, <4>1, <4>3
               DEF Did, Command, redis, Requests!Change, Requests!Refuse, Requests!Silent
    <3>4. CASE call.cmd = "radiusGeo"
      <4>1. c = Command("georadius", "member", NoValue)  BY <1>3, <3>4, CommandOf
      <4>2. r.name = "georadius" /\ r.type = "array"  BY <1>5, <4>1 DEF Did, Command
      <4>3. Outcome' = Outcome  BY <3>2, <4>2 DEF RetOf
      <4> QED  BY <1>5, <3>4, <4>1, <4>3 DEF Did, Command, redis, Requests!Change
    <3>5. CASE call.cmd \in {"deleteKey", "setLifecycle", "existKey"}
      <4>1. \/ call.cmd = "deleteKey" /\ c = Command("del", "hash", NoValue)
            \/ call.cmd = "setLifecycle" /\ c = Command("expireat", "hash", NoValue)
            \/ call.cmd = "existKey" /\ c = Command("exists", "hash", NoValue)
        BY <1>3, <3>5, CommandOf
      <4>8. r.name \in {"del", "expireat", "exists"}  BY <1>5, <4>1 DEF Did, Command
      <4>9. CASE r.type = "error" /\ r.integer = 0 /\ Refusing /\ UNCHANGED redis
                 /\ call.cmd # "existKey"
        <5>1. Outcome' = -1  BY <3>2, <4>8, <4>9, <4>1, <1>5 DEF RetOf, Did, Command
        <5> QED  BY <3>5, <4>9, <5>1 DEF redis, Requests!Refuse, Requests!Silent
      <4> SUFFICES ASSUME ~(r.type = "error" /\ r.integer = 0 /\ Refusing /\ UNCHANGED redis
                            /\ call.cmd # "existKey")
                   PROVE  Requests!Change
        BY <4>9
      <4>2. r.type = "integer" /\ r.integer = IF HashThere THEN 1 ELSE 0
        BY <1>5, <4>1 DEF Did, Command
      <4>3. Outcome' = IF HashThere THEN 0 ELSE -1  BY <3>2, <4>2, <4>8 DEF RetOf
      <4>4. Requests!Told(Requests!There)
        BY <4>3 DEF Requests!Told, Requests!There, HashThere
      <4>5. /\ call.cmd = "deleteKey" => store' = Cleared /\ volatile' = FALSE
            /\ call.cmd = "setLifecycle" => store' = store /\ volatile' = HashThere
            /\ call.cmd = "existKey" => UNCHANGED <<store, volatile>>
        BY <1>5, <4>1 DEF Did, Command, redis
      <4>6. Cleared = [p \in DOMAIN store |-> IF p \in Field THEN NoValue ELSE store[p]]
        BY <1>6 DEF Cleared
      <4>7. Requests!There = HashThere  BY DEF Requests!There, HashThere
      <4> QED  BY <3>5, <4>4, <4>5, <4>6, <4>7 DEF Requests!Change, Requests!DropHash
    <3> QED  BY <2>6, <3>3, <3>4, <3>5
  <2> QED  BY <1>3, <2>1, <2>2, <2>3, <2>4, <2>5, <2>6, CommandOf
<1> QED  BY <1>1, <1>2, <1>3, <1>4, <1>7, <1>11 DEF Requests!Serve

LEMMA NextServes ==
    ASSUME ServeInv, ServeInv', [OpNext]_opVars
    PROVE  [Requests!Next]_(Requests!requestVars)
<1>1. ASSUME NEW c \in Calls, Connect(c)  PROVE Requests!Next
  BY <1>1, ConnectAccepts DEF Requests!Next
<1>2. CASE AppendCommand \/ Flush \/ UNCHANGED opVars
  <2>1. UNCHANGED Requests!requestVars  BY <1>2, BufferStutters
  <2> QED  BY <2>1
<1>3. CASE GetReply
  <2>1. Requests!End \/ UNCHANGED Requests!requestVars  BY <1>3, ReplyEnds
  <2> QED  BY <2>1 DEF Requests!Next
<1>4. CASE NoReply \/ AppendFails  BY <1>4, GivingUpEnds DEF Requests!Next
<1>5. CASE Disconnect \/ StartUp  BY <1>5, LeavingLeaves DEF Requests!Next
<1>6. CASE Execute  BY <1>6, ExecuteServes DEF Requests!Next
<1>7. CASE Expire  BY <1>7, ExpireExpires DEF Requests!Next
<1>8. CASE Break  BY <1>8, BreakBreaks DEF Requests!Next
<1> QED
  BY <1>1, <1>2, <1>3, <1>4, <1>5, <1>6, <1>7, <1>8 DEF OpNext, HandlerStep

LEMMA ServeInvHolds == OpSpec => []ServeInv
<1>1. OpInit => ServeInv  BY OpInit_Inv, InitServes DEF ServeInv
<1>2. ServeInv /\ [OpNext]_opVars => ServeInv'
  BY OpInvStep, QuietStep DEF ServeInv
<1> QED  BY <1>1, <1>2, PTL DEF OpSpec

\* However its commands are buffered, sent and answered, and wherever the connection
\* breaks, a function of redis_op.cpp is one request of CacheRequest: its steps are
\* executed in their order, each once at most, none after it has ended, and its ok is
\* the one the replies it has read account for (redis_op.cpp:333-356, 370-399;
\* deal_cache.c:22, 94-99, 366).
THEOREM ServesRequests == OpSpec => RequestSpec
<1>1. OpInit => Requests!Init  BY InitServes
<1>2. ServeInv /\ ServeInv' /\ [OpNext]_opVars => [Requests!Next]_(Requests!requestVars)
  BY NextServes
<1> QED  BY <1>1, <1>2, ServeInvHolds, PTL DEF OpSpec, RequestSpec, Requests!Spec

-----------------------------------------------------------------------------
(* A request as the one step of DataServer                                 *)

WasThere == \E f \in Field : before[f] # NoValue

Asking == {"existKey", "deleteKey", "setLifecycle"}

\* What is executed of a request other than a setHash is done, and what is known of the
\* hash was so when the request began.
AloneInv ==
    call \in Calls /\ call.cmd # "setHash" /\ ~expired /\ ~refused =>
        /\ \E n \in Executed..Len(Commands(call)) :
              /\ store = IF n = 0 THEN before ELSE Done
              /\ conn.state # "broken" => n = Executed
        /\ call.cmd \in Asking =>
              /\ \A i \in 1..Len(replies) : replies[i].integer > 0 => WasThere
              /\ conn.read > 0 /\ ret = 0 => WasThere
        /\ call.cmd = "setLifecycle" /\ Executed > 0 /\ WasThere => volatile

\* The data server ends in the middle of a request.
EndsInCall == server = "down" => call \in Calls

LEMMA AloneInit == OpInit => AloneInv /\ EndsInCall
BY NoCommands DEF OpInit, AloneInv, EndsInCall

\* Where nothing is executed, and nothing more is known
LEMMA AloneSame ==
    ASSUME AloneInv, ServeInv,
           UNCHANGED <<call, store, before, volatile, expired, refused, conn, replies>>,
           ret' \in {ret, -1}
    PROVE  AloneInv'
<1>1. UNCHANGED <<Executed, Done, WasThere>>  BY DEF Executed, Done, WasThere
<1>2. ret' = 0 => ret = 0  OBVIOUS
<1> QED  BY <1>1, <1>2 DEF AloneInv

\* A new request has done nothing yet.
LEMMA AloneConnect == ASSUME ServeInv, ServeInv', NEW c \in Calls, Connect(c)  PROVE AloneInv'
<1>1. /\ call' = c /\ before' = store /\ store' = store /\ replies' = replies
      /\ conn'.read = 0 /\ server = "idle"
  <2>1. \/ conn' = [state |-> "open", read |-> 0]
        \/ conn' = [state |-> "none", read |-> 0]
    BY DEF Connect
  <2> QED  BY <2>1 DEF Connect, channel, redis
<1>2. replies' = <<>>
  BY <1>1 DEF ServeInv, OpInv, ChannelInv, InOrder, OpTypes, Connected, Executed
<1>3. Executed' = 0  BY <1>1, <1>2 DEF Executed
<1>4. Len(Commands(c)) \in Nat  BY CommandsAreSound
<1>5. 0 \in Executed'..Len(Commands(call'))  BY <1>1, <1>3, <1>4
<1>6. store' = before'  BY <1>1
<1> QED  BY <1>1, <1>2, <1>3, <1>5, <1>6 DEF AloneInv

\* The ok of a reply says that the hash was there.
LEMMA AloneGetReply == ASSUME ServeInv, AloneInv, GetReply  PROVE AloneInv'
<1>1. /\ server = "run" /\ replies # <<>> /\ replies' = Tail(replies) /\ ret' = RetOf(Head(replies))
      /\ conn' = [conn EXCEPT !.read = @ + 1]
      /\ UNCHANGED <<call, store, before, volatile, expired, refused>>
  BY DEF GetReply, redis
<1>2. /\ conn.read \in Nat /\ Len(replies) \in Nat \ {0} /\ Len(replies') = Len(replies) - 1
      /\ conn'.read = conn.read + 1 /\ conn'.state = conn.state
      /\ replies \in Seq(Answers)
      /\ \A i \in 1..(Len(replies) - 1) : replies'[i] = replies[i + 1]
  BY <1>1 DEF ServeInv, OpInv, ChannelInv, OpTypes
<1>3. Executed' = Executed  BY <1>2 DEF Executed
<1>4. UNCHANGED <<Done, WasThere>>  BY <1>1 DEF Done, WasThere
<1>5. ASSUME call.cmd \in Asking, call \in Calls, ret' = 0,
             \A i \in 1..Len(replies) : replies[i].integer > 0 => WasThere
      PROVE  WasThere
  <2>1. PICK r : r = Head(replies)  OBVIOUS
  <2>2. r = replies[1] /\ r.name = Commands(call)[conn.read + 1].name
        /\ conn.read + 1 \in 1..Len(Commands(call))
    BY <1>1, <2>1, NextReply DEF ServeInv, OpInv
  <2>3. PICK k \in 1..Len(Commands(call)) : k = conn.read + 1  BY <2>2
  <2>4. Commands(call)[k].name \in {"exists", "del", "expireat"}
    <3>1. \/ Commands(call)[k] = Command("exists", "hash", NoValue)
          \/ Commands(call)[k] = Command("del", "hash", NoValue)
          \/ Commands(call)[k] = Command("expireat", "hash", NoValue)
      BY <1>5, CommandOf DEF Asking
    <3> QED  BY <3>1 DEF Command
  <2>5. r.name \in {"exists", "del", "expireat"} /\ RetOf(r) = 0  BY <1>1, <1>5, <2>1, <2>2, <2>3, <2>4
  <2>6. r.integer > 0  BY <2>5 DEF RetOf
  <2> QED  BY <1>2, <1>5, <2>2, <2>6
<1> QED  BY <1>1, <1>2, <1>3, <1>4, <1>5 DEF AloneInv

\* Of what was executed less is known when replies are lost.
LEMMA AloneBreak == ASSUME ServeInv, AloneInv, Break  PROVE AloneInv'
<1>1. /\ conn.state = "open" /\ conn' = [conn EXCEPT !.state = "broken"]
      /\ UNCHANGED <<call, ret, store, before, volatile, expired, refused>>
  BY DEF Break, redis
<1>2. PICK n \in 0..Len(replies) : replies' = SubSeq(replies, 1, n)  BY DEF Break
<1>3. /\ replies \in Seq(Answers) /\ conn.read \in Nat /\ Len(replies) \in Nat
      /\ conn'.read = conn.read /\ conn'.state = "broken"
      /\ Len(Commands(call)) \in Nat
  BY <1>1, CommandsAreSound, NoCommands DEF ServeInv, OpInv, ChannelInv, OpTypes
<1>4. n \in Nat /\ n <= Len(replies) /\ Len(replies') = n
      /\ \A i \in 1..n : replies'[i] = replies[i]
  BY <1>2, <1>3
<1>5. Executed' \in Nat /\ Executed \in Nat /\ Executed' <= Executed
  BY <1>3, <1>4 DEF Executed
<1>6. UNCHANGED <<Done, WasThere>>  BY <1>1 DEF Done, WasThere
<1> QED  BY <1>1, <1>3, <1>4, <1>5, <1>6 DEF AloneInv

\* The next command brings the store from before to done.
LEMMA AloneExecute == ASSUME ServeInv, AloneInv, Execute  PROVE AloneInv'
<1> SUFFICES ASSUME call' \in Calls, call'.cmd # "setHash", ~expired', ~refused'
             PROVE  AloneInv'
  BY DEF AloneInv
<1> DEFINE c == Head(inbox)
<1>1. /\ inbox # <<>> /\ conn.state = "open"
      /\ UNCHANGED <<server, call, ret, conn, values, appended, before, expired>>
      /\ Write(c) \/ ReadOnly(c)
      /\ refused' = refused
  BY DEF Execute, handler
<1>2. PICK r : /\ replies' = Append(replies, r) /\ Did(c, r)
               /\ r.type # "error"
  BY <1>1 DEF Write, ReadOnly, Did, Reply
<1>3. /\ call \in Calls /\ Executed \in Nat /\ Executed + 1 \in 1..Len(Commands(call))
      /\ c = Commands(call)[Executed + 1]
  BY <1>1, NextCommand DEF ServeInv, OpInv
<1>4. PICK k \in 1..Len(Commands(call)) : k = Executed + 1  BY <1>3
<1>5. /\ replies \in Seq(Answers) /\ conn.read \in Nat /\ Len(replies) \in Nat
      /\ before \in [Place -> Stored] /\ store \in [Place -> Stored]
  BY DEF ServeInv, OpInv, ChannelInv, OpTypes
<1>6. Len(replies') = Len(replies) + 1 /\ replies'[Len(replies) + 1] = r
      /\ \A i \in 1..Len(replies) : replies'[i] = replies[i]
  BY <1>2, <1>5
<1>7. Executed' = Executed + 1
  <2>1. conn' = conn /\ Len(replies') = Len(replies) + 1  BY <1>1, <1>6
  <2>2. Executed' = conn.read + (Len(replies) + 1)  BY <2>1 DEF Executed
  <2>3. conn.read \in Nat /\ Len(replies) \in Nat  BY <1>5
  <2> QED  BY <2>2, <2>3 DEF Executed
<1>8. UNCHANGED <<Done, WasThere>>  BY <1>1 DEF Done, WasThere
<1>9. store = IF Executed = 0 THEN before ELSE Done
  BY <1>1, <1>3 DEF AloneInv
<1>10. call.cmd # "getHash" /\ call.cmd # "setLimitedString" => k = 1 /\ Executed = 0
  <2>1. ASSUME call.cmd # "getHash", call.cmd # "setLimitedString"  PROVE Len(Commands(call)) = 1
    <3>1. call.cmd # "setHash"  BY <1>1
    <3>2. CASE ~Pipelined(call)  BY <1>3, <2>1, <3>2 DEF Calls, Commands, Pipelined
    <3> QED  BY <2>1, <3>1, <3>2 DEF Pipelined
  <2> QED  BY <1>3, <1>4, <2>1
<1>11. /\ store' = Done
       /\ call.cmd = "setLifecycle" => volatile' = HashThere
       /\ call.cmd \in Asking => r.integer = IF HashThere THEN 1 ELSE 0
  <2>1. CASE call.cmd \in {"getHash", "radiusGeo", "existKey", "setLifecycle"}
    <3>1. Done = before /\ store = before  BY <1>9, <2>1 DEF Done
    <3>2. /\ call.cmd = "getHash" => c = Command("hget", call.fields[k], NoValue)
          /\ call.cmd = "radiusGeo" => c = Command("georadius", "member", NoValue)
          /\ call.cmd = "existKey" => c = Command("exists", "hash", NoValue)
          /\ call.cmd = "setLifecycle" => c = Command("expireat", "hash", NoValue)
      BY <1>3, <1>4, CommandOf
    <3>3. c.name \in {"hget", "georadius", "exists", "expireat"}
          /\ (call.cmd = "setLifecycle" => c.name = "expireat")
          /\ (call.cmd = "existKey" => c.name = "exists")
          /\ (call.cmd \in Asking => c.name \in {"exists", "expireat"})
      BY <2>1, <3>2 DEF Command, Asking
    <3> QED  BY <1>2, <3>1, <3>3 DEF Did, redis
  <2>2. CASE call.cmd \in {"setString", "setLimitedString"}
    <3>1. Done = [before EXCEPT !["string"] = call.value]  BY <2>2 DEF Done
    <3>2. \/ k = 1 /\ c = Command("set", "string", call.value)
          \/ k = 2 /\ c = Command("expire", "string", NoValue)
      BY <1>3, <1>4, <2>2, CommandOf
    <3>3. CASE k = 1
      <4>1. c = Command("set", "string", call.value)
        BY <1>3, <1>4, <2>2, <3>3, <3>2 DEF Command
      <4>2. store = before  BY <1>4, <1>9, <1>3, <3>3
      <4> QED  BY <1>2, <2>2, <3>1, <4>1, <4>2 DEF Did, Command, Asking
    <3>4. CASE k # 1
      <4>1. c.name = "expire"  BY <2>2, <3>4, <3>2 DEF Command
      <4>2. store = Done  BY <1>3, <1>4, <1>9, <3>4
      <4> QED  BY <1>2, <2>2, <4>1, <4>2 DEF Did, redis, Asking
    <3> QED  BY <3>3, <3>4
  <2>3. CASE call.cmd = "addGeo"
    <3>1. Done = [before EXCEPT !["member"] = call.value] /\ store = before
      BY <1>9, <1>10, <2>3 DEF Done
    <3>2. c = Command("geoadd", "member", call.value)  BY <1>3, <1>4, <2>3, CommandOf
    <3> QED  BY <1>2, <2>3, <3>1, <3>2 DEF Did, Command, Asking
  <2>4. CASE call.cmd = "remZset"
    <3>1. Done = [before EXCEPT !["member"] = NoValue] /\ store = before
      BY <1>9, <1>10, <2>4 DEF Done
    <3>2. c = Command("zrem", "member", NoValue)  BY <1>3, <1>4, <2>4, CommandOf
    <3> QED  BY <1>2, <2>4, <3>1, <3>2 DEF Did, Command, Asking
  <2>5. CASE call.cmd = "deleteKey"
    <3>1. Done = Cleared /\ store = before
      BY <1>9, <1>10, <2>5 DEF Done, Cleared
    <3>2. c = Command("del", "hash", NoValue)  BY <1>3, <1>4, <2>5, CommandOf
    <3> QED  BY <1>2, <2>5, <3>1, <3>2 DEF Did, Command
  <2> QED  BY <1>1, <1>3, <1>4, <2>1, <2>2, <2>3, <2>4, <2>5, CommandOf
<1>12. call.cmd \in Asking => HashThere = WasThere
  BY <1>9, <1>10 DEF Asking, HashThere, WasThere
<1>13. \E n \in Executed'..Len(Commands(call')) :
          /\ store' = IF n = 0 THEN before' ELSE Done'
          /\ conn'.state # "broken" => n = Executed'
  <2>1. k \in Executed'..Len(Commands(call')) /\ k = Executed' /\ k # 0
    BY <1>1, <1>3, <1>4, <1>7
  <2> QED  BY <1>8, <1>11, <2>1
<1>14. ASSUME call.cmd \in Asking
       PROVE  /\ \A i \in 1..Len(replies') : replies'[i].integer > 0 => WasThere
              /\ conn.read > 0 /\ ret = 0 => WasThere
  <2>1. /\ \A i \in 1..Len(replies) : replies[i].integer > 0 => WasThere
        /\ conn.read > 0 /\ ret = 0 => WasThere
    BY <1>1, <1>3, <1>14 DEF AloneInv
  <2>2. r.integer > 0 => WasThere  BY <1>11, <1>12, <1>14
  <2>3. ASSUME NEW i \in 1..Len(replies'), replies'[i].integer > 0  PROVE WasThere
    <3>1. CASE i = Len(replies) + 1  BY <1>6, <2>2, <2>3, <3>1
    <3>2. CASE i # Len(replies) + 1
      <4>1. i \in 1..Len(replies)  BY <1>5, <1>6, <3>2
      <4> QED  BY <1>6, <2>1, <2>3, <4>1
    <3> QED  BY <3>1, <3>2
  <2> QED  BY <2>1, <2>3
<1>15. call.cmd = "setLifecycle" /\ WasThere => volatile'
  BY <1>11, <1>12 DEF Asking
<1> QED  BY <1>1, <1>8, <1>13, <1>14, <1>15 DEF AloneInv

LEMMA AloneStep == ASSUME ServeInv, ServeInv', AloneInv, [OpNext]_opVars  PROVE AloneInv'
<1>1. ASSUME NEW c \in Calls, Connect(c)  PROVE AloneInv'  BY <1>1, AloneConnect
<1>2. CASE AppendCommand \/ Flush \/ UNCHANGED opVars
  <2>1. UNCHANGED <<call, store, before, volatile, expired, refused, conn, replies, ret>>
    BY <1>2 DEF AppendCommand, Flush, opVars, handler, redis, channel
  <2> QED  BY <2>1, AloneSame
<1>3. CASE NoReply \/ AppendFails
  <2>1. /\ UNCHANGED <<call, store, before, volatile, expired, refused, conn, replies>>
        /\ ret' = -1
    BY <1>3 DEF NoReply, AppendFails, redis, channel
  <2> QED  BY <2>1, AloneSame
<1>4. CASE GetReply  BY <1>4, AloneGetReply
<1>5. CASE Disconnect \/ StartUp
  <2>1. call' \notin Calls  BY <1>5, NoCommands DEF Disconnect, StartUp
  <2> QED  BY <2>1 DEF AloneInv
<1>6. CASE Execute  BY <1>6, AloneExecute
<1>7. CASE Break  BY <1>7, AloneBreak
<1>8. CASE Expire
  <2>1. expired' = TRUE  BY <1>8 DEF Expire
  <2> QED  BY <2>1 DEF AloneInv
<1> QED
  BY <1>1, <1>2, <1>3, <1>4, <1>5, <1>6, <1>7, <1>8 DEF OpNext, HandlerStep

LEMMA EndsInCallStep == ASSUME ServeInv, EndsInCall, [OpNext]_opVars  PROVE EndsInCall'
<1> SUFFICES ASSUME server' = "down"  PROVE call' \in Calls
  BY DEF EndsInCall
<1>1. server \in {"run", "down"} /\ call' = call
  BY DEF OpNext, HandlerStep, Connect, AppendCommand, Flush, GetReply, NoReply, Disconnect,
         AppendFails, StartUp, Execute, Expire, Break, opVars, handler
<1> QED  BY <1>1 DEF EndsInCall, ServeInv, OpInv, ChannelInv, Connected

\* Whatever happens to its connection, a request is the one step DataServer takes it for:
\* with an ok all of it was done and the hash it asked about was there, otherwise all or
\* nothing, or the first few fields (deal_cache.c:22, 94-99, 146, 366;
\* redis_op.cpp:333-356, 370-399, 674-773).
THEOREM RequestsAreOneStep == OpSpec => []AsOneStep
<1>1. ServeInv /\ AloneInv /\ EndsInCall /\ PrefixWritten => AsOneStep
  <2> SUFFICES ASSUME ServeInv, AloneInv, EndsInCall, PrefixWritten, server \in {"end", "down"},
                      call.cmd # "setHash", ~expired, ~refused
               PROVE  /\ store \in {before, Done}
                      /\ server = "end" /\ ret = 0 =>
                            /\ store = Done
                            /\ call.cmd \in Asking => WasThere
                            /\ call.cmd = "setLifecycle" => volatile
    BY DEF AsOneStep, Asking, WasThere
  <2>1. call \in Calls  BY DEF EndsInCall, ServeInv, OpInv, ChannelInv, Connected
  <2>2. PICK n \in Executed..Len(Commands(call)) : store = IF n = 0 THEN before ELSE Done
    BY <2>1 DEF AloneInv
  <2>3. ASSUME server = "end", ret = 0  PROVE conn.read > 0 /\ Executed > 0 /\ n > 0
    <3>1. conn.read = Len(Commands(call)) /\ Len(Commands(call)) \in Nat \ {0}
      BY <2>1, <2>3, CommandsAreSound DEF ServeInv, OpInv, ChannelInv, Connected
    <3>2. Len(replies) \in Nat  BY DEF ServeInv, OpInv, ChannelInv, OpTypes
    <3> QED  BY <3>1, <3>2 DEF Executed
  <2>4. ASSUME server = "end", ret = 0
        PROVE  /\ store = Done
               /\ call.cmd \in Asking => WasThere
               /\ call.cmd = "setLifecycle" => volatile
    BY <2>1, <2>2, <2>3, <2>4 DEF AloneInv, Asking
  <2> QED  BY <2>2, <2>4
<1>2. OpInit => ServeInv /\ AloneInv /\ EndsInCall
  BY OpInit_Inv, InitServes, AloneInit DEF ServeInv
<1>3. ServeInv /\ ServeInv' /\ AloneInv /\ EndsInCall /\ [OpNext]_opVars => AloneInv' /\ EndsInCall'
  BY AloneStep, EndsInCallStep
<1> QED  BY <1>1, <1>2, <1>3, ServeInvHolds, WritesArePrefixes, PTL DEF OpSpec

-----------------------------------------------------------------------------
(* The query for the drivers around a passenger *)

\* A query under way holds what Redis found at the time it was asked.
Underway ==
    /\ buffer \in Seq(Entry) /\ left \in Seq(Entry)
    /\ data \in {"copying", "sending"} => reply \in Found(asked)
    /\ data = "copying" => web = "waiting" /\ buffer = <<>>
    /\ data = "sending" => Len(array) = Len(reply)

GeoInv == GeoTypeOK /\ Underway /\ NearestIsTaken

-----------------------------------------------------------------------------
(* What GEORADIUS returns *)

\* The reply names every driver within the radius.
LEMMA FoundListsAll ==
    ASSUME NEW pool \in [Driver -> Distance], NEW s \in Found(pool)
    PROVE  \A d \in InRange(pool) : \E i \in 1..Len(s) : s[i] = d
<1> DEFINE R == InRange(pool)
           n == Cardinality(R)
<1>1. IsFiniteSet(R)
  <2>1. R \in SUBSET Driver  BY DEF InRange
  <2> QED  BY <2>1, FS_Subset, GeoBounds
<1>2. n \in Nat  BY <1>1, FS_CardinalityType
<1>3. s \in SetToSeqs(R)  BY DEF Found
<1>4. s \in [1..n -> R] /\ \A i, j \in 1..n : i # j => s[i] # s[j]
  BY <1>3 DEF SetToSeqs
<1> HIDE DEF R
<1>5. Len(s) = n
  <2>1. s \in Seq(R)  BY <1>2, <1>4, SeqDef
  <2>2. DOMAIN s = 1..n  BY <1>4
  <2> QED  BY <2>1, <2>2, <1>2, LenProperties
<1>6. s \in Surjection(1..n, R)
  <2>1. s \in Injection(1..n, R)  BY <1>4 DEF Injection, IsInjective
  <2>2. Cardinality(1..n) = n  BY <1>2, FS_Interval
  <2> QED  BY <2>1, <2>2, <1>1, FS_Injection
<1>7. \A d \in R : \E i \in 1..Len(s) : s[i] = d  BY <1>5, <1>6 DEF Surjection
<1> QED  BY <1>7 DEF R

\* The drivers within the radius, each once, the nearest of them first.
LEMMA FoundIsSorted ==
    ASSUME NEW pool \in [Driver -> Distance], NEW s \in Found(pool)
    PROVE  /\ s \in Seq(Driver)
           /\ InRange(pool) = {} => s = <<>>
           /\ InRange(pool) # {} =>
                 /\ Len(s) > 0
                 /\ s[1] \in InRange(pool)
                 /\ \A d \in InRange(pool) : pool[s[1]] <= pool[d]
<1> DEFINE R == InRange(pool)
           n == Cardinality(R)
<1>1. IsFiniteSet(R) /\ R \subseteq Driver
  <2>1. R \in SUBSET Driver  BY DEF InRange
  <2> QED  BY <2>1, FS_Subset, GeoBounds
<1>2. n \in Nat  BY <1>1, FS_CardinalityType
<1>3. s \in SetToSeqs(R)  BY DEF Found
<1>4. s \in [1..n -> R] /\ \A i, j \in 1..n : i # j => s[i] # s[j]
  BY <1>3 DEF SetToSeqs
<1>5. \A i, j \in 1..n : i < j => pool[s[i]] <= pool[s[j]]
  BY <1>4 DEF Found
<1> HIDE DEF R
<1>6. s \in Seq(R) /\ Len(s) = n
  <2>1. s \in Seq(R)  BY <1>2, <1>4, SeqDef
  <2>2. DOMAIN s = 1..n  BY <1>4
  <2> QED  BY <2>1, <2>2, <1>2, LenProperties
<1>7. s \in Seq(Driver)  BY <1>1, <1>6
<1>8. \A d \in R : \E i \in 1..Len(s) : s[i] = d  BY FoundListsAll DEF R
<1>9. \A d \in R : \E i \in 1..n : s[i] = d  BY <1>6, <1>8
<1>10. R = {} => s = <<>>
  <2> SUFFICES ASSUME R = {}  PROVE s = <<>>  OBVIOUS
  <2>1. n = 0  BY FS_EmptySet
  <2> QED  BY <2>1, <1>6, EmptySeq
<1>11. ASSUME R # {}
       PROVE  Len(s) > 0 /\ s[1] \in R /\ \A d \in R : pool[s[1]] <= pool[d]
  <2>1. n > 0  BY <1>11, <1>9, <1>2
  <2>2. 1 \in 1..n  BY <2>1, <1>2
  <2>3. s[1] \in R  BY <1>4, <2>2
  <2>4. ASSUME NEW d \in R  PROVE pool[s[1]] <= pool[d]
    <3>1. PICK i \in 1..n : s[i] = d  BY <1>9
    <3>2. CASE i = 1
      <4>1. pool[d] \in Nat  BY <1>1 DEF Distance
      <4> QED  BY <3>1, <3>2, <4>1
    <3>3. CASE i # 1  BY <3>1, <3>3, <1>5, <2>2, <1>2
    <3> QED  BY <3>2, <3>3
  <2> QED  BY <2>1, <2>3, <2>4, <1>6
<1> QED  BY <1>7, <1>10, <1>11 DEF R

\* A reply is a sequence of drivers.
LEMMA RepliesAreSeqs ==
    ASSUME NEW pool \in [Driver -> Distance], NEW s \in Found(pool) \cup {<<>>}
    PROVE  s \in Seq(Driver)
BY FoundIsSorted, EmptySeq

\* What was copied from a driver's row is an entry with its name.
LEMMA RowsAreEntries ==
    ASSUME NEW i \in Nat, NEW d \in Driver, NEW pool \in [Driver -> Distance],
           NEW row \in Rows(i, d, pool)
    PROVE  row \in Entry /\ row.name = d
<1>1. pool[d] \in Distance  OBVIOUS
<1>2. 1 \in 1..Longest  BY GeoBounds
<1> QED  BY <1>1, <1>2 DEF Rows, Entry

-----------------------------------------------------------------------------
(* One step of the query *)

\* A row is appended: the array goes along the reply.
LEMMA CopyRowGeo ==
    ASSUME GeoInv, CopyRow  PROVE GeoInv'
<1> USE DEF GeoInv
<1>1. /\ web = "waiting" /\ buffer = <<>> /\ Len(array) < Len(reply)
      /\ array \in Seq(Entry) /\ reply \in Seq(Driver) /\ near \in [Driver -> Distance]
      /\ \A i \in DOMAIN array : array[i].name = reply[i]
  BY RepliesAreSeqs DEF CopyRow, GeoTypeOK, Underway
<1>2. NearestIsTaken'  BY <1>1 DEF CopyRow, NearestIsTaken
<1>3. CASE RowIsFatal(Len(array))
  <2>1. data' = "down" /\ UNCHANGED array  BY <1>3 DEF CopyRow
  <2> QED  BY <1>2, <2>1 DEF CopyRow, GeoTypeOK, Underway
<1>4. CASE ~RowIsFatal(Len(array))
  <2>1. PICK row \in Rows(Len(array), reply[Len(array) + 1], near) :
           array' = Append(array, row) /\ UNCHANGED data
    BY <1>4 DEF CopyRow
  <2>2. PICK k : k = Len(array) + 1  OBVIOUS
  <2>3. Len(array) \in Nat /\ Len(reply) \in Nat /\ k \in 1..Len(reply)
    BY <1>1, <2>2, LenProperties
  <2>4. reply[k] \in Driver  BY <1>1, <2>3, ElementOfSeq
  <2>5. row \in Entry /\ row.name = reply[k]
    BY <1>1, <2>1, <2>2, <2>3, <2>4, RowsAreEntries
  <2>6. /\ array' \in Seq(Entry) /\ Len(array') = k
        /\ \A i \in 1..k : array'[i] = IF i < k THEN array[i] ELSE row
    BY <1>1, <2>1, <2>2, <2>3, <2>5, AppendProperties
  <2>7. DOMAIN array' = 1..k /\ DOMAIN array = 1..(k - 1)
    BY <1>1, <2>2, <2>3, <2>6, LenProperties
  <2>8. \A i \in DOMAIN array' : array'[i].name = reply[i]
    BY <1>1, <2>3, <2>5, <2>6, <2>7
  <2>9. data' = "copying" /\ UNCHANGED <<near, asked, reply, left, web, buffer, chosen>>
    BY <2>1 DEF CopyRow
  <2> QED
    BY <1>2, <2>3, <2>6, <2>8, <2>9 DEF CopyRow, GeoTypeOK, Underway
<1> QED  BY <1>3, <1>4

\* The answer is the whole array, and nothing of it has arrived.
LEMMA AnswerGeo ==
    ASSUME GeoInv, Answer  PROVE GeoInv'
<1>1. buffer = <<>> /\ web = "waiting" /\ array \in Seq(Entry)
  BY DEF GeoInv, Answer, Underway, GeoTypeOK
<1>2. <<>> \o array = array  BY <1>1, ConcatEmptySeq
<1>3. (data = "sending" => buffer \o left = array)'  BY <1>1, <1>2 DEF Answer
<1>4. NearestIsTaken'  BY <1>1 DEF Answer, NearestIsTaken
<1>5. GeoTypeOK'  BY <1>3 DEF GeoInv, Answer, GeoTypeOK
<1>6. Underway'  BY <1>1 DEF GeoInv, Answer, Underway
<1> QED  BY <1>4, <1>5, <1>6 DEF GeoInv

\* The pieces arrive in the order they were sent in, none of them twice.
LEMMA ReceiveGeo ==
    ASSUME GeoInv, Receive  PROVE GeoInv'
<1>1. /\ web = "waiting" /\ data = "sending" /\ buffer \o left = array
      /\ buffer \in Seq(Entry) /\ left \in Seq(Entry)
  BY DEF GeoInv, Receive, GeoTypeOK, Underway
<1>2. PICK n \in 1..Len(left) :
         /\ buffer' = buffer \o SubSeq(left, 1, n)
         /\ left' = SubSeq(left, n + 1, Len(left))
  BY DEF Receive
<1>3. UNCHANGED <<near, data, reply, array, chosen, asked>>
      /\ web' \in {"waiting", "overrun"}
  BY DEF Receive
<1>4. Len(left) \in Nat  BY <1>1, LenProperties
<1>5. PICK piece : piece = SubSeq(left, 1, n)  OBVIOUS
<1>6. PICK rest : rest = SubSeq(left, n + 1, Len(left))  OBVIOUS
<1>7. \A i \in 1..Len(left) : left[i] \in Entry  BY <1>1, ElementOfSeq
<1>8. piece \in Seq(Entry)
  <2>1. \A i \in 1..n : left[i] \in Entry  BY <1>4, <1>7
  <2> QED  BY <1>5, <2>1, SubSeqProperties
<1>9. rest \in Seq(Entry)
  <2>1. \A i \in (n + 1)..Len(left) : left[i] \in Entry  BY <1>4, <1>7
  <2> QED  BY <1>4, <1>6, <2>1, SubSeqProperties
<1>10. piece \o rest = left
  <2>1. SubSeq(left, 1, n) \o SubSeq(left, n + 1, Len(left)) = SubSeq(left, 1, Len(left))
    <3>1. 1 \in 1..Len(left) + 1 /\ n \in (1 - 1)..Len(left) /\ Len(left) \in n..Len(left)
      BY <1>4
    <3> QED  BY <1>1, <3>1, ConcatAdjacentSubSeq
  <2> QED  BY <1>1, <1>5, <1>6, <2>1, SubSeqFull
<1>11. buffer' \in Seq(Entry)  BY <1>1, <1>2, <1>5, <1>8, ConcatProperties
<1>12. buffer' \o left' = array
  <2>0. buffer \in Seq(Entry)  BY <1>1
  <2>1. (buffer \o piece) \o rest = buffer \o (piece \o rest)
    BY ONLY <1>8, <1>9, <2>0, ConcatAssociative
  <2> QED  BY <1>1, <1>2, <1>5, <1>6, <1>10, <2>1
<1>13. GeoTypeOK'  BY <1>3, <1>12 DEF GeoInv, GeoTypeOK
<1>14. Underway'
  BY <1>1, <1>2, <1>3, <1>6, <1>9, <1>11 DEF GeoInv, Underway
<1>15. NearestIsTaken'  BY <1>3 DEF NearestIsTaken
<1> QED  BY <1>13, <1>14, <1>15 DEF GeoInv

\* The first of the buffer is the first of the reply, which is a nearest driver.
LEMMA TakeGeo ==
    ASSUME GeoInv, Take  PROVE GeoInv'
<1>1. /\ data = "sending" /\ left = <<>> /\ buffer \o left = array
      /\ buffer \in Seq(Entry) /\ array \in Seq(Entry) /\ Len(array) = Len(reply)
      /\ \A i \in DOMAIN array : array[i].name = reply[i]
      /\ reply \in Found(asked) /\ asked \in [Driver -> Distance]
  BY DEF GeoInv, Take, GeoTypeOK, Underway
<1>2. buffer = array  BY <1>1, ConcatEmptySeq
<1>3. reply \in Seq(Driver)  BY <1>1, FoundIsSorted
<1>4. NearestIsTaken' /\ chosen' \in Driver \cup {NoDriver}
  <2>1. CASE InRange(asked) = {}
    <3>1. reply = <<>>  BY <1>1, <2>1, FoundIsSorted
    <3>2. array = <<>>  BY <1>1, <1>3, <3>1, EmptySeq
    <3>3. chosen' = NoDriver  BY <1>2, <3>2 DEF Take
    <3> QED  BY <2>1, <3>3 DEF Take, NearestIsTaken
  <2>2. CASE InRange(asked) # {}
    <3>1. Len(reply) > 0 /\ reply[1] \in InRange(asked)
          /\ \A d \in InRange(asked) : asked[reply[1]] <= asked[d]
      BY <1>1, <2>2, FoundIsSorted
    <3>2. array # <<>> /\ 1 \in DOMAIN array
      BY <1>1, <3>1, EmptySeq, LenProperties
    <3>3. chosen' = reply[1]  BY <1>1, <1>2, <3>2 DEF Take
    <3>4. reply[1] \in Driver  BY <3>1 DEF InRange
    <3>5. asked' = asked  BY DEF Take
    <3> QED  BY <2>2, <3>1, <3>3, <3>4, <3>5 DEF NearestIsTaken
  <2> QED  BY <2>1, <2>2
<1>5. GeoTypeOK'  BY <1>4 DEF GeoInv, Take, GeoTypeOK
<1>6. Underway'  BY DEF GeoInv, Take, Underway
<1> QED  BY <1>4, <1>5, <1>6 DEF GeoInv

\* The query begins: Redis has answered from what the pool holds now.
LEMMA AskGeo ==
    ASSUME GeoInv, Ask  PROVE GeoInv'
<1>1. PICK s \in Found(near) : reply' = s  BY DEF Ask
<1>2. near \in [Driver -> Distance]  BY DEF GeoInv, GeoTypeOK
<1>3. s \in Seq(Driver)  BY <1>1, <1>2, FoundIsSorted
<1>4. Len(reply') \in Nat  BY <1>1, <1>3, LenProperties
<1>5. array' = <<>> /\ Len(array') = 0 /\ array' \in Seq(Entry) /\ DOMAIN array' = {}
  BY EmptySeq DEF Ask
<1>6. Found(near) = Found(asked')  BY DEF Ask
<1>7. GeoTypeOK'
  BY <1>1, <1>2, <1>4, <1>5, <1>6 DEF GeoInv, Ask, GeoTypeOK
<1>8. Underway'  BY <1>1, <1>5, <1>6, EmptySeq DEF GeoInv, Ask, Underway
<1>9. NearestIsTaken'  BY DEF Ask, NearestIsTaken
<1> QED  BY <1>7, <1>8, <1>9 DEF GeoInv

\* A crash forgets the query, a restart begins without one.
LEMMA RestartsGeo ==
    ASSUME GeoInv, Broken \/ ReplyToOrder \/ Kill \/ RestartData \/ RestartWeb
    PROVE  GeoInv'
<1>1. <<>> \in Seq(Entry) /\ Len(<<>>) = 0 /\ DOMAIN <<>> = {}  BY EmptySeq
<1>2. CASE Broken
  BY <1>2 DEF Broken, GeoInv, GeoTypeOK, Underway, NearestIsTaken
<1>3. CASE ReplyToOrder
  BY <1>3 DEF ReplyToOrder, GeoInv, GeoTypeOK, Underway, NearestIsTaken
<1>4. CASE Kill
  BY <1>4 DEF Kill, GeoInv, GeoTypeOK, Underway, NearestIsTaken
<1>5. CASE RestartData
  BY <1>1, <1>5 DEF RestartData, GeoInv, GeoTypeOK, Underway, NearestIsTaken
<1>6. CASE RestartWeb
  BY <1>1, <1>6 DEF RestartWeb, GeoInv, GeoTypeOK, Underway, NearestIsTaken
<1> QED  BY <1>2, <1>3, <1>4, <1>5, <1>6

\* While the servers are at a query, what it has found does not change with the
\* pool: a report waits.
LEMMA ReportGeo ==
    ASSUME GeoInv, NEW d \in Driver, NEW n \in Distance, Report(d, n)
    PROVE  GeoInv'
BY DEF Report, GeoInv, GeoTypeOK, Underway, NearestIsTaken

LEMMA GeoInvInit == ASSUME GeoInit  PROVE GeoInv
<1>1. <<>> \in Seq(Entry) /\ Len(<<>>) = 0 /\ DOMAIN <<>> = {}  BY EmptySeq
<1> QED  BY <1>1 DEF GeoInit, GeoInv, GeoTypeOK, Underway, NearestIsTaken

LEMMA GeoInvStep == ASSUME GeoInv, [GeoNext]_geoVars  PROVE GeoInv'
<1>1. CASE UNCHANGED geoVars
  BY <1>1 DEF geoVars, GeoInv, GeoTypeOK, Underway, NearestIsTaken
<1>2. CASE \E d \in Driver, n \in Distance : Report(d, n)  BY <1>2, ReportGeo
<1>3. CASE Ask  BY <1>3, AskGeo
<1>4. CASE GeoStep
  BY <1>4, CopyRowGeo, AnswerGeo, ReceiveGeo, TakeGeo, RestartsGeo DEF GeoStep
<1>5. CASE Kill \/ RestartData \/ RestartWeb  BY <1>5, RestartsGeo
<1> QED  BY <1>1, <1>2, <1>3, <1>4, <1>5 DEF GeoNext

LEMMA GeoInvHolds == GeoSpec => []GeoInv
<1>1. GeoInit => GeoInv  BY GeoInvInit
<1>2. GeoInv /\ [GeoNext]_geoVars => GeoInv'  BY GeoInvStep
<1> QED  BY <1>1, <1>2, PTL DEF GeoSpec

-----------------------------------------------------------------------------
(* The results *)

\* The rows are those of the reply, in its order, and what has arrived and what is
\* left are together the array (redis_op.cpp:734-747, remote_store.c:24-25).
THEOREM QueriesAreTyped == GeoSpec => []GeoTypeOK
BY GeoInvHolds, PTL DEF GeoInv

\* An order that gets a driver gets one that was nearest, and "no driver" means
\* that there was none within the radius (set_order.c:100-107, redis_op.cpp:725).
THEOREM NearestDriverIsTaken == GeoSpec => []NearestIsTaken
BY GeoInvHolds, PTL DEF GeoInv

-----------------------------------------------------------------------------
(* The buffer of the answer *)

\* Two drivers of ordinary size are no more than their number: Size is a fold, whose
\* function is written out for the few entries there can be.
LEMMA FewAreSmall ==
    ASSUME NEW s \in Seq(Entry), Len(s) <= 2, \A i \in DOMAIN s : s[i].size = 1
    PROVE  Size(s) = Len(s)
<1> DEFINE D == DOMAIN s
           Eq(f) == f = [t \in SUBSET D |->
                           IF t = {} THEN 0 ELSE f[t \ {Max(t)}] + s[Max(t)].size]
           sum == CHOOSE f : Eq(f)
           n(t) == IF t = {} THEN 0 ELSE IF t = {1, 2} THEN 2 ELSE 1
           g == [t \in SUBSET D |-> n(t)]
<1>1. Size(s) = sum[D]
  BY DEF Size, FoldLeft, MapThenFoldSet
<1>2. D = 1..Len(s) /\ Len(s) \in {0, 1, 2}
  <2>1. D = 1..Len(s) /\ Len(s) \in Nat  BY LenProperties
  <2> QED  BY <2>1
<1>3. D \in {{}, {1}, {1, 2}}
  BY <1>2
<1>4. Max({1}) = 1 /\ Max({2}) = 2 /\ Max({1, 2}) = 2
  BY DEF Max
<1>5. \A t \in SUBSET D : t \in {{}, {1}, {2}, {1, 2}}
  BY <1>3
<1>6. Eq(g)
  <2> SUFFICES ASSUME NEW t \in SUBSET D
               PROVE  n(t) = IF t = {} THEN 0 ELSE g[t \ {Max(t)}] + s[Max(t)].size
    OBVIOUS
  <2>1. CASE t = {}  BY <2>1
  <2>2. CASE t # {} /\ t # {1, 2}
    <3>1. PICK i \in {1, 2} : t = {i}  BY <1>5, <2>2
    <3>2. Max(t) = i /\ t \ {Max(t)} = {} /\ n(t) = 1  BY <1>4, <2>2, <3>1
    <3>3. g[{}] = 0 /\ s[i].size = 1  BY <3>1
    <3> QED  BY <2>2, <3>2, <3>3
  <2>3. CASE t = {1, 2}
    <3>1. Max(t) = 2 /\ t \ {Max(t)} = {1}  BY <1>4, <2>3
    <3>2. n({1}) = 1 /\ {1} \in SUBSET D  BY <2>3
    <3> QED  BY <2>3, <3>1, <3>2
  <2> QED  BY <2>1, <2>2, <2>3
<1>7. Eq(sum)  BY <1>6
<1> HIDE DEF sum, D
<1>8. ASSUME NEW t \in SUBSET D, t # {}
       PROVE  sum[t] = sum[t \ {Max(t)}] + s[Max(t)].size
  BY <1>7, <1>8
<1>9. sum[{}] = 0  BY <1>7
<1>10. ASSUME D # {}  PROVE sum[{1}] = 1
  <2>1. {1} \in SUBSET D /\ {1} \ {Max({1})} = {}  BY <1>3, <1>4, <1>10
  <2>2. s[1].size = 1  BY <2>1 DEF D
  <2>3. sum[{1}] = sum[{1} \ {Max({1})}] + s[Max({1})].size  BY <1>8, <2>1
  <2>4. sum[{1} \ {Max({1})}] = 0  BY <1>9, <2>1, Zenon
  <2>5. s[Max({1})].size = 1  BY <1>4, <2>2, Zenon
  <2> QED  BY <2>3, <2>4, <2>5
<1>11. ASSUME D = {1, 2}  PROVE sum[D] = 2
  <2>1. D \in SUBSET D /\ D \ {Max(D)} = {1}  BY <1>4, <1>11
  <2>2. s[2].size = 1  BY <1>11 DEF D
  <2>3. sum[D] = sum[D \ {Max(D)}] + s[Max(D)].size  BY <1>11, <1>8, <2>1
  <2>4. sum[{1}] = 1  BY <1>10, <1>11
  <2>5. sum[D \ {Max(D)}] = 1  BY <2>1, <2>4, Zenon
  <2>6. s[Max(D)].size = 1  BY <1>4, <1>11, <2>2, Zenon
  <2> QED  BY <2>3, <2>5, <2>6
<1>12. CASE D = {}
  <2>1. 1 \notin D  BY <1>12
  <2>2. Len(s) = 0  BY <1>2, <2>1
  <2> QED  BY <1>1, <1>9, <1>12, <2>2
<1>13. CASE D = {1}
  <2>1. 1 \in D /\ 2 \notin D  BY <1>13
  <2>2. Len(s) = 1  BY <1>2, <2>1
  <2> QED  BY <1>1, <1>10, <1>13, <2>2
<1>14. CASE D = {1, 2}
  <2>1. 2 \in D  BY <1>14
  <2>2. Len(s) = 2  BY <1>2, <2>1
  <2> QED  BY <1>1, <1>11, <1>14, <2>2
<1> QED  BY <1>3, <1>12, <1>13, <1>14

\* The row loop does not get past its third row, and the buffer has some of the
\* rows: two of them are too many only when one has a size of its own.
FewRows ==
    /\ Len(array) <= 2 /\ Len(buffer) <= 2
    /\ web = "overrun" => Size(buffer) > Capacity

LEMMA CopyRowFew ==
    ASSUME GeoInv, FewRows, CopyRow  PROVE FewRows'
<1>1. array \in Seq(Entry) /\ Len(array) \in Nat
  BY LenProperties DEF GeoInv, GeoTypeOK
<1>2. UNCHANGED <<web, buffer>>  BY DEF CopyRow
<1>3. CASE RowIsFatal(Len(array))  BY <1>2, <1>3 DEF CopyRow, FewRows
<1>4. CASE ~RowIsFatal(Len(array))
  <2>1. Len(array) # 2  BY <1>4 DEF RowIsFatal, Target
  <2>2. PICK row : array' = Append(array, row)  BY <1>4 DEF CopyRow
  <2>3. PICK k \in Nat : k = Len(array)  BY <1>1
  <2>4. Len(array') = k + 1  BY <1>1, <2>2, <2>3, AppendProperties
  <2>5. k <= 2 /\ k # 2  BY <2>1, <2>3 DEF FewRows
  <2>6. k + 1 <= 2  BY <2>5
  <2>7. Len(array') <= 2  BY <2>4, <2>6
  <2> QED  BY <1>2, <2>7 DEF FewRows
<1> QED  BY <1>3, <1>4

LEMMA ReceiveFew ==
    ASSUME GeoInv, GeoInv', FewRows, Receive  PROVE FewRows'
<1>1. /\ buffer' \in Seq(Entry) /\ left' \in Seq(Entry)
      /\ buffer' \o left' = array /\ UNCHANGED array
  BY DEF Receive, GeoInv, GeoTypeOK, Underway
<1>2. Len(array) = Len(buffer') + Len(left')  BY <1>1, ConcatProperties
<1>3. Len(buffer') \in Nat /\ Len(left') \in Nat  BY <1>1, LenProperties
<1>4. Len(buffer') <= 2  BY <1>2, <1>3 DEF FewRows
<1>5. (web = "overrun" => Size(buffer) > Capacity)'  BY DEF Receive
<1> QED  BY <1>1, <1>4, <1>5 DEF FewRows

LEMMA FewRowsStep ==
    ASSUME GeoInv, GeoInv', FewRows, [GeoNext]_geoVars  PROVE FewRows'
<1>1. Len(<<>>) = 0  BY EmptySeq
<1>2. CASE UNCHANGED <<array, buffer, web>>  BY <1>2 DEF FewRows
<1>3. CASE Ask  BY <1>1, <1>3 DEF Ask, FewRows
<1>4. CASE CopyRow  BY <1>4, CopyRowFew
<1>5. CASE Receive  BY <1>5, ReceiveFew
<1>6. CASE Take \/ Broken \/ ReplyToOrder
  BY <1>6 DEF Take, Broken, ReplyToOrder, FewRows
<1>7. CASE RestartData \/ RestartWeb
  BY <1>1, <1>7 DEF RestartData, RestartWeb, FewRows
<1>8. CASE Answer \/ Kill \/ (\E d \in Driver, n \in Distance : Report(d, n))
  BY <1>2, <1>8 DEF Answer, Kill, Report
<1>9. CASE UNCHANGED geoVars  BY <1>2, <1>9 DEF geoVars
<1> QED
  BY <1>3, <1>4, <1>5, <1>6, <1>7, <1>8, <1>9 DEF GeoNext, GeoStep

LEMMA OverrunNeedsLeftovers ==
    ASSUME GeoInv, FewRows  PROVE OverrunIsLeftovers
<1> SUFFICES ASSUME web = "overrun", \A i \in DOMAIN buffer : ~(buffer[i].size > 1)
             PROVE  FALSE
  BY DEF OverrunIsLeftovers
<1>1. buffer \in Seq(Entry) /\ Len(buffer) \in Nat
  BY LenProperties DEF GeoInv, Underway
<1>2. ASSUME NEW i \in DOMAIN buffer  PROVE buffer[i].size = 1
  <2>1. i \in 1..Len(buffer)  BY <1>1, LenProperties
  <2>2. buffer[i] \in Entry  BY <1>1, <2>1, ElementOfSeq
  <2>3. buffer[i].size \in 1..Longest  BY <2>2 DEF Entry
  <2>4. Longest \in Nat  BY GeoBounds
  <2> QED  BY <2>3, <2>4
<1>3. Size(buffer) = Len(buffer)  BY <1>1, <1>2, FewAreSmall DEF FewRows
<1>4. Len(buffer) > Capacity  BY <1>3 DEF FewRows
<1> QED  BY <1>1, <1>4, GeoBounds DEF FewRows

\* The buffer of the answer has no bound check, and what overruns it is leftover
\* memory: the drivers of ordinary size that a reply can have do not fill it
\* (remote_store.c:24, redis_op.cpp:739-741).
THEOREM OverrunsAreLeftovers == GeoSpec => []OverrunIsLeftovers
<1>1. GeoInit => FewRows
  <2>1. Len(<<>>) = 0  BY EmptySeq
  <2> QED  BY <2>1 DEF GeoInit, FewRows
<1>2. GeoInv /\ GeoInv' /\ FewRows /\ [GeoNext]_geoVars => FewRows'  BY FewRowsStep
<1>3. GeoInv /\ FewRows => OverrunIsLeftovers  BY OverrunNeedsLeftovers
<1>4. GeoSpec => GeoInit /\ [][GeoNext]_geoVars  BY PTL DEF GeoSpec
<1> QED  BY <1>1, <1>2, <1>3, <1>4, GeoInvHolds, PTL

\* An answer is under way only when Redis found no three different drivers.
AnsweredFew ==
    data = "sending" => \A d, e, f \in InRange(asked) : d = e \/ d = f \/ e = f

LEMMA FewAreAnswered ==
    ASSUME GeoInv, FewRows  PROVE AnsweredFew
<1> SUFFICES ASSUME data = "sending", NEW d \in InRange(asked),
                    NEW e \in InRange(asked), NEW f \in InRange(asked)
             PROVE  d = e \/ d = f \/ e = f
  BY DEF AnsweredFew
<1>1. asked \in [Driver -> Distance] /\ reply \in Found(asked)
  BY DEF GeoInv, GeoTypeOK, Underway
<1>2. Len(reply) \in Nat /\ Len(reply) <= 2
  <2>1. reply \in Seq(Driver)  BY <1>1, FoundIsSorted
  <2>2. Len(reply) \in Nat  BY <2>1, LenProperties
  <2> QED  BY <2>2 DEF GeoInv, Underway, FewRows
<1>3. \A x \in InRange(asked) : \E i \in 1..Len(reply) : reply[i] = x
  BY <1>1, FoundListsAll
<1>4. PICK i \in 1..Len(reply) : reply[i] = d  BY <1>3
<1>5. PICK j \in 1..Len(reply) : reply[j] = e  BY <1>3
<1>6. PICK k \in 1..Len(reply) : reply[k] = f  BY <1>3
<1>7. i = j \/ i = k \/ j = k  BY <1>2
<1> QED  BY <1>4, <1>5, <1>6, <1>7

\* A query that finds a third driver is never answered: the row loop does not get past
\* that row, and the process is gone (redis_op.cpp:739).
THEOREM ThreeAreNotAnswered == GeoSpec => []AnsweredFew
<1>1. GeoInit => FewRows
  <2>1. Len(<<>>) = 0  BY EmptySeq
  <2> QED  BY <2>1 DEF GeoInit, FewRows
<1>2. GeoInv /\ GeoInv' /\ FewRows /\ [GeoNext]_geoVars => FewRows'  BY FewRowsStep
<1>3. GeoInv /\ FewRows => AnsweredFew  BY FewAreAnswered
<1>4. GeoSpec => GeoInit /\ [][GeoNext]_geoVars  BY PTL DEF GeoSpec
<1> QED  BY <1>1, <1>2, <1>3, <1>4, GeoInvHolds, PTL

-----------------------------------------------------------------------------
(* The deadline of a session *)

SetIsGone == \A s \in Session : touched[s] # Never => s \notin keys

\* From ten minutes past midnight on 1 January 1970 on, a session is gone as soon as its
\* lifecycle was set: EXPIREAT takes the 600 seconds for a point in time
\* (redis_op.cpp:258, remote_store.c:519, busi_cb.h:32).
THEOREM LifecycleRemovesAtOnce ==
    ASSUME Start \in Nat, Period \in Nat, Start >= SESSIONID_LIFECYCLE
    PROVE  Spec => []SetIsGone
<1> DEFINE Inv == now \in Nat /\ now >= SESSIONID_LIFECYCLE /\ SetIsGone
                  /\ touched \in [Session -> Nat]
<1>1. Init => Inv  BY DEF Init, SetIsGone, Never
<1>2. Inv /\ [Next]_clockVars => Inv'
  <2> SUFFICES ASSUME Inv, [Next]_clockVars  PROVE Inv'
    OBVIOUS
  <2>1. ASSUME NEW s \in Session, CreateSession(s)  PROVE Inv'
    BY <2>1 DEF CreateSession, SetIsGone
  <2>2. ASSUME NEW s \in Session, SetLifecycle(s)  PROVE Inv'
    BY <2>2 DEF SetLifecycle, SetIsGone
  <2>3. CASE Tick  BY <2>3 DEF Tick, SetIsGone, SESSIONID_LIFECYCLE
  <2>4. CASE UNCHANGED clockVars  BY <2>4 DEF clockVars, SetIsGone
  <2> QED  BY <2>1, <2>2, <2>3, <2>4 DEF Next
<1> QED  BY <1>1, <1>2, PTL DEF Spec
=============================================================================
