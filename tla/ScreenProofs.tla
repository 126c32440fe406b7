---------------------------- MODULE ScreenProofs ----------------------------
(***************************************************************************)
(* The passenger's map, for every set of places and any number of          *)
(* questions under way: where the route starts, and what the screen shows  *)
(* when the answers came in their turn.  What a question was about is not  *)
(* kept with its answer, so the invariant is about the queue.              *)
(***************************************************************************)
EXTENDS PassengerScreen, TLAPS

\* Question i is the last one of its kind; there is none of the kind.
LastOf(kind, i) ==
    /\ i \in DOMAIN asked /\ asked[i].kind = kind
    /\ \A j \in DOMAIN asked : j > i => asked[j].kind # kind

NoneOf(kind) == \A i \in DOMAIN asked : asked[i].kind # kind

\* A route was asked for from where the passenger starts, or before that was known.
AskedFromStart ==
    \A i \in DOMAIN asked : asked[i].kind = "route" => asked[i].from \in {startPoint, Nothing}

\* Once the start is known it stays known: the questions without one come first.
UnknownFirst ==
    \A i, j \in DOMAIN asked :
        i < j /\ asked[i].kind = "route" /\ asked[j].kind = "route" /\ asked[i].from # Nothing
            => asked[j].from # Nothing

\* The route on the map was asked for with a start.
ShownFromStart ==
    /\ route.from = route.start
    /\ route # NoRoute => startPoint # Nothing

\* While the answers come in turn, what the screen is not about yet is on its way.
TipsComing ==
    orderly /\ text # Nothing =>
        \/ \E i \in DOMAIN asked : LastOf("tips", i) /\ asked[i].word = text
        \/ NoneOf("tips") /\ tips = text

RouteComing ==
    orderly =>
        \/ \E i \in DOMAIN asked : LastOf("route", i) /\ asked[i].to = endPoint
        \/ /\ NoneOf("route")
           /\ route # NoRoute => route.to = route.end /\ route.end = endPoint

RoutesHaveStart ==
    orderly /\ route # NoRoute =>
        \A i \in DOMAIN asked : asked[i].kind = "route" => asked[i].from # Nothing

StartInv == ScreenTypeOK /\ AskedFromStart /\ UnknownFirst /\ ShownFromStart

ScreenInv == StartInv /\ TipsComing /\ RouteComing /\ RoutesHaveStart

-----------------------------------------------------------------------------
(* The queue of the questions *)

LEMMA RemovedAt ==
    ASSUME NEW S, NEW s \in Seq(S), NEW i \in 1..Len(s)
    PROVE  /\ RemoveAt(s, i) \in Seq(S) /\ Len(RemoveAt(s, i)) = Len(s) - 1
           /\ \A j \in 1..(i - 1) : RemoveAt(s, i)[j] = s[j]
           /\ \A j \in i..(Len(s) - 1) : RemoveAt(s, i)[j] = s[j + 1]
<1>1. PICK a : a = SubSeq(s, 1, i - 1)  OBVIOUS
<1>2. a \in Seq(S) /\ Len(a) = i - 1 /\ \A j \in 1..(i - 1) : a[j] = s[j]  BY <1>1
<1>3. PICK b : b = SubSeq(s, i + 1, Len(s))  OBVIOUS
<1>4. b \in Seq(S) /\ Len(b) = Len(s) - i /\ \A j \in 1..(Len(s) - i) : b[j] = s[j + i]
  BY <1>3
<1>5. PICK c : c = a \o b  OBVIOUS
<1>6. a \in Seq(S) /\ b \in Seq(S)  BY <1>2, <1>4
<1>7. /\ c \in Seq(S) /\ Len(c) = Len(a) + Len(b)
      /\ \A j \in 1..Len(a) : c[j] = a[j]
      /\ \A j \in 1..Len(b) : c[Len(a) + j] = b[j]
  BY <1>5, <1>6
<1>8. RemoveAt(s, i) = c  BY <1>1, <1>3, <1>5 DEF RemoveAt
<1>9. ASSUME NEW j \in i..(Len(s) - 1)  PROVE c[j] = s[j + 1]
  <2>1. j - (i - 1) \in 1..(Len(s) - i)  OBVIOUS
  <2>2. c[Len(a) + (j - (i - 1))] = b[j - (i - 1)]  BY <1>4, <1>7, <2>1
  <2>3. Len(a) + (j - (i - 1)) = j /\ (j - (i - 1)) + i = j + 1  BY <1>2
  <2> QED  BY <1>4, <2>1, <2>2, <2>3
<1> QED  BY <1>2, <1>4, <1>7, <1>8, <1>9

\* What is left when question i is answered: nothing new, in the same order.
LEMMA OneLess ==
    ASSUME asked \in Seq(Question), NEW i \in DOMAIN asked
    PROVE  /\ RemoveAt(asked, i) \in Seq(Question)
           /\ Len(RemoveAt(asked, i)) = Len(asked) - 1
           /\ \A j \in DOMAIN RemoveAt(asked, i) :
                /\ RemoveAt(asked, i)[j] = asked[IF j < i THEN j ELSE j + 1]
                /\ (IF j < i THEN j ELSE j + 1) \in DOMAIN asked
<1>1. DOMAIN asked = 1..Len(asked) /\ Len(asked) \in Nat /\ i \in 1..Len(asked)  OBVIOUS
<1>2. PICK r \in Seq(Question) :
         /\ r = RemoveAt(asked, i) /\ Len(r) = Len(asked) - 1
         /\ \A j \in 1..(i - 1) : r[j] = asked[j]
         /\ \A j \in i..(Len(asked) - 1) : r[j] = asked[j + 1]
  <2>1. /\ RemoveAt(asked, i) \in Seq(Question)
        /\ Len(RemoveAt(asked, i)) = Len(asked) - 1
        /\ \A j \in 1..(i - 1) : RemoveAt(asked, i)[j] = asked[j]
        /\ \A j \in i..(Len(asked) - 1) : RemoveAt(asked, i)[j] = asked[j + 1]
    BY <1>1, RemovedAt
  <2> QED  BY ONLY <2>1
<1>3. DOMAIN r = 1..(Len(asked) - 1)  BY <1>1, <1>2
<1> QED  BY <1>1, <1>2, <1>3

LEMMA OneMore ==
    ASSUME NEW s \in Seq(Question), NEW q \in Question
    PROVE  /\ Append(s, q) \in Seq(Question) /\ DOMAIN Append(s, q) = 1..(Len(s) + 1)
           /\ DOMAIN s = 1..Len(s) /\ Len(s) \in Nat
           /\ \A j \in 1..Len(s) : Append(s, q)[j] = s[j]
           /\ Append(s, q)[Len(s) + 1] = q
OBVIOUS

-----------------------------------------------------------------------------
(* Each step keeps the invariant *)

LEMMA ScreenInit_Inv == ScreenInit => ScreenInv
<1> SUFFICES ASSUME ScreenInit  PROVE ScreenInv
  OBVIOUS
<1>1. asked \in Seq(Question) /\ DOMAIN asked = {}  BY DEF ScreenInit
<1>2. route \in [from : MaybePlace, to : MaybePlace, start : MaybePlace, end : MaybePlace]
      /\ route.from = route.start
  BY DEF ScreenInit, NoRoute, MaybePlace
<1>3. ScreenTypeOK  BY <1>1, <1>2 DEF ScreenInit, ScreenTypeOK, MaybePlace
<1> QED
  BY <1>1, <1>2, <1>3
     DEF ScreenInit, ScreenInv, StartInv, AskedFromStart, UnknownFirst, ShownFromStart,
         TipsComing, RouteComing, RoutesHaveStart, LastOf, NoneOf

LEMMA LocatedStep == ASSUME ScreenInv, NEW here \in Place, Located(here)  PROVE ScreenInv'
<1>1. /\ isAddSelfMarker' \in BOOLEAN
      /\ selfMarker' \in MaybePlace /\ startPoint' \in MaybePlace
      /\ startPoint = Nothing \/ startPoint' = startPoint
      /\ startPoint' # Nothing
      /\ UNCHANGED <<text, tips, endPoint, pins, route, asked, orderly>>
  BY ScreenBounds DEF Located, ScreenInv, StartInv, ScreenTypeOK, MaybePlace
<1>2. ScreenTypeOK'  BY <1>1 DEF ScreenInv, StartInv, ScreenTypeOK
<1>3. AskedFromStart' /\ UnknownFirst' /\ ShownFromStart'
  BY <1>1 DEF ScreenInv, StartInv, AskedFromStart, UnknownFirst, ShownFromStart
<1>4. TipsComing' /\ RouteComing' /\ RoutesHaveStart'
  BY <1>1 DEF ScreenInv, TipsComing, RouteComing, RoutesHaveStart, LastOf, NoneOf
<1> QED  BY <1>2, <1>3, <1>4 DEF ScreenInv, StartInv

\* A question about a word, typed or searched.
LEMMA WordAsked ==
    ASSUME ScreenInv, NEW kind \in {"tips", "poi"}, NEW word \in MaybePlace,
           asked' = Append(asked, [kind |-> kind, word |-> word]),
           text' \in MaybePlace, kind = "tips" => word = text', kind = "poi" => text' = text,
           UNCHANGED <<tips, startPoint, endPoint, isAddSelfMarker, selfMarker, pins, route,
                       orderly>>
    PROVE  ScreenInv'
<1>1. PICK q : q = [kind |-> kind, word |-> word]  OBVIOUS
<1>2. q \in Question /\ q.kind = kind /\ q.word = word  BY <1>1 DEF Question
<1>3. asked \in Seq(Question)  BY DEF ScreenInv, StartInv, ScreenTypeOK
<1>10. PICK n : n = Len(asked)  OBVIOUS
<1>4. /\ asked' \in Seq(Question) /\ DOMAIN asked' = 1..(n + 1) /\ DOMAIN asked = 1..n
      /\ n \in Nat /\ (\A j \in 1..n : asked'[j] = asked[j]) /\ asked'[n + 1] = q
  BY <1>1, <1>2, <1>3, <1>10, OneMore
<1>5. ScreenTypeOK'  BY <1>4 DEF ScreenInv, StartInv, ScreenTypeOK
<1>6. AskedFromStart' /\ UnknownFirst' /\ ShownFromStart'
  <2>1. AskedFromStart'  BY <1>2, <1>4 DEF ScreenInv, StartInv, AskedFromStart
  <2>2. UnknownFirst'  BY <1>2, <1>4 DEF ScreenInv, StartInv, UnknownFirst
  <2> QED  BY <2>1, <2>2 DEF ScreenInv, StartInv, ShownFromStart
<1>7. TipsComing'
  <2>1. CASE kind = "tips"
    <3>1. LastOf("tips", n + 1)' /\ asked'[n + 1].word = text'
      BY <1>2, <1>4, <2>1 DEF LastOf
    <3> QED  BY <1>4, <3>1 DEF TipsComing
  <2>2. CASE kind = "poi"
    <3>1. \A i \in 1..n : LastOf("tips", i) => LastOf("tips", i)'
      BY <1>2, <1>4, <2>2 DEF LastOf
    <3>2. NoneOf("tips") => NoneOf("tips")'
      BY <1>2, <1>4, <2>2 DEF NoneOf
    <3> QED  BY <1>4, <2>2, <3>1, <3>2 DEF ScreenInv, TipsComing
  <2> QED  BY <2>1, <2>2
<1>8. RouteComing'
  <2>1. \A i \in 1..n : LastOf("route", i) => LastOf("route", i)'
    BY <1>2, <1>4 DEF LastOf
  <2>2. NoneOf("route") => NoneOf("route")'
    BY <1>2, <1>4 DEF NoneOf
  <2> QED  BY <1>4, <2>1, <2>2 DEF ScreenInv, RouteComing
<1>9. RoutesHaveStart'
  BY <1>2, <1>4 DEF ScreenInv, RoutesHaveStart
<1> QED  BY <1>5, <1>6, <1>7, <1>8, <1>9 DEF ScreenInv, StartInv

LEMMA AskingStep ==
    ASSUME ScreenInv, Searched \/ \E word \in MaybePlace : Typed(word)
    PROVE  ScreenInv'
<1>1. CASE Searched
  <2>1. text \in MaybePlace  BY DEF ScreenInv, StartInv, ScreenTypeOK
  <2> QED  BY <1>1, <2>1, WordAsked DEF Searched, Ask
<1>2. ASSUME NEW word \in MaybePlace, Typed(word), word # Nothing  PROVE ScreenInv'
  BY <1>2, WordAsked DEF Typed, Ask
<1>3. ASSUME Typed(Nothing)  PROVE ScreenInv'
  <2>1. /\ text' = Nothing
        /\ UNCHANGED <<tips, startPoint, endPoint, isAddSelfMarker, selfMarker, pins, route,
                       asked, orderly>>
    BY <1>3 DEF Typed
  <2>2. ScreenTypeOK'
    BY <2>1 DEF ScreenInv, StartInv, ScreenTypeOK, MaybePlace
  <2>3. AskedFromStart' /\ UnknownFirst' /\ ShownFromStart'
    BY <2>1 DEF ScreenInv, StartInv, AskedFromStart, UnknownFirst, ShownFromStart
  <2>4. TipsComing' /\ RouteComing' /\ RoutesHaveStart'
    BY <2>1 DEF ScreenInv, TipsComing, RouteComing, RoutesHaveStart, LastOf, NoneOf
  <2> QED  BY <2>2, <2>3, <2>4 DEF ScreenInv, StartInv
<1> QED  BY <1>1, <1>2, <1>3

\* A question is answered: what holds of the others still does.
LEMMA AnsweredKeeps ==
    ASSUME StartInv, NEW i \in DOMAIN asked, asked' = RemoveAt(asked, i), UNCHANGED startPoint
    PROVE  asked' \in Seq(Question) /\ AskedFromStart' /\ UnknownFirst'
<1>1. asked \in Seq(Question)  BY DEF StartInv, ScreenTypeOK
<1> DEFINE old(j) == IF j < i THEN j ELSE j + 1
<1>2. /\ asked' \in Seq(Question)
      /\ \A j \in DOMAIN asked' : asked'[j] = asked[old(j)] /\ old(j) \in DOMAIN asked
  BY <1>1, OneLess
<1>3. \A j, k \in DOMAIN asked' : j < k => old(j) < old(k)
  <2>1. i \in Int /\ \A j \in DOMAIN asked' : j \in Int  BY <1>1, <1>2
  <2> QED  BY <2>1
<1> HIDE DEF old
<1>4. AskedFromStart'
  BY <1>2 DEF StartInv, AskedFromStart
<1>5. UnknownFirst'
  BY <1>2, <1>3 DEF StartInv, UnknownFirst
<1> QED  BY <1>2, <1>4, <1>5

\* The first question is answered: the others move up by one.
LEMMA FirstAnswered ==
    ASSUME asked \in Seq(Question), 1 \in DOMAIN asked, asked' = RemoveAt(asked, 1),
           NEW kind
    PROVE  /\ NoneOf(kind) => NoneOf(kind)'
           /\ LastOf(kind, 1) => NoneOf(kind)'
           /\ \A i \in DOMAIN asked : i > 1 /\ LastOf(kind, i) =>
                /\ i - 1 \in DOMAIN asked' /\ LastOf(kind, i - 1)'
                /\ asked'[i - 1] = asked[i]
<1>1. PICK n \in Nat : n = Len(asked)  OBVIOUS
<1>2. DOMAIN asked = 1..n /\ n > 0  BY <1>1
<1>3. asked' \in Seq(Question) /\ Len(asked') = n - 1
      /\ \A j \in DOMAIN asked' : asked'[j] = asked[IF j < 1 THEN j ELSE j + 1]
  BY <1>1, OneLess
<1>4. DOMAIN asked' = 1..(n - 1)  BY <1>2, <1>3
<1>5. \A j \in 1..(n - 1) : asked'[j] = asked[j + 1] /\ j + 1 \in 1..n
  BY <1>3, <1>4
<1>6. (NoneOf(kind) => NoneOf(kind)') /\ (LastOf(kind, 1) => NoneOf(kind)')
  <2>1. \A j \in 1..(n - 1) : j + 1 > 1  OBVIOUS
  <2>2. ASSUME NoneOf(kind) \/ LastOf(kind, 1), NEW j \in 1..(n - 1)
        PROVE  asked'[j].kind # kind
    <3>1. j + 1 \in DOMAIN asked /\ asked'[j] = asked[j + 1]  BY <1>2, <1>5
    <3> QED  BY <2>1, <2>2, <3>1 DEF NoneOf, LastOf
  <2> QED  BY <1>4, <2>2 DEF NoneOf
<1>7. ASSUME NEW i \in 1..n, i > 1, LastOf(kind, i)
      PROVE  /\ i - 1 \in DOMAIN asked' /\ LastOf(kind, i - 1)'
             /\ asked'[i - 1] = asked[i]
  <2>1. PICK k \in 1..(n - 1) : k = i - 1 /\ asked'[k] = asked[i]
    <3>1. i - 1 \in 1..(n - 1) /\ (i - 1) + 1 = i  BY <1>7
    <3> QED  BY <1>5, <3>1
  <2>2. asked'[k].kind = kind /\ \A j \in 1..(n - 1) : j > k => asked'[j].kind # kind
    BY <1>2, <1>5, <1>7, <2>1 DEF LastOf
  <2>3. LastOf(kind, k)'  BY <1>4, <2>2 DEF LastOf
  <2> QED  BY <1>4, <2>1, <2>3
<1> QED  BY <1>2, <1>6, <1>7

\* What the first question was not about is still on its way.
LEMMA TipsStillComing ==
    ASSUME TipsComing, orderly, asked \in Seq(Question), 1 \in DOMAIN asked,
           asked[1].kind # "tips", asked' = RemoveAt(asked, 1), UNCHANGED <<text, tips>>
    PROVE  TipsComing'
<1> SUFFICES ASSUME text # Nothing
             PROVE  \/ \E k \in DOMAIN asked' : LastOf("tips", k)' /\ asked'[k].word = text
                    \/ NoneOf("tips")' /\ tips = text
  BY DEF TipsComing
<1>1. CASE NoneOf("tips") /\ tips = text  BY <1>1, FirstAnswered
<1>2. CASE \E k \in DOMAIN asked : LastOf("tips", k) /\ asked[k].word = text
  <2>1. PICK k \in DOMAIN asked : LastOf("tips", k) /\ asked[k].word = text  BY <1>2
  <2>2. k > 1
    <3>1. k \in 1..Len(asked) /\ k # 1  BY <2>1 DEF LastOf
    <3> QED  BY <3>1
  <2> QED  BY <2>1, <2>2, FirstAnswered
<1> QED  BY <1>1, <1>2 DEF TipsComing

LEMMA RouteStillComing ==
    ASSUME RouteComing, orderly, asked \in Seq(Question), 1 \in DOMAIN asked,
           asked[1].kind # "route", asked' = RemoveAt(asked, 1), UNCHANGED <<route, endPoint>>
    PROVE  RouteComing'
<1> SUFFICES \/ \E k \in DOMAIN asked' : LastOf("route", k)' /\ asked'[k].to = endPoint
             \/ /\ NoneOf("route")'
                /\ route # NoRoute => route.to = route.end /\ route.end = endPoint
  BY DEF RouteComing
<1>1. CASE NoneOf("route") /\ (route # NoRoute => route.to = route.end /\ route.end = endPoint)
  BY <1>1, FirstAnswered
<1>2. CASE \E k \in DOMAIN asked : LastOf("route", k) /\ asked[k].to = endPoint
  <2>1. PICK k \in DOMAIN asked : LastOf("route", k) /\ asked[k].to = endPoint  BY <1>2
  <2>2. k > 1
    <3>1. k \in 1..Len(asked) /\ k # 1  BY <2>1 DEF LastOf
    <3> QED  BY <3>1
  <2> QED  BY <2>1, <2>2, FirstAnswered
<1> QED  BY <1>1, <1>2 DEF RouteComing

LEMMA StillHaveStart ==
    ASSUME RoutesHaveStart, orderly, asked \in Seq(Question), NEW i \in DOMAIN asked,
           asked' = RemoveAt(asked, i), UNCHANGED route
    PROVE  RoutesHaveStart'
<1>1. \A j \in DOMAIN asked' : \E k \in DOMAIN asked : asked'[j] = asked[k]
  BY OneLess
<1> QED  BY <1>1 DEF RoutesHaveStart

LEMMA GetInputtipsStep ==
    ASSUME ScreenInv, NEW i \in 1..MaxAsked, GetInputtips(i)
    PROVE  ScreenInv'
<1>1. /\ i \in DOMAIN asked /\ asked[i].kind = "tips" /\ orderly' = (orderly /\ i = 1)
      /\ tips' = asked[i].word /\ asked' = RemoveAt(asked, i)
      /\ UNCHANGED <<text, startPoint, endPoint, isAddSelfMarker, selfMarker, pins, route>>
  BY DEF GetInputtips, Answers
<1>2. asked \in Seq(Question) /\ orderly \in BOOLEAN
  BY DEF ScreenInv, StartInv, ScreenTypeOK
<1>3. orderly' \in BOOLEAN /\ (orderly' => orderly /\ i = 1)
  BY <1>1, <1>2
<1>4. asked' \in Seq(Question) /\ AskedFromStart' /\ UnknownFirst'
  BY <1>1, AnsweredKeeps DEF ScreenInv
<1>5. tips' \in MaybePlace
  <2>1. asked[i] \in Question  BY <1>1, <1>2
  <2> QED  BY <1>1, <2>1 DEF Question
<1>6. ScreenTypeOK'  BY <1>1, <1>3, <1>4, <1>5 DEF ScreenInv, StartInv, ScreenTypeOK
<1>7. ShownFromStart'  BY <1>1 DEF ScreenInv, StartInv, ShownFromStart
<1>8. ASSUME orderly'  PROVE TipsComing' /\ RouteComing' /\ RoutesHaveStart'
  <2>1. orderly /\ i = 1 /\ 1 \in DOMAIN asked  BY <1>1, <1>3, <1>8
  <2>2. asked' = RemoveAt(asked, 1)  BY <1>1, <2>1
  <2>3. TipsComing'
    <3> SUFFICES ASSUME text # Nothing
                 PROVE  \/ \E k \in DOMAIN asked' : LastOf("tips", k)' /\ asked'[k].word = text
                        \/ NoneOf("tips")' /\ tips' = text
      BY <1>1 DEF TipsComing
    <3>1. ~NoneOf("tips")  BY <1>1 DEF NoneOf
    <3>2. PICK k \in DOMAIN asked : LastOf("tips", k) /\ asked[k].word = text
      BY <2>1, <3>1 DEF ScreenInv, TipsComing
    <3>3. CASE k = 1
      BY <1>1, <1>2, <2>1, <2>2, <3>2, <3>3, FirstAnswered
    <3>4. CASE k > 1
      BY <1>2, <2>1, <2>2, <3>2, <3>4, FirstAnswered
    <3>5. k \in 1..Len(asked)  BY <1>2
    <3> QED  BY <3>3, <3>4, <3>5
  <2>4. RouteComing' /\ RoutesHaveStart'
    BY <1>1, <1>2, <2>1, <2>2, RouteStillComing, StillHaveStart DEF ScreenInv
  <2> QED  BY <2>3, <2>4
<1>9. ASSUME ~orderly'  PROVE TipsComing' /\ RouteComing' /\ RoutesHaveStart'
  BY <1>9 DEF TipsComing, RouteComing, RoutesHaveStart
<1> QED  BY <1>4, <1>6, <1>7, <1>8, <1>9 DEF ScreenInv, StartInv

\* An answer that is an error, or about nothing.
LEMMA NoAnswerStep ==
    ASSUME ScreenInv, NEW i \in 1..MaxAsked, NoAnswer(i)
    PROVE  ScreenInv'
<1>1. /\ i \in DOMAIN asked /\ orderly' = (orderly /\ i = 1 /\ NothingToFind(asked[i]))
      /\ asked' = RemoveAt(asked, i)
      /\ UNCHANGED <<text, tips, startPoint, endPoint, isAddSelfMarker, selfMarker,
                     pins, route>>
  BY DEF NoAnswer
<1>2. asked \in Seq(Question) /\ orderly \in BOOLEAN
  BY DEF ScreenInv, StartInv, ScreenTypeOK
<1>3. /\ orderly' \in BOOLEAN
      /\ orderly' => orderly /\ i = 1 /\ NothingToFind(asked[i])
  BY <1>1, <1>2 DEF NothingToFind
<1>4. asked' \in Seq(Question) /\ AskedFromStart' /\ UnknownFirst'
  BY <1>1, AnsweredKeeps DEF ScreenInv
<1>5. ScreenTypeOK'  BY <1>1, <1>3, <1>4 DEF ScreenInv, StartInv, ScreenTypeOK
<1>6. ShownFromStart'  BY <1>1 DEF ScreenInv, StartInv, ShownFromStart
<1>7. ASSUME orderly'  PROVE TipsComing' /\ RouteComing' /\ RoutesHaveStart'
  <2>1. orderly /\ i = 1 /\ 1 \in DOMAIN asked /\ NothingToFind(asked[1])
    BY <1>1, <1>3, <1>7
  <2>2. asked' = RemoveAt(asked, 1)  BY <1>1, <2>1
  <2>3. TipsComing'
    <3>1. asked[1].kind # "tips"  BY <2>1 DEF NothingToFind
    <3> QED  BY <1>1, <1>2, <2>1, <2>2, <3>1, TipsStillComing DEF ScreenInv
  <2>4. RoutesHaveStart'
    BY <1>1, <1>2, <2>1, <2>2, StillHaveStart DEF ScreenInv
  <2>5. RouteComing'
    <3>1. CASE asked[1].kind # "route"
      BY <1>1, <1>2, <2>1, <2>2, <3>1, RouteStillComing DEF ScreenInv
    <3>2. CASE asked[1].kind = "route"
      <4>1. asked[1].from = Nothing  BY <2>1, <3>2 DEF NothingToFind
      <4>2. route = NoRoute  BY <2>1, <3>2, <4>1 DEF ScreenInv, RoutesHaveStart
      <4>3. PICK k \in DOMAIN asked : LastOf("route", k) /\ asked[k].to = endPoint
        BY <2>1, <3>2 DEF ScreenInv, RouteComing, NoneOf
      <4>4. CASE k = 1
        <5>1. NoneOf("route")'  BY <1>2, <2>1, <2>2, <4>3, <4>4, FirstAnswered
        <5> QED  BY <1>1, <4>2, <5>1 DEF RouteComing
      <4>5. CASE k > 1
        <5>1. /\ k - 1 \in DOMAIN asked' /\ LastOf("route", k - 1)'
              /\ asked'[k - 1] = asked[k]
          BY <1>2, <2>1, <2>2, <4>3, <4>5, FirstAnswered
        <5> QED  BY <1>1, <4>3, <5>1 DEF RouteComing
      <4>6. k \in 1..Len(asked)  BY <1>2
      <4> QED  BY <4>4, <4>5, <4>6
    <3> QED  BY <3>1, <3>2
  <2> QED  BY <2>3, <2>4, <2>5
<1>8. ASSUME ~orderly'  PROVE TipsComing' /\ RouteComing' /\ RoutesHaveStart'
  BY <1>8 DEF TipsComing, RouteComing, RoutesHaveStart
<1> QED  BY <1>4, <1>5, <1>6, <1>7, <1>8 DEF ScreenInv, StartInv

LEMMA DriveRouteStep ==
    ASSUME ScreenInv, NEW i \in 1..MaxAsked, DriveRouteSearched(i)
    PROVE  ScreenInv'
<1>1. /\ i \in DOMAIN asked /\ asked[i].kind = "route" /\ orderly' = (orderly /\ i = 1)
      /\ asked[i].from # Nothing /\ selfMarker' = Nothing /\ pins' = {}
      /\ route' = [from |-> asked[i].from, to |-> asked[i].to,
                   start |-> startPoint, end |-> endPoint]
      /\ asked' = RemoveAt(asked, i)
      /\ UNCHANGED <<text, tips, startPoint, endPoint, isAddSelfMarker>>
  BY DEF DriveRouteSearched, Answers
<1>2. asked \in Seq(Question) /\ orderly \in BOOLEAN
  BY DEF ScreenInv, StartInv, ScreenTypeOK
<1>3. orderly' \in BOOLEAN /\ (orderly' => orderly /\ i = 1)
  BY <1>1, <1>2
<1>4. asked' \in Seq(Question) /\ AskedFromStart' /\ UnknownFirst'
  BY <1>1, AnsweredKeeps DEF ScreenInv
<1>5. asked[i].from \in MaybePlace /\ asked[i].to \in Place /\ asked[i].from = startPoint
  <2>1. asked[i] \in Question  BY <1>1, <1>2
  <2> QED  BY <1>1, <2>1 DEF Question, ScreenInv, StartInv, AskedFromStart
<1>6. /\ route' \in [from : MaybePlace, to : MaybePlace, start : MaybePlace, end : MaybePlace]
      /\ route'.from = route'.start /\ route'.to = asked[i].to /\ route'.end = endPoint
  BY <1>1, <1>5 DEF ScreenInv, StartInv, ScreenTypeOK, MaybePlace
<1>7. ScreenTypeOK'
  BY <1>1, <1>3, <1>4, <1>6 DEF ScreenInv, StartInv, ScreenTypeOK, MaybePlace
<1>8. ShownFromStart'  BY <1>1, <1>5, <1>6 DEF ShownFromStart
<1>9. ASSUME orderly'  PROVE TipsComing' /\ RouteComing' /\ RoutesHaveStart'
  <2>1. orderly /\ i = 1 /\ 1 \in DOMAIN asked  BY <1>1, <1>3, <1>9
  <2>2. asked' = RemoveAt(asked, 1)  BY <1>1, <2>1
  <2>3. TipsComing'
    BY <1>1, <1>2, <2>1, <2>2, TipsStillComing DEF ScreenInv
  <2>4. RoutesHaveStart'
    <3>1. \A j \in DOMAIN asked' : \E k \in DOMAIN asked : k > 1 /\ asked'[j] = asked[k]
      <4>1. \A j \in DOMAIN asked' : /\ asked'[j] = asked[IF j < 1 THEN j ELSE j + 1]
                                    /\ (IF j < 1 THEN j ELSE j + 1) \in DOMAIN asked
        BY <1>2, <2>1, <2>2, OneLess
      <4>2. \A j \in DOMAIN asked' : j \in Int /\ j >= 1  BY <1>4
      <4> QED  BY <4>1, <4>2
    <3>2. \A k \in DOMAIN asked : k > 1 /\ asked[k].kind = "route" => asked[k].from # Nothing
      BY <1>1, <2>1 DEF ScreenInv, StartInv, UnknownFirst
    <3> QED  BY <3>1, <3>2 DEF RoutesHaveStart
  <2>5. RouteComing'
    <3>1. PICK k \in DOMAIN asked : LastOf("route", k) /\ asked[k].to = endPoint
      BY <1>1, <2>1 DEF ScreenInv, RouteComing, NoneOf
    <3>2. CASE k = 1
      <4>1. NoneOf("route")'  BY <1>2, <2>1, <2>2, <3>1, <3>2, FirstAnswered
      <4>2. route'.to = route'.end /\ route'.end = endPoint'  BY <1>1, <1>6, <2>1, <3>1, <3>2
      <4> QED  BY <4>1, <4>2 DEF RouteComing
    <3>3. CASE k > 1
      <4>1. /\ k - 1 \in DOMAIN asked' /\ LastOf("route", k - 1)'
            /\ asked'[k - 1] = asked[k]
        BY <1>2, <2>1, <2>2, <3>1, <3>3, FirstAnswered
      <4> QED  BY <1>1, <3>1, <4>1 DEF RouteComing
    <3>4. k \in 1..Len(asked)  BY <1>2
    <3> QED  BY <3>2, <3>3, <3>4
  <2> QED  BY <2>3, <2>4, <2>5
<1>10. ASSUME ~orderly'  PROVE TipsComing' /\ RouteComing' /\ RoutesHaveStart'
  BY <1>10 DEF TipsComing, RouteComing, RoutesHaveStart
<1> QED  BY <1>4, <1>7, <1>8, <1>9, <1>10 DEF ScreenInv, StartInv

\* The place is found, and the question for its route goes to the end of the queue.
LEMMA PoiSearchedStep ==
    ASSUME ScreenInv, NEW i \in 1..MaxAsked, PoiSearched(i)
    PROVE  ScreenInv'
<1>1. PICK q : q = [kind |-> "route", from |-> startPoint, to |-> asked[i].word]  OBVIOUS
<1>2. /\ i \in DOMAIN asked /\ asked[i].kind = "poi" /\ orderly' = (orderly /\ i = 1)
      /\ asked[i].word # Nothing /\ pins' = pins \cup {asked[i].word}
      /\ endPoint' = asked[i].word /\ asked' = Append(RemoveAt(asked, i), q)
      /\ UNCHANGED <<text, tips, startPoint, isAddSelfMarker, selfMarker, route>>
  BY <1>1 DEF PoiSearched, Answers
<1>3. asked \in Seq(Question) /\ orderly \in BOOLEAN /\ startPoint \in MaybePlace
  BY DEF ScreenInv, StartInv, ScreenTypeOK
<1>4. orderly' \in BOOLEAN /\ (orderly' => orderly /\ i = 1)
  BY <1>2, <1>3
<1>5. asked[i].word \in Place
  <2>1. asked[i] \in Question  BY <1>2, <1>3
  <2> QED  BY <1>2, <2>1 DEF Question, MaybePlace
<1>6. /\ q \in Question /\ q.kind = "route" /\ q.from = startPoint
      /\ q.to = asked[i].word
  BY <1>1, <1>3, <1>5 DEF Question
<1>7. PICK n \in Nat : n = Len(asked)  BY <1>3
<1>8. i \in 1..n /\ DOMAIN asked = 1..n  BY <1>2, <1>3, <1>7
<1> DEFINE old(j) == IF j < i THEN j ELSE j + 1
<1>9. PICK r : r = RemoveAt(asked, i)  OBVIOUS
<1>10. /\ r \in Seq(Question) /\ Len(r) = n - 1
       /\ \A j \in 1..(n - 1) : r[j] = asked[old(j)] /\ old(j) \in 1..n
  BY <1>3, <1>7, <1>8, <1>9, OneLess
<1>11. /\ asked' \in Seq(Question) /\ DOMAIN asked' = 1..n /\ asked'[n] = q
       /\ \A j \in 1..(n - 1) : asked'[j] = asked[old(j)] /\ old(j) \in 1..n
  <2>1. asked' = Append(r, q)  BY <1>2, <1>9
  <2>2. r \in Seq(Question) /\ Len(r) = n - 1  BY <1>10
  <2>3. /\ asked' \in Seq(Question) /\ DOMAIN asked' = 1..((n - 1) + 1)
        /\ asked'[(n - 1) + 1] = q
        /\ \A j \in 1..(n - 1) : asked'[j] = r[j]
    BY <1>6, <2>1, <2>2, OneMore
  <2>4. (n - 1) + 1 = n  BY <1>8
  <2> QED  BY <1>10, <2>3, <2>4
<1>12. \A j, k \in 1..(n - 1) : j < k => old(j) < old(k)  BY <1>8
<1>13. \A j \in 1..n : j = n \/ j \in 1..(n - 1)  OBVIOUS
<1>14. ScreenTypeOK'
  BY <1>2, <1>4, <1>5, <1>11 DEF ScreenInv, StartInv, ScreenTypeOK, MaybePlace
<1>15. \A k \in 1..n : asked[k].kind = "route" => asked[k].from \in {startPoint, Nothing}
  BY <1>8 DEF ScreenInv, StartInv, AskedFromStart
<1>16. AskedFromStart'
  BY <1>2, <1>6, <1>11, <1>13, <1>15 DEF AskedFromStart
<1>17. UnknownFirst'
  <2> SUFFICES ASSUME NEW j \in 1..n, NEW k \in 1..n, j < k, asked'[j].kind = "route",
                      asked'[k].kind = "route", asked'[j].from # Nothing
               PROVE  asked'[k].from # Nothing
    BY <1>11 DEF UnknownFirst
  <2>1. j \in 1..(n - 1)  OBVIOUS
  <2>2. CASE k = n
    BY <1>6, <1>11, <1>15, <2>1, <2>2
  <2>3. CASE k \in 1..(n - 1)
    <3>1. /\ asked'[j] = asked[old(j)] /\ asked'[k] = asked[old(k)] /\ old(j) < old(k)
          /\ old(j) \in DOMAIN asked /\ old(k) \in DOMAIN asked
      BY <1>8, <1>11, <1>12, <2>1, <2>3
    <3> HIDE DEF old
    <3> QED  BY <3>1 DEF ScreenInv, StartInv, UnknownFirst
  <2> QED  BY <1>13, <2>2, <2>3
<1>18. ShownFromStart'  BY <1>2 DEF ScreenInv, StartInv, ShownFromStart
<1>19. ASSUME orderly'  PROVE TipsComing' /\ RouteComing' /\ RoutesHaveStart'
  <2>1. orderly /\ i = 1  BY <1>4, <1>19
  <2>2. \A j \in 1..(n - 1) : asked'[j] = asked[j + 1] /\ j + 1 \in 1..n
    BY <1>11, <2>1
  <2>3. TipsComing'
    <3> SUFFICES ASSUME text # Nothing
                 PROVE  \/ \E k \in 1..n : LastOf("tips", k)' /\ asked'[k].word = text
                        \/ NoneOf("tips")' /\ tips = text
      BY <1>2, <1>11 DEF TipsComing
    <3>1. CASE NoneOf("tips") /\ tips = text
      <4>1. ASSUME NEW j \in 1..n  PROVE asked'[j].kind # "tips"
        <5>1. CASE j = n  BY <1>6, <1>11, <5>1
        <5>2. CASE j \in 1..(n - 1)  BY <1>8, <2>2, <3>1, <5>2 DEF NoneOf
        <5> QED  BY <1>13, <5>1, <5>2
      <4> QED  BY <1>11, <3>1, <4>1 DEF NoneOf
    <3>2. CASE \E k \in DOMAIN asked : LastOf("tips", k) /\ asked[k].word = text
      <4>1. PICK k \in 1..n : LastOf("tips", k) /\ asked[k].word = text  BY <1>8, <3>2
      <4>2. k # 1  BY <1>2, <2>1, <4>1 DEF LastOf
      <4>3. PICK h \in 1..(n - 1) : h + 1 = k
        <5>1. k - 1 \in 1..(n - 1) /\ (k - 1) + 1 = k  BY <4>2
        <5> QED  BY <5>1
      <4>4. asked'[h] = asked[k] /\ h \in 1..n  BY <2>2, <4>3
      <4>5. ASSUME NEW j \in 1..n, j > h  PROVE asked'[j].kind # "tips"
        <5>1. CASE j = n  BY <1>6, <1>11, <5>1
        <5>2. CASE j \in 1..(n - 1)
          BY <1>8, <2>2, <4>1, <4>3, <4>5, <5>2 DEF LastOf
        <5> QED  BY <1>13, <5>1, <5>2
      <4>6. LastOf("tips", h)'
        BY <1>11, <4>1, <4>4, <4>5 DEF LastOf
      <4> QED  BY <4>1, <4>4, <4>6
    <3> QED  BY <2>1, <3>1, <3>2 DEF ScreenInv, TipsComing
  <2>4. RouteComing'
    <3>1. LastOf("route", n)' /\ asked'[n].to = endPoint'
      <4>1. n \in 1..n  BY <1>8
      <4> QED  BY <1>2, <1>6, <1>11, <4>1 DEF LastOf
    <3>2. n \in DOMAIN asked'  BY <1>8, <1>11
    <3> QED  BY <3>1, <3>2 DEF RouteComing
  <2>5. RoutesHaveStart'
    <3> SUFFICES ASSUME route # NoRoute, NEW j \in 1..n, asked'[j].kind = "route"
                 PROVE  asked'[j].from # Nothing
      BY <1>2, <1>11 DEF RoutesHaveStart
    <3>1. CASE j = n
      BY <1>6, <1>11, <3>1 DEF ScreenInv, StartInv, ShownFromStart
    <3>2. CASE j \in 1..(n - 1)
      BY <1>8, <2>1, <2>2, <3>2 DEF ScreenInv, RoutesHaveStart
    <3> QED  BY <1>13, <3>1, <3>2
  <2> QED  BY <2>3, <2>4, <2>5
<1>20. ASSUME ~orderly'  PROVE TipsComing' /\ RouteComing' /\ RoutesHaveStart'
  BY <1>20 DEF TipsComing, RouteComing, RoutesHaveStart
<1> QED  BY <1>14, <1>16, <1>17, <1>18, <1>19, <1>20 DEF ScreenInv, StartInv

LEMMA ScreenInvStep == ScreenInv /\ [ScreenNext]_screenVars => ScreenInv'
<1> SUFFICES ASSUME ScreenInv, [ScreenNext]_screenVars  PROVE ScreenInv'
  OBVIOUS
<1>1. CASE \E here \in Place : Located(here)  BY <1>1, LocatedStep
<1>2. CASE Searched \/ \E word \in MaybePlace : Typed(word)  BY <1>2, AskingStep
<1>3. CASE \E i \in 1..MaxAsked : \/ GetInputtips(i) \/ PoiSearched(i)
                                 \/ DriveRouteSearched(i) \/ NoAnswer(i)
  BY <1>3, GetInputtipsStep, PoiSearchedStep, DriveRouteStep, NoAnswerStep
<1>4. CASE UNCHANGED screenVars
  <2>1. StartInv'
    BY <1>4 DEF screenVars, ScreenInv, StartInv, ScreenTypeOK, AskedFromStart, UnknownFirst,
                ShownFromStart
  <2>2. TipsComing' /\ RouteComing' /\ RoutesHaveStart'
    BY <1>4 DEF screenVars, ScreenInv, TipsComing, RouteComing, RoutesHaveStart, LastOf, NoneOf
  <2> QED  BY <2>1, <2>2 DEF ScreenInv
<1> QED  BY <1>1, <1>2, <1>3, <1>4 DEF ScreenNext

LEMMA ScreenInvHolds == ScreenSpec => []ScreenInv
BY ScreenInit_Inv, ScreenInvStep, PTL DEF ScreenSpec

-----------------------------------------------------------------------------
\* The types of the activity's fields, whatever answers come and in what order
\* (PassengerActivity.java:52-58).
THEOREM ScreenIsTyped == ScreenSpec => []ScreenTypeOK
<1>1. ScreenInv => ScreenTypeOK  BY DEF ScreenInv, StartInv
<1> QED  BY <1>1, ScreenInvHolds, PTL

\* The route that is drawn starts where the marker of the start is put, for answers
\* in any order and with errors: the start does not follow the passenger
\* (PassengerActivity.java:133-136, 208, 233).
THEOREM RoutesStartAtStart == ScreenSpec => []RouteStartsAtStart
<1>1. ScreenInv => RouteStartsAtStart
  BY DEF ScreenInv, StartInv, ShownFromStart, RouteStartsAtStart
<1> QED  BY <1>1, ScreenInvHolds, PTL

\* When the answers came in turn and none is missing, the screen is about what was
\* typed and searched last, however many questions were under way at once
\* (PassengerActivity.java:184-187, 229-235, 331).
THEOREM ScreenSettles == ScreenSpec => []SettledScreen
<1>1. ScreenInv => SettledScreen
  <2> SUFFICES ASSUME ScreenInv, orderly, asked = <<>>
               PROVE  /\ text # Nothing => tips = text
                      /\ route # NoRoute => route.to = route.end /\ route.end = endPoint
    BY DEF SettledScreen
  <2>1. DOMAIN asked = {}  OBVIOUS
  <2> QED  BY <2>1 DEF ScreenInv, TipsComing, RouteComing
<1> QED  BY <1>1, ScreenInvHolds, PTL
=============================================================================
