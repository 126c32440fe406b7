---------------------------- MODULE PassengerScreen ----------------------------
(***************************************************************************)
(* The passenger's map (PassengerActivity): the field for the destination  *)
(* with its tips, the search for the destination and the route that is     *)
(* drawn.  Every question to the map service is asynchronous; its answer   *)
(* is a callback on the UI thread, which reads and writes the fields of    *)
(* the activity as they are when it comes.  A place stands for its name,   *)
(* for its coordinates and for the tips its name has.                      *)
(***************************************************************************)
EXTENDS Naturals, SequencesExt

CONSTANTS
    Place,      \* what a passenger may type, and where one may be
    Nothing,    \* an empty field, a null reference
    MaxAsked    \* BOUND: the questions that are under way at once

ASSUME ScreenBounds ==
    /\ Nothing \notin Place
    /\ MaxAsked \in Nat

VARIABLES
    text,           \* _attv_dstAddr: the destination as typed
    tips,           \* the adapter of that field: the word its tips belong to
    startPoint,     \* _startPoint
    endPoint,       \* _endPoint
    isAddSelfMarker,
    selfMarker,     \* where the marker of the passenger is on the map
    pins,           \* the markers of the places that were found
    route,          \* the route on the map, and the ends it is shown with
    asked,          \* the questions under way
    orderly         \* history: every answer came in turn and without an error

screenVars == <<text, tips, startPoint, endPoint, isAddSelfMarker, selfMarker,
                pins, route, asked, orderly>>

MaybePlace == Place \cup {Nothing}

Question == [kind : {"tips", "poi"}, word : MaybePlace]
              \cup [kind : {"route"}, from : MaybePlace, to : Place]

NoRoute == [from |-> Nothing, to |-> Nothing, start |-> Nothing, end |-> Nothing]

\* Every field has its type.
ScreenTypeOK ==
    /\ text \in MaybePlace /\ tips \in MaybePlace
    /\ startPoint \in MaybePlace /\ endPoint \in MaybePlace
    /\ isAddSelfMarker \in BOOLEAN /\ selfMarker \in MaybePlace
    /\ pins \subseteq Place
    /\ route \in [from : MaybePlace, to : MaybePlace, start : MaybePlace, end : MaybePlace]
    /\ asked \in Seq(Question)
    /\ orderly \in BOOLEAN

ScreenInit ==
    /\ text = Nothing /\ tips = Nothing
    /\ startPoint = Nothing /\ endPoint = Nothing
    /\ isAddSelfMarker = FALSE /\ selfMarker = Nothing
    /\ pins = {}
    /\ route = NoRoute
    /\ asked = <<>>
    /\ orderly = TRUE

Ask(question) ==
    /\ Len(asked) < MaxAsked
    /\ asked' = Append(asked, question)

\* The answer to question i of the given kind arrives.
Answers(i, kind) ==
    /\ i \in DOMAIN asked
    /\ asked[i].kind = kind
    /\ orderly' = (orderly /\ i = 1)

-----------------------------------------------------------------------------
\* Mutant: the start follows the passenger.
MutLocated(here) ==
    /\ isAddSelfMarker' = TRUE
    /\ selfMarker' = IF isAddSelfMarker THEN selfMarker ELSE here
    /\ startPoint' = here
    /\ UNCHANGED <<text, tips, endPoint, pins, route, asked, orderly>>

\* onLocationChanged, every three seconds: the first position is marked, and
\* is where the ride starts.  A position that is an error changes nothing.
Located(here) ==
    /\ isAddSelfMarker' = TRUE
    /\ selfMarker' = IF isAddSelfMarker THEN selfMarker ELSE here
    /\ startPoint' = IF startPoint = Nothing THEN here ELSE startPoint
    /\ UNCHANGED <<text, tips, endPoint, pins, route, asked, orderly>>

\* onTextChanged: a word that is not empty is asked about.
Typed(word) ==
    /\ word # text
    /\ text' = word
    /\ IF word = Nothing THEN UNCHANGED asked
                         ELSE Ask([kind |-> "tips", word |-> word])
    /\ UNCHANGED <<tips, startPoint, endPoint, isAddSelfMarker, selfMarker, pins, route,
                   orderly>>

\* onGetInputtips: the list of the field becomes the one of the answer.
GetInputtips(i) ==
    /\ Answers(i, "tips")
    /\ tips' = asked[i].word
    /\ asked' = RemoveAt(asked, i)
    /\ UNCHANGED <<text, startPoint, endPoint, isAddSelfMarker, selfMarker, pins, route>>

\* onClick of the button: the typed word is searched, whether or not the
\* position of the passenger is known yet.
Searched ==
    /\ Ask([kind |-> "poi", word |-> text])
    /\ UNCHANGED <<text, tips, startPoint, endPoint, isAddSelfMarker, selfMarker,
                   pins, route, orderly>>

\* Mutant: the route is asked for before the destination is kept.
MutPoiSearched(i) ==
    /\ Answers(i, "poi")
    /\ asked[i].word # Nothing
    /\ pins' = pins \cup {asked[i].word}
    /\ endPoint' = asked[i].word
    /\ asked' = RemoveAt(asked, i) \o
                (IF endPoint = Nothing THEN <<>>
                 ELSE <<[kind |-> "route", from |-> startPoint, to |-> endPoint]>>)
    /\ UNCHANGED <<text, tips, startPoint, isAddSelfMarker, selfMarker, route>>

\* Mutant: the first place is taken from an empty list too.
MutPoiUnchecked(i) ==
    /\ Answers(i, "poi")
    /\ pins' = pins \cup {asked[i].word}
    /\ endPoint' = asked[i].word
    /\ asked' = Append(RemoveAt(asked, i),
                       [kind |-> "route", from |-> startPoint, to |-> asked[i].word])
    /\ UNCHANGED <<text, tips, startPoint, isAddSelfMarker, selfMarker, route>>

\* onPoiSearched: the first place found is marked and becomes the destination,
\* and drawRouteLine asks for the route to it.  Nothing is found for an empty
\* word, and then nothing changes (NoAnswer).
PoiSearched(i) ==
    /\ Answers(i, "poi")
    /\ asked[i].word # Nothing
    /\ pins' = pins \cup {asked[i].word}
    /\ endPoint' = asked[i].word
    /\ asked' = Append(RemoveAt(asked, i),
                       [kind |-> "route", from |-> startPoint, to |-> asked[i].word])
    /\ UNCHANGED <<text, tips, startPoint, isAddSelfMarker, selfMarker, route>>

\* onDriveRouteSearched: the map is cleared and the path of the answer drawn;
\* the ends it is shown with are the fields as they are now.  There is no
\* path from a position that was not known (NoAnswer).
DriveRouteSearched(i) ==
    /\ Answers(i, "route")
    /\ asked[i].from # Nothing
    /\ selfMarker' = Nothing
    /\ pins' = {}
    /\ route' = [from |-> asked[i].from, to |-> asked[i].to,
                 start |-> startPoint, end |-> endPoint]
    /\ asked' = RemoveAt(asked, i)
    /\ UNCHANGED <<text, tips, startPoint, endPoint, isAddSelfMarker>>

\* Nothing is found for an empty word, and no route from an unknown position.
NothingToFind(question) ==
    \/ question.kind = "poi" /\ question.word = Nothing
    \/ question.kind = "route" /\ question.from = Nothing

\* A callback whose code is not 1000, or an empty list of places.
NoAnswer(i) ==
    /\ i \in DOMAIN asked
    /\ orderly' = (orderly /\ i = 1 /\ NothingToFind(asked[i]))
    /\ asked' = RemoveAt(asked, i)
    /\ UNCHANGED <<text, tips, startPoint, endPoint, isAddSelfMarker, selfMarker,
                   pins, route>>

ScreenNext ==
    \/ \E here \in Place : Located(here)
    \/ \E word \in MaybePlace : Typed(word)
    \/ Searched
    \/ \E i \in 1..MaxAsked : \/ GetInputtips(i) \/ PoiSearched(i)
                              \/ DriveRouteSearched(i) \/ NoAnswer(i)

ScreenSpec == ScreenInit /\ [][ScreenNext]_screenVars

-----------------------------------------------------------------------------
\* The route on the map starts at the marker of its start, although the
\* passenger moves while the question is under way (PassengerActivity:133-136,
\* 208, 233).
RouteStartsAtStart == route # NoRoute => route.from = route.start

\* When every question is answered, and each was answered in its turn and without
\* an error, the screen is about what was typed and searched last: the tips belong
\* to the word in the field, and the route leads to the destination
\* (PassengerActivity:184-187, 229-235, 331).  The start may have been unknown when
\* it was asked for.
SettledScreen ==
    orderly /\ asked = <<>> =>
        /\ text # Nothing => tips = text
        /\ route # NoRoute => /\ route.to = route.end
                              /\ route.end = endPoint

(* What the comments say and the screen does not do                         *)

\* The tips are the words that match the keyword in the field ("the set of
\* words that can match", PassengerActivity:307), once every answer is there.
TipsMatchText ==
    [][tips' # tips /\ asked' = <<>> /\ text # Nothing => tips' = text]_screenVars

\* The route that is drawn leads to the destination it is shown with: "the first
\* place found is our point" (PassengerActivity:183).
RouteEndsAtEnd == route # NoRoute => route.to = route.end

\* Drawing a route removes the route before it ("delete the previous route",
\* PassengerActivity:236) and nothing else: the passenger's marker stays.
SelfMarkerStays == isAddSelfMarker => selfMarker # Nothing
=============================================================================
