------------------------------ MODULE LogProofs ------------------------------
(***************************************************************************)
(* The log files, for every calendar and any number of days: whatever      *)
(* killed calls, full disks and removed directories leave behind, the next *)
(* LOG asks for directories that can be created, and loses its message     *)
(* only for what happens while it runs.                                    *)
(***************************************************************************)
EXTENDS LogFiles, TLAPS

Call == [ at : {"none", "stamped", "dirs", "write", "unlock"},
          stamp : Day, day : Day, level : Level \cup {Nowhere},
          filed : BOOLEAN, disturbed : BOOLEAN ]

\* The types, with the records as records, and directories within directories
\* one level up.
DirsOK ==
    /\ \A e \in dirs : \E k \in Level, d \in Day : e = Dir(k, d)
    /\ \A k \in Level, d \in Day : k > 1 /\ Dir(k, d) \in dirs => Dir(k - 1, d) \in dirs

LogTypes ==
    /\ today \in Day
    /\ call \in Call /\ last \in Call
    /\ DirsOK
    /\ lock = (call.at \in {"write", "unlock"})

\* A call that nothing disturbed has created what is above the directory it asks
\* for next, and at the end its file has a place.
OnItsWay ==
    ~call.disturbed =>
        /\ call.at = "dirs" /\ call.level # Nowhere => Fits(call.level, call.day)
        /\ \/ call.at = "dirs" /\ call.level = Nowhere
           \/ call.at = "write"
           => Dir(4, call.day) \in dirs
        /\ call.at = "unlock" => call.filed

\* The path is made after the stamp.
InTime ==
    /\ call.at # "none" => call.stamp <= today
    /\ call.at \in {"dirs", "write", "unlock"} => call.stamp <= call.day

LogInv == LogTypes /\ OnItsWay /\ InTime /\ FiledUnlessDisturbed

-----------------------------------------------------------------------------
(* The directories *)

LEMMA DirLen == ASSUME NEW k \in Level, NEW d  PROVE Len(Dir(k, d)) = k
BY DEF Dir, Level

LEMMA DirParent ==
    ASSUME NEW k \in Level, NEW d, k > 1
    PROVE  SubSeq(Dir(k, d), 1, k - 1) = Dir(k - 1, d)
BY DEF Dir, Level

\* Outside the two places of out_put_file the mutex is free.
LEMMA FreeElsewhere ==
    ASSUME NEW at, NEW S, NEW held, at \notin S, held = FALSE
    PROVE  held = (at \in S)
<1>1. (at \in S) = FALSE  OBVIOUS
<1> QED  BY <1>1

\* Directories of different levels are different.
LEMMA DirLevel ==
    ASSUME NEW k \in Level, NEW j \in Level, NEW d, NEW e, Dir(k, d) = Dir(j, e)
    PROVE  k = j
BY DirLen

\* What lies in a directory that is removed is removed with it.
LEMMA PrefixParent ==
    ASSUME NEW k \in Level, NEW d, k > 1, NEW j \in Level, NEW b,
           IsPrefix(Dir(j, b), Dir(k - 1, d))
    PROVE  IsPrefix(Dir(j, b), Dir(k, d))
<1>1. /\ k - 1 \in Level /\ Len(Dir(j, b)) = j
      /\ Len(Dir(k - 1, d)) = k - 1 /\ Len(Dir(k, d)) = k
  <2>1. k - 1 \in Level  BY DEF Level
  <2> QED  BY <2>1, DirLen
<1>2. j <= k - 1 /\ SubSeq(Dir(j, b), 1, j) = SubSeq(Dir(k - 1, d), 1, j)
  BY <1>1 DEF IsPrefix
<1>3. SubSeq(Dir(k - 1, d), 1, j) = SubSeq(Dir(k, d), 1, j)
  BY <1>2 DEF Dir, Level
<1> QED  BY <1>1, <1>2, <1>3 DEF IsPrefix, Level

\* The first directory that is missing can be created; if none is, the last is there.
LEMMA FirstMissingFits ==
    ASSUME NEW d \in Day
    PROVE  /\ FirstMissing(d) \in Level \cup {Nowhere}
           /\ FirstMissing(d) # Nowhere => Fits(FirstMissing(d), d)
           /\ FirstMissing(d) = Nowhere => Dir(4, d) \in dirs
<1> DEFINE missing == {k \in Level : Dir(k, d) \notin dirs}
<1>1. CASE missing = {}
  BY <1>1 DEF FirstMissing, Level, Nowhere
<1>2. CASE missing # {}
  <2>1. \E m \in missing : \A k \in missing : m <= k  BY <1>2 DEF Level
  <2>2. Min(missing) \in missing /\ \A k \in missing : Min(missing) <= k
    BY <2>1 DEF Min
  <2>3. FirstMissing(d) = Min(missing)  BY <1>2 DEF FirstMissing
  <2>4. PICK m : m = FirstMissing(d)  OBVIOUS
  <2>5. m \in Level /\ Dir(m, d) \notin dirs /\ \A k \in missing : m <= k
    BY <2>2, <2>3, <2>4
  <2>6. m > 1 => Dir(m - 1, d) \in dirs  BY <2>5 DEF Level
  <2> QED  BY <2>4, <2>5, <2>6 DEF Fits, Level, Nowhere
<1> QED  BY <1>1, <1>2

-----------------------------------------------------------------------------
(* Each step keeps the invariant *)

USE CalendarIsNatural DEF Level, Nowhere

LEMMA NoCallType == NoCall \in Call
BY DEF NoCall, Call, Day

LEMMA LogInit_Inv == LogInit => LogInv
<1> SUFFICES ASSUME LogInit  PROVE LogInv
  OBVIOUS
<1>1. NoCall \in Call /\ NoCall.at = "none" /\ ~NoCall.disturbed
  BY NoCallType DEF NoCall
<1>2. lock = (call.at \in {"write", "unlock"})
  <2>1. call.at \notin {"write", "unlock"} /\ lock = FALSE  BY <1>1 DEF LogInit
  <2> QED  BY <2>1, FreeElsewhere
<1>3. today \in Day /\ DirsOK  BY DEF LogInit, DirsOK, Day
<1>4. LogTypes  BY <1>1, <1>2, <1>3 DEF LogInit, LogTypes
<1> QED
  BY <1>1, <1>4 DEF LogInit, LogInv, OnItsWay, InTime, FiledUnlessDisturbed

LEMMA StampStep == ASSUME LogInv, Stamp  PROVE LogInv'
<1> DEFINE c == [NoCall EXCEPT !.at = "stamped", !.stamp = today]
<1>1. /\ c \in Call /\ c.at = "stamped" /\ c.stamp = today
  BY NoCallType DEF Call, LogInv, LogTypes
<1>2. /\ call' = c /\ UNCHANGED <<today, dirs, lock, last>> /\ call.at = "none"
  BY DEF Stamp
<1> HIDE DEF c
<1> QED
  BY <1>1, <1>2 DEF LogInv, LogTypes, DirsOK, OnItsWay, InTime, FiledUnlessDisturbed, Fits, Day

LEMMA MakePathStep == ASSUME LogInv, MakePath  PROVE LogInv'
<1> DEFINE m == FirstMissing(today)
           c == [call EXCEPT !.at = "dirs", !.day = today, !.level = m]
<1>1. m \in Level \cup {Nowhere} /\ (m # Nowhere => Fits(m, today))
      /\ (m = Nowhere => Dir(4, today) \in dirs)
  BY FirstMissingFits DEF LogInv, LogTypes
<1> HIDE DEF m
<1>2. /\ c \in Call /\ c.at = "dirs" /\ c.day = today /\ c.level = m
      /\ c.stamp = call.stamp /\ c.stamp <= today
  BY <1>1 DEF Call, LogInv, LogTypes, MakePath, InTime
<1>3. call' = c /\ UNCHANGED <<today, dirs, lock, last>> /\ call.at = "stamped"
  BY DEF MakePath, m
<1> HIDE DEF c
<1> QED
  BY <1>1, <1>2, <1>3
     DEF LogInv, LogTypes, DirsOK, OnItsWay, InTime, FiledUnlessDisturbed, Fits

\* A directory that is made is below one that is there, and nothing is below it.
LEMMA MkdirStep == ASSUME LogInv, Mkdir  PROVE LogInv'
<1> PICK n, d : n = call.level /\ d = call.day
  OBVIOUS
<1> DEFINE c == [call EXCEPT !.level = AfterMkdir(n)]
<1>1. /\ n \in Level /\ d \in Day /\ call \in Call /\ call.at = "dirs"
      /\ dirs' = dirs \cup {Dir(n, d)} /\ call' = c
      /\ UNCHANGED <<today, lock, last>>
      /\ Dir(n, d) \notin dirs /\ (n > 1 => Dir(n - 1, d) \in dirs)
      /\ today \in Day /\ last \in Call
  BY DEF Mkdir, Fits, LogInv, LogTypes, Call
<1>2. /\ c \in Call /\ c.at = "dirs" /\ c.day = d /\ c.level = AfterMkdir(n)
      /\ c.stamp = call.stamp
  BY <1>1 DEF Call, AfterMkdir
<1> HIDE DEF c
<1>3. DirsOK'
  <2>1. ASSUME NEW k \in Level, NEW b \in Day, k > 1, Dir(k, b) \in dirs'
        PROVE  Dir(k - 1, b) \in dirs'
    <3>1. CASE Dir(k, b) \in dirs  BY <1>1, <2>1, <3>1 DEF LogInv, LogTypes, DirsOK
    <3>2. CASE Dir(k, b) = Dir(n, d)
      <4>1. k = n  BY <1>1, <3>2, DirLevel
      <4>2. Dir(k - 1, b) = Dir(n - 1, d)  BY <1>1, <2>1, <3>2, <4>1, DirParent
      <4> QED  BY <1>1, <2>1, <4>1, <4>2
    <3> QED  BY <1>1, <2>1, <3>1, <3>2
  <2> QED  BY <1>1, <2>1 DEF LogInv, LogTypes, DirsOK
<1>4. n < 4 => Fits(n + 1, d)'
  <2> SUFFICES ASSUME n < 4  PROVE Dir(n + 1, d) \notin dirs'
    BY <1>1, <1>2 DEF Fits
  <2>1. n + 1 \in Level  BY <1>1
  <2>2. Dir(n + 1, d) \notin dirs  BY <1>1, <2>1 DEF LogInv, LogTypes, DirsOK
  <2>3. Dir(n + 1, d) # Dir(n, d)  BY <1>1, <2>1, DirLevel
  <2> QED  BY <1>1, <2>2, <2>3
<1>5. OnItsWay'
  BY <1>1, <1>2, <1>4 DEF OnItsWay, AfterMkdir, Fits
<1> QED
  BY <1>1, <1>2, <1>3, <1>5 DEF LogInv, LogTypes, InTime, FiledUnlessDisturbed

LEMMA MkdirFailsStep == ASSUME LogInv, MkdirFails  PROVE LogInv'
<1> DEFINE f == call.disturbed \/ Fits(call.level, call.day)
           c == [call EXCEPT !.level = Nowhere, !.disturbed = f]
<1>1. /\ call.at = "dirs" /\ call.level # Nowhere /\ call \in Call
      /\ call' = c /\ UNCHANGED <<today, dirs, lock, last>>
  BY DEF MkdirFails, LogInv, LogTypes
<1>2. f = TRUE  BY <1>1 DEF LogInv, OnItsWay
<1> HIDE DEF f
<1>3. /\ c \in Call /\ c.at = "dirs" /\ c.disturbed /\ c.day = call.day
      /\ c.stamp = call.stamp
  BY <1>1, <1>2 DEF Call
<1> HIDE DEF c
<1> QED
  BY <1>1, <1>3 DEF LogInv, LogTypes, DirsOK, OnItsWay, InTime, FiledUnlessDisturbed

LEMMA WritingStep == ASSUME LogInv, Lock \/ Write \/ WriteFails  PROVE LogInv'
<1>1. /\ call \in Call /\ today \in Day /\ last \in Call
      /\ lock = (call.at \in {"write", "unlock"})
      /\ UNCHANGED <<today, dirs, last>>
  BY DEF LogInv, LogTypes, Lock, Write, WriteFails
<1>2. ASSUME NEW at \in {"write", "unlock"}, NEW filed \in BOOLEAN,
             NEW disturbed \in BOOLEAN,
             call' = [call EXCEPT !.at = at, !.filed = filed, !.disturbed = disturbed],
             lock' = TRUE, call.at \in {"dirs", "write"},
             ~disturbed => ~call.disturbed,
             ~disturbed /\ at = "write" => call.at = "dirs" /\ call.level = Nowhere,
             ~disturbed /\ at = "unlock" => filed
      PROVE  LogInv'
  <2>1. /\ call' \in Call /\ call'.at = at /\ call'.filed = filed
        /\ call'.disturbed = disturbed /\ call'.day = call.day /\ call'.stamp = call.stamp
    BY <1>1, <1>2 DEF Call
  <2>2. lock' = (call'.at \in {"write", "unlock"})
    <3>1. call'.at \in {"write", "unlock"} /\ lock' = TRUE  BY <1>2, <2>1
    <3> QED  BY <3>1, FreeElsewhere
  <2>3. LogTypes'  BY <1>1, <2>1, <2>2 DEF LogInv, LogTypes, DirsOK
  <2>4. OnItsWay'  BY <1>1, <1>2, <2>1 DEF LogInv, OnItsWay
  <2>5. InTime' /\ FiledUnlessDisturbed'
    BY <1>1, <1>2, <2>1 DEF LogInv, InTime, FiledUnlessDisturbed
  <2> QED  BY <2>3, <2>4, <2>5 DEF LogInv
<1>3. CASE Lock
  <2>1. call' = [call EXCEPT !.at = "write", !.filed = call.filed,
                             !.disturbed = call.disturbed]
    BY <1>1, <1>3 DEF Lock, Call
  <2> QED  BY <1>1, <1>2, <1>3, <2>1 DEF Lock, Call
<1>4. CASE Write
  <2>1. call' = [call EXCEPT !.at = "unlock", !.filed = TRUE,
                             !.disturbed = call.disturbed]
    BY <1>1, <1>4 DEF Write, Call
  <2> QED  BY <1>1, <1>2, <1>4, <2>1 DEF Write, Call
<1>5. CASE WriteFails
  <2> DEFINE f == call.disturbed \/ Dir(4, call.day) \in dirs
  <2>1. f = TRUE  BY <1>1, <1>5 DEF WriteFails, LogInv, OnItsWay, Call
  <2>2. call' = [call EXCEPT !.at = "unlock", !.filed = call.filed, !.disturbed = f]
    BY <1>1, <1>5 DEF WriteFails, Call
  <2> HIDE DEF f
  <2> QED  BY <1>1, <1>2, <1>5, <2>1, <2>2 DEF WriteFails, Call
<1> QED  BY <1>3, <1>4, <1>5

\* A LOG that returns, or ends with its process.
LEMMA EndStep == ASSUME LogInv, Unlock \/ KillServer  PROVE LogInv'
<1>1. /\ call' = NoCall /\ lock' = FALSE /\ UNCHANGED <<today, dirs>>
      /\ \/ last' = last
         \/ last' = call /\ call.at = "unlock"
  BY DEF Unlock, KillServer
<1>2. NoCall \in Call /\ NoCall.at = "none" /\ ~NoCall.disturbed
  BY NoCallType DEF NoCall
<1>3. LogTypes'
  <2>1. lock' = (call'.at \in {"write", "unlock"})
    <3>1. call'.at \notin {"write", "unlock"} /\ lock' = FALSE  BY <1>1, <1>2
    <3> QED  BY <3>1, FreeElsewhere
  <2>2. DirsOK'  BY <1>1 DEF LogInv, LogTypes, DirsOK
  <2> QED  BY <1>1, <1>2, <2>1, <2>2 DEF LogInv, LogTypes
<1>4. FiledUnlessDisturbed'
  BY <1>1 DEF LogInv, OnItsWay, InTime, FiledUnlessDisturbed
<1> QED  BY <1>1, <1>2, <1>3, <1>4 DEF LogInv, OnItsWay, InTime

LEMMA MidnightStep == ASSUME LogInv, Midnight  PROVE LogInv'
<1>1. today' = today + 1 /\ today' \in Day /\ UNCHANGED <<dirs, call, lock, last>>
  BY DEF Midnight, LogInv, LogTypes, Day
<1>2. LogTypes'  BY <1>1 DEF LogInv, LogTypes, DirsOK
<1>3. call.stamp \in Int /\ today \in Int  BY DEF LogInv, LogTypes, Call, Day
<1> QED
  BY <1>1, <1>2, <1>3 DEF LogInv, OnItsWay, InTime, FiledUnlessDisturbed, Fits

LEMMA CleanStep == ASSUME LogInv, Clean  PROVE LogInv'
<1>1. PICK r \in dirs : dirs' = {e \in dirs : ~IsPrefix(r, e)}  BY DEF Clean
<1>2. PICK j \in Level, b \in Day : r = Dir(j, b)  BY DEF LogInv, LogTypes, DirsOK
<1>3. /\ call \in Call /\ call' = [call EXCEPT !.disturbed = (call # NoCall)]
      /\ UNCHANGED <<today, lock, last>>
  BY DEF Clean, LogInv, LogTypes
<1>4. DirsOK'
  <2>1. ASSUME NEW k \in Level, NEW d \in Day, k > 1, Dir(k, d) \in dirs'
        PROVE  Dir(k - 1, d) \in dirs'
    <3>1. Dir(k - 1, d) \in dirs  BY <1>1, <2>1 DEF LogInv, LogTypes, DirsOK
    <3>2. ~IsPrefix(r, Dir(k - 1, d))  BY <1>1, <1>2, <2>1, PrefixParent
    <3> QED  BY <1>1, <3>1, <3>2
  <2> QED  BY <1>1, <2>1 DEF LogInv, LogTypes, DirsOK
<1>5. /\ call' \in Call /\ call'.at = call.at /\ call'.day = call.day
      /\ call'.stamp = call.stamp /\ call'.disturbed = (call # NoCall)
  BY <1>3 DEF Call
<1>6. OnItsWay'
  <2> SUFFICES ASSUME call = NoCall  PROVE OnItsWay'
    BY <1>5 DEF OnItsWay
  <2> QED  BY <1>5 DEF OnItsWay, NoCall
<1> QED
  BY <1>3, <1>4, <1>5, <1>6 DEF LogInv, LogTypes, InTime, FiledUnlessDisturbed

LEMMA LogInvStep == LogInv /\ [LogNext]_logVars => LogInv'
<1> SUFFICES ASSUME LogInv, [LogNext]_logVars  PROVE LogInv'
  OBVIOUS
<1>1. CASE Stamp \/ MakePath \/ Mkdir \/ MkdirFails
  BY <1>1, StampStep, MakePathStep, MkdirStep, MkdirFailsStep
<1>2. CASE Lock \/ Write \/ WriteFails \/ Unlock \/ KillServer
  BY <1>2, WritingStep, EndStep
<1>3. CASE Midnight \/ Clean
  BY <1>3, MidnightStep, CleanStep
<1>4. CASE UNCHANGED logVars
  BY <1>4
     DEF logVars, LogInv, LogTypes, DirsOK, OnItsWay, InTime, FiledUnlessDisturbed, Fits
<1> QED  BY <1>1, <1>2, <1>3, <1>4 DEF LogNext, LogStep

LEMMA LogInvHolds == LogSpec => []LogInv
BY LogInit_Inv, LogInvStep, PTL DEF LogSpec

-----------------------------------------------------------------------------
\* The types; every directory lies in a directory, and the mutex is held while the
\* file is written and at no other time (make_log.c:83-85, 126-167).
THEOREM LogsAreTyped == LogSpec => []LogTypeOK
<1>1. LogInv => LogTypeOK
  <2> SUFFICES ASSUME LogInv  PROVE LogTypeOK
    OBVIOUS
  <2>1. ASSUME NEW e \in dirs, Len(e) > 1  PROVE SubSeq(e, 1, Len(e) - 1) \in dirs
    <3>1. PICK k \in Level, d \in Day : e = Dir(k, d)  BY DEF LogInv, LogTypes, DirsOK
    <3>2. Len(e) = k /\ k > 1  BY <2>1, <3>1, DirLen
    <3>3. SubSeq(e, 1, k - 1) = Dir(k - 1, d)  BY <3>1, <3>2, DirParent
    <3>4. Dir(k - 1, d) \in dirs  BY <2>1, <3>1, <3>2 DEF LogInv, LogTypes, DirsOK
    <3> QED  BY <3>2, <3>3, <3>4
  <2>2. dirs \subseteq {Dir(k, d) : k \in Level, d \in Day}
    BY DEF LogInv, LogTypes, DirsOK
  <2> QED  BY <2>1, <2>2 DEF LogInv, LogTypes, LogTypeOK, Call
<1> QED  BY <1>1, LogInvHolds, PTL

\* The chain make_path takes asks for directories that can be created, whatever
\* earlier calls left (make_log.c:126-167).
THEOREM ChainsFit == LogSpec => []ChainFits
<1>1. LogInv => ChainFits  BY DEF LogInv, OnItsWay, ChainFits
<1> QED  BY <1>1, LogInvHolds, PTL

\* A message is lost only for what happened during its own LOG, and is never in a
\* file of an earlier day (make_log.c:53, 65, 117).
THEOREM MessagesAreFiled == LogSpec => []FiledUnlessDisturbed
<1>1. LogInv => FiledUnlessDisturbed  BY DEF LogInv
<1> QED  BY <1>1, LogInvHolds, PTL
=============================================================================
