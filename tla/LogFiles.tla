------------------------------ MODULE LogFiles ------------------------------
(***************************************************************************)
(* make_log.c, the same in both servers: LOG stamps a message, make_path   *)
(* reads the clock again, creates what is missing of                       *)
(* ./logs/<module>/<year>/<month>, and out_put_file appends the message to *)
(* the file of the day.  start-up.sh kills the process with -9 wherever it *)
(* is; mkdir and write may fail, and old logs are removed by hand.         *)
(***************************************************************************)
EXTENDS Integers, SequencesExt, FiniteSetsExt

CONSTANTS
    DaysPerMonth, MonthsPerYear,    \* BOUND: the calendar
    LastDay                         \* BOUND: the last day looked at

ASSUME CalendarIsNatural ==
    {DaysPerMonth, MonthsPerYear, LastDay} \subseteq Nat \ {0}

VARIABLES
    today,      \* the day of the clock
    dirs,       \* the directories there are
    call,       \* the LOG that runs
    lock,       \* ca_log_lock
    last        \* history: what became of the last LOG that returned

logVars == <<today, dirs, call, lock, last>>

Day   == 0..LastDay
Month(day) == day \div DaysPerMonth
Year(day)  == Month(day) \div MonthsPerYear

Level == 1..4
Nowhere == 0        \* the level of a path that has all its directories

\* second_dir, third_dir, y_dir and m_dir
Dir(level, day) == SubSeq(<<"logs", "module", Year(day), Month(day)>>, 1, level)

NoCall == [at |-> "none", stamp |-> 0, day |-> 0, level |-> Nowhere, filed |-> FALSE, disturbed |-> FALSE]

LogInit ==
    /\ today = 0 /\ dirs = {} /\ call = NoCall
    /\ lock = FALSE /\ last = NoCall

-----------------------------------------------------------------------------
\* mutant: only the directory of the month is looked for
MutFirstMissing(day) == IF Dir(4, day) \in dirs THEN Nowhere ELSE 4

\* The chain of access(): the first directory that is not there
FirstMissing(day) ==
    LET missing == {k \in Level : Dir(k, day) \notin dirs}
    IN  IF missing = {} THEN Nowhere ELSE Min(missing)

\* mutant: a chain of mkdir() that stops at the year
MutAfterMkdir(level) == IF level >= 3 THEN Nowhere ELSE level + 1

\* The chain of mkdir() goes on to the directory of the month.
AfterMkdir(level) == IF level = 4 THEN Nowhere ELSE level + 1

\* LOG: the time of the stamp is taken, and the message is put together.
Stamp ==
    /\ call.at = "none"
    /\ call' = [NoCall EXCEPT !.at = "stamped", !.stamp = today]
    /\ UNCHANGED <<today, dirs, lock, last>>

\* make_path: the time of the path, and the first directory to create
MakePath ==
    /\ call.at = "stamped"
    /\ call' = [call EXCEPT !.at = "dirs", !.day = today, !.level = FirstMissing(today)]
    /\ UNCHANGED <<today, dirs, lock, last>>

\* mkdir() of a path that is not there, below one that is
Fits(level, day) ==
    /\ Dir(level, day) \notin dirs
    /\ level > 1 => Dir(level - 1, day) \in dirs

Mkdir ==
    /\ call.at = "dirs" /\ call.level # Nowhere
    /\ Fits(call.level, call.day)
    /\ dirs' = dirs \cup {Dir(call.level, call.day)}
    /\ call' = [call EXCEPT !.level = AfterMkdir(call.level)]
    /\ UNCHANGED <<today, lock, last>>

\* A mkdir() that fails ends the chain: it does not fit, or the disk is full.
MkdirFails ==
    /\ call.at = "dirs" /\ call.level # Nowhere
    /\ call' = [call EXCEPT !.level = Nowhere,
                            !.disturbed = @ \/ Fits(call.level, call.day)]
    /\ UNCHANGED <<today, dirs, lock, last>>

Lock ==
    /\ call.at = "dirs" /\ call.level = Nowhere
    /\ ~lock
    /\ lock' = TRUE
    /\ call' = [call EXCEPT !.at = "write"]
    /\ UNCHANGED <<today, dirs, last>>

\* open() with O_CREAT, and write(): there is a file if its directory is there.
Write ==
    /\ call.at = "write"
    /\ Dir(4, call.day) \in dirs
    /\ call' = [call EXCEPT !.at = "unlock", !.filed = TRUE]
    /\ UNCHANGED <<today, dirs, lock, last>>

\* mutant: the error branch returns with the mutex
MutWriteFails ==
    /\ call.at = "write"
    /\ call' = NoCall
    /\ last' = [call EXCEPT !.disturbed = TRUE]
    /\ UNCHANGED <<today, dirs, lock>>

\* "write error!" is printed, and the message is lost.
WriteFails ==
    /\ call.at = "write"
    /\ call' = [call EXCEPT !.at = "unlock",
                            !.disturbed = @ \/ Dir(4, call.day) \in dirs]
    /\ UNCHANGED <<today, dirs, lock, last>>

Unlock ==
    /\ call.at = "unlock"
    /\ lock' = FALSE
    /\ last' = call /\ call' = NoCall
    /\ UNCHANGED <<today, dirs>>

\* start-up.sh: the mutex goes with the process, the directories stay.
KillServer ==
    /\ call # NoCall
    /\ call' = NoCall /\ lock' = FALSE
    /\ UNCHANGED <<today, dirs, last>>

Midnight ==
    /\ today < LastDay
    /\ today' = today + 1
    /\ UNCHANGED <<dirs, call, lock, last>>

\* Somebody removes the logs, below some directory.
Clean ==
    /\ dirs # {}
    /\ \E d \in dirs : dirs' = {e \in dirs : ~IsPrefix(d, e)}
    /\ call' = [call EXCEPT !.disturbed = call # NoCall]
    /\ UNCHANGED <<today, lock, last>>

LogStep == MakePath \/ Mkdir \/ MkdirFails \/ Lock \/ Write \/ WriteFails \/ Unlock

LogNext == Stamp \/ LogStep \/ KillServer \/ Midnight \/ Clean

LogSpec == LogInit /\ [][LogNext]_logVars /\ WF_logVars(LogStep)

-----------------------------------------------------------------------------
\* The types; the mutex is held in out_put_file and nowhere else; and every
\* directory is in a directory (make_log.c:83-85, 126-167).
LogTypeOK ==
    /\ today \in Day
    /\ dirs \subseteq {Dir(k, d) : k \in Level, d \in Day}
    /\ \A d \in dirs : Len(d) > 1 => SubSeq(d, 1, Len(d) - 1) \in dirs
    /\ \A c \in {call, last} :
        /\ c.at \in {"none", "stamped", "dirs", "write", "unlock"}
        /\ {c.stamp, c.day} \subseteq Day
        /\ c.level \in Level \cup {Nowhere}
        /\ {c.filed, c.disturbed} \subseteq BOOLEAN
    /\ lock = (call.at \in {"write", "unlock"})

\* Whatever directories earlier calls left, killed between two mkdir() or cut
\* short by a full disk, the chain that is taken asks for directories that can
\* be created, in the order in which they can (make_log.c:126-167).
ChainFits ==
    call.at = "dirs" /\ call.level # Nowhere /\ ~call.disturbed =>
        Fits(call.level, call.day)

\* "create the directories and write the content" (make_log.c:53): a message is
\* lost only if something failed or was removed during its own call, never for
\* what earlier calls left; and it is in the file of its day, or of a later one
\* when midnight came between the two looks at the clock (make_log.c:65, 117).
FiledUnlessDisturbed ==
    last # NoCall =>
        /\ last.filed \/ last.disturbed
        /\ last.stamp <= last.day

\* A LOG returns, and the next one finds the mutex free (make_log.c:83-103).
LogReturns == call.at # "none" ~> call.at = "none"

=============================================================================
