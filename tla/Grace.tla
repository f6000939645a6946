--------------------------------- MODULE Grace ---------------------------------
(***************************************************************************)
(* Runs of the program one after another, or two at once, as far as the    *)
(* grace period goes (src/main.cpp): each reads the configuration, reads   *)
(* the time the last one left in a file, and either ends at once or locks. *)
(* Its time is written on both ways, but not when it cannot connect, when  *)
(* the configuration does not parse, or when it is killed.                 *)
(*                                                                         *)
(* Time passes in half seconds.  The wall clock is "time + skew" halves,   *)
(* and may be set back or forth.                                           *)
(***************************************************************************)
EXTENDS ConfigParser, FiniteSets

CONSTANTS
    Runs,       \* processes
    Files,      \* configuration files: sequences of lines
    Edits,      \* those the user changes to
    Base,       \* the wall clock at time 0
    MaxTime,    \* bound: how long the model runs
    Skews,      \* what the wall clock may be off by
    Missing, Empty  \* no file of that name; the file just opened for writing

ASSUME GraceAssumption ==
    /\ Files \subseteq Seq(Lines) /\ Edits \subseteq Files
    /\ Base \in Int /\ MaxTime \in Nat /\ Skews \subseteq Int /\ 0 \in Skews
    /\ \A s \in Skews : Base + s > 0
    /\ Missing \notin Int /\ Empty \notin Int

VARIABLES
    file,           \* the configuration file
    time, skew,     \* the real time, and how far the wall clock is off
    stamp,          \* GRACE_FILE: Missing, Empty, or the wall clock when it was written
    pc,             \* per run: "off", "parsed", "locking", "locked", "leaving", "opened", "aborted"
    grace,          \* per run: cfg.general.grace_period, in half seconds
    skips,          \* per run: it leaves without having locked
    looped,         \* history: some run has left its loop and written its time
    written,        \* history: when a time was last written, Missing if none was
    disturbed       \* history: since then, the clock was set or the file opened

runVars  == <<pc, grace, skips>>
timeVars == <<file, time, skew>>
history  == <<looped, written, disturbed>>
vars     == <<timeVars, stamp, runVars, history>>

Clock == Base + time + skew

TypeOK ==
    /\ file \in Files /\ time \in 0..MaxTime /\ skew \in Skews
    /\ stamp \in {Missing, Empty} \cup {Base + t + s : t \in 0..MaxTime, s \in Skews}
    /\ pc \in [Runs -> {"off", "parsed", "locking", "locked", "leaving", "opened", "aborted"}]
    /\ grace \in [Runs -> Int] /\ skips \in [Runs -> BOOLEAN]
    /\ looped \in BOOLEAN /\ disturbed \in BOOLEAN
    /\ written \in 0..time \cup {Missing} /\ (looped => written # Missing)

Init ==
    /\ file \in Files /\ time = 0 /\ skew = 0 /\ stamp = Missing
    /\ pc = [r \in Runs |-> "off"]
    /\ grace = [r \in Runs |-> 0] /\ skips = [r \in Runs |-> FALSE]
    /\ looped = FALSE /\ written = Missing /\ disturbed = FALSE

-----------------------------------------------------------------------------
(* Time, and the user *)

Tick ==
    /\ time < MaxTime
    /\ time' = time + 1
    /\ UNCHANGED <<file, skew, stamp, runVars, history>>

SetClock ==
    /\ skew' \in Skews \ {skew}
    /\ disturbed' = TRUE
    /\ UNCHANGED <<file, time, stamp, runVars, looped, written>>

\* The user writes another configuration.
Edit ==
    /\ file' \in Edits \ {file}
    /\ UNCHANGED <<time, skew, stamp, runVars, history>>

-----------------------------------------------------------------------------
(* A run *)

Go(r, place) == pc' = [pc EXCEPT ![r] = place]

\* The configuration is read.  A value that does not parse ends the program by
\* an exception nobody catches.
Start(r) ==
    /\ pc[r] = "off"
    /\ LET p == Parse(file)
       IN  /\ Go(r, IF p.threw THEN "aborted" ELSE "parsed")
           /\ grace' = [grace EXCEPT ![r] = IF p.threw THEN 0 ELSE p.cfg.general.grace_period]
    /\ UNCHANGED <<timeVars, stamp, skips, history>>

\* duration_cast<seconds> and the cast to long long drop what is left over.
Seconds(halves) == IF halves < 0 THEN -((-halves) \div 2) ELSE halves \div 2

\* Slip: fractions of a second are compared, so the last one counts as within.
within_grace_period_Rounds(graceHalves) ==
    /\ graceHalves > 0
    /\ stamp \notin {Missing, Empty, 0}
    /\ Seconds(Clock - stamp) <= Seconds(graceHalves)

\* An empty file reads as 0, like no time at all.
within_grace_period(graceHalves) ==
    /\ graceHalves > 0
    /\ stamp \notin {Missing, Empty, 0}
    /\ Seconds(Clock - stamp) < Seconds(graceHalves)

CheckGrace(r) ==
    /\ pc[r] = "parsed"
    /\ LET within == within_grace_period(grace[r])
       IN  /\ Go(r, IF within THEN "leaving" ELSE "locking")
           /\ skips' = [skips EXCEPT ![r] = within]
    /\ UNCHANGED <<timeVars, stamp, grace, history>>

Off(r) ==
    /\ Go(r, "off")
    /\ grace' = [grace EXCEPT ![r] = 0] /\ skips' = [skips EXCEPT ![r] = FALSE]

\* No compositor, or one that cannot lock: return 1
CannotLock(r) ==
    /\ pc[r] = "locking" /\ Off(r)
    /\ UNCHANGED <<timeVars, stamp, history>>

Lock(r) ==
    /\ pc[r] = "locking"
    /\ Go(r, "locked")
    /\ UNCHANGED <<timeVars, stamp, grace, skips, history>>

\* The loop ends: unlocked, refused, or the connection lost
LeaveLoop(r) ==
    /\ pc[r] = "locked"
    /\ Go(r, "leaving")
    /\ UNCHANGED <<timeVars, stamp, grace, skips, history>>

\* write_grace_timestamp: opening the file empties it,
OpenStamp(r) ==
    /\ pc[r] = "leaving"
    /\ Go(r, "opened")
    /\ stamp' = Empty
    /\ disturbed' = TRUE
    /\ UNCHANGED <<timeVars, grace, skips, looped, written>>

\* Slip: the steady clock's time is written.
WriteStamp_Steady(r) ==
    /\ pc[r] = "opened" /\ Off(r)
    /\ stamp' = time
    /\ written' = time /\ disturbed' = FALSE
    /\ looped' = (looped \/ ~skips[r])
    /\ UNCHANGED timeVars

\* the time goes into it when it is closed.
WriteStamp(r) ==
    /\ pc[r] = "opened" /\ Off(r)
    /\ stamp' = Clock
    /\ written' = time /\ disturbed' = FALSE
    /\ looped' = (looped \/ ~skips[r])
    /\ UNCHANGED timeVars

\* Killed at any place, or ended by the exception
Killed(r) ==
    /\ pc[r] # "off" /\ Off(r)
    /\ UNCHANGED <<timeVars, stamp, history>>

Next ==
    \/ Tick \/ SetClock \/ Edit
    \/ \E r \in Runs : \/ Start(r) \/ CheckGrace(r) \/ CannotLock(r) \/ Lock(r) \/ LeaveLoop(r)
                       \/ OpenStamp(r) \/ WriteStamp(r) \/ Killed(r)

Spec == Init /\ [][Next]_vars

-----------------------------------------------------------------------------
(* Properties *)

\* The inductive invariant: a time in the file came from some run that left its
\* loop, if through others that skipped; and, undisturbed, it is as old by the wall
\* clock as it really is.
IInv ==
    /\ TypeOK
    /\ stamp \notin {Missing, Empty} => looped
    /\ \A r \in Runs : skips[r] => looped
    /\ ~disturbed => IF written = Missing THEN stamp = Missing ELSE stamp = Base + written + skew

\* A file is read as it should be: each field has the value of the last line that
\* gives it one, in the section of the last closed header, whatever comes between;
\* and a run ends by an exception for a number in its own section only
\* (parser.cpp:52-140).
ParseIsLastWins ==
    [][\A r \in Runs :
        /\ (pc[r] = "off" /\ pc'[r] = "parsed") => ~Malformed(file) /\ LastWins(file, Parse(file).cfg)
        /\ (pc[r] = "off" /\ pc'[r] = "aborted") => Malformed(file)]_vars

\* A run skips the lock only after some run has left its loop, and, unless the
\* clock was set since, less than its own grace period after a time was written:
\* whatever two runs at once, kills between opening and writing, and fractions of
\* a second do (main.cpp:80-104, 177-180, 429).
SkipIsRecent ==
    [][\A r \in Runs : (pc[r] = "parsed" /\ pc'[r] = "leaving") =>
           /\ looped
           /\ ~disturbed => time - written < grace[r]]_vars

\* And it does skip, if its grace period is of whole seconds, the clock was not
\* set and no other run has the file open (main.cpp:80-104).
RecentIsSkipped ==
    [][\A r \in Runs : (pc[r] = "parsed" /\ pc'[r] = "locking" /\ grace[r] % 2 = 0) =>
           \/ written = Missing \/ disturbed
           \/ time - written >= grace[r]]_vars
=============================================================================
