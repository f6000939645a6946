------------------------- MODULE FingerprintListener -------------------------
(***************************************************************************)
(* The fingerprint thread (src/auth/fingerprint.cpp): listen_loop against  *)
(* fprintd, and the start() and stop() main calls.                         *)
(*                                                                         *)
(* fprintd, its reader and the system bus are external.  A call over the   *)
(* bus is one step: the thread blocks in it, and the other parts of the    *)
(* system run before and after.  A call that is answered was carried out;  *)
(* one that returns an error or a timeout may have been, or not.           *)
(* VerifyStatus signals queue on the connection, in bus, until the thread  *)
(* takes them with sd_bus_process.                                         *)
(***************************************************************************)
EXTENDS Naturals, Sequences

CONSTANT MaxRetries     \* bound: signals of one round that do not end it

ASSUME MaxRetriesAssumption == MaxRetries \in Nat

VARIABLES
    \* main thread
    main,           \* "checking", "unavailable", "listening", "stopping", "stopped"
    stop_requested,
    \* fingerprint thread
    pc,
    running,        \* running_
    got_result,
    \* the bus
    connected,
    bus,            \* signals that reached the connection, not processed yet
    \* fprintd
    claimed, verifying,
    done,           \* the reader has said its last word of this round
    retries,        \* signals before that one
    \* history
    report,         \* what the callback was told this round, or "none"
    sent,           \* what the reader sent since the thread began the round
    failed          \* the calls that returned an error

threadVars == <<pc, running, got_result>>
readerVars == <<claimed, verifying, done, retries>>
history    == <<report, sent, failed>>
vars == <<main, stop_requested, threadVars, connected, bus, readerVars, history>>

\* "retry" stands for the three that report nothing, "other" for any string the
\* code does not know: verify-unknown-error, but verify-retry-scan as well.
Statuses == {"match", "no-match", "retry", "other"}

\* Those after which the reader stops by itself, and those after which it goes on.
FinalStatus == {"match", "no-match", "other"}
OnTheWay    == {"retry", "other"}

Calls == {"Open", "GetDefaultDevice", "Claim", "VerifyStart", "VerifyStop", "Release"}

Places == {"none", "open", "getDevice", "claim", "loop", "inner", "drop", "wait", "take",
           "verifyStop", "release", "return", "ended"}

TypeOK ==
    /\ main \in {"checking", "unavailable", "listening", "stopping", "stopped"}
    /\ stop_requested \in BOOLEAN
    /\ pc \in Places
    /\ running \in BOOLEAN
    /\ got_result \in BOOLEAN
    /\ connected \in BOOLEAN
    /\ bus \in Seq(Statuses)
    /\ claimed \in BOOLEAN /\ verifying \in BOOLEAN
    /\ done \in BOOLEAN /\ retries \in 0..MaxRetries
    /\ report \in {"none", "Match", "NoMatch"}
    /\ sent \subseteq Statuses /\ failed \subseteq Calls

Init ==
    /\ main = "checking" /\ stop_requested = FALSE
    /\ pc = "none" /\ running = FALSE /\ got_result = FALSE
    /\ connected = FALSE /\ bus = <<>>
    /\ claimed = FALSE /\ verifying = FALSE /\ done = FALSE /\ retries = 0
    /\ report = "none" /\ sent = {} /\ failed = {}

-----------------------------------------------------------------------------
(* Main thread *)

\* is_available() asks fprintd for a device on a connection of its own, and
\* start() spawns the thread if there is one.
is_available(yes) ==
    /\ main = "checking"
    /\ IF yes THEN main' = "listening" /\ running' = TRUE /\ pc' = "open"
              ELSE main' = "unavailable" /\ UNCHANGED <<running, pc>>
    /\ UNCHANGED <<stop_requested, got_result, connected, bus, readerVars, history>>

stop ==
    /\ main = "listening"
    /\ main' = "stopping" /\ stop_requested' = TRUE
    /\ UNCHANGED <<threadVars, connected, bus, readerVars, history>>

stop_returns ==
    /\ main = "stopping" /\ pc = "ended"
    /\ main' = "stopped"
    /\ UNCHANGED <<stop_requested, threadVars, connected, bus, readerVars, history>>

-----------------------------------------------------------------------------
(* The fingerprint thread: before the loop *)

\* How a call comes back: with an answer, or with an error.
Answered    == connected /\ UNCHANGED failed
Fails(call) == failed' = failed \cup {call}

\* Errors here and in Claim report Error, which main's callback ignores.
OpenBus ==
    /\ pc = "open"
    /\ \/ pc' = "getDevice" /\ connected' = TRUE /\ UNCHANGED failed
       \/ pc' = "return" /\ Fails("Open") /\ UNCHANGED connected
    /\ UNCHANGED <<main, stop_requested, running, got_result, bus, readerVars, report, sent>>

GetDefaultDevice ==
    /\ pc = "getDevice"
    /\ \/ Answered /\ pc' = "claim"
       \/ Fails("GetDefaultDevice") /\ pc' = "return"
    /\ UNCHANGED <<main, stop_requested, running, got_result, connected, bus, readerVars, report, sent>>

Claim ==
    /\ pc = "claim"
    /\ \/ Answered /\ claimed' = TRUE /\ pc' = "loop"
       \/ Fails("Claim") /\ claimed' \in {FALSE, connected} /\ pc' = "return"
    /\ UNCHANGED <<main, stop_requested, running, got_result, connected, bus, verifying,
                   done, retries, report, sent>>

-----------------------------------------------------------------------------
(* The verification loop *)

LeaveLoop ==
    /\ pc = "loop" /\ stop_requested
    /\ pc' = "release"
    /\ UNCHANGED <<main, stop_requested, running, got_result, connected, bus, readerVars, history>>

\* fprintd starts a round for the client that holds the reader; of the one before
\* nothing is left, or its VerifyStop was late and came through by now.
ReaderStarts ==
    /\ connected /\ claimed
    /\ verifying' = TRUE /\ done' = FALSE /\ retries' = 0
    /\ UNCHANGED claimed

VerifyStart ==
    /\ pc = "loop" /\ ~stop_requested
    /\ Answered /\ ReaderStarts
    /\ pc' = "inner" /\ got_result' = FALSE
    /\ report' = "none" /\ sent' = {}
    /\ UNCHANGED <<main, stop_requested, running, connected, bus>>

\* Slip: no Release when VerifyStart fails.
VerifyStartFails_Returns ==
    /\ pc = "loop" /\ ~stop_requested
    /\ Fails("VerifyStart")
    /\ ReaderStarts \/ UNCHANGED readerVars
    /\ pc' = "return"
    /\ UNCHANGED <<main, stop_requested, running, got_result, connected, bus, report, sent>>

VerifyStartFails ==
    /\ pc = "loop" /\ ~stop_requested
    /\ Fails("VerifyStart")
    /\ ReaderStarts \/ UNCHANGED readerVars
    /\ pc' = "release"
    /\ UNCHANGED <<main, stop_requested, running, got_result, connected, bus, report, sent>>

\* Slip: the round is left without VerifyStop.
Inner_NoVerifyStop ==
    /\ pc = "inner"
    /\ pc' = IF stop_requested THEN "release" ELSE IF got_result THEN "loop" ELSE "drop"
    /\ UNCHANGED <<main, stop_requested, running, got_result, connected, bus, readerVars, history>>

\* while (!stop_requested_ && !got_result)
Inner ==
    /\ pc = "inner"
    /\ pc' = IF stop_requested \/ got_result THEN "verifyStop" ELSE "drop"
    /\ UNCHANGED <<main, stop_requested, running, got_result, connected, bus, readerVars, history>>

\* Slip: what is there already is kept for the second sd_bus_process.
DropProcess_Keeps ==
    /\ pc = "drop"
    /\ pc' = "wait"
    /\ UNCHANGED <<main, stop_requested, running, got_result, connected, bus, readerVars, history>>

\* sd_bus_process(bus, nullptr): a message that is already there is handled by
\* nobody and gone; "continue" comes back to the loop's condition.
DropProcess ==
    /\ pc = "drop"
    /\ IF connected /\ bus # <<>>
         THEN bus' = Tail(bus) /\ pc' = "inner"
         ELSE pc' = "wait" /\ UNCHANGED bus
    /\ UNCHANGED <<main, stop_requested, running, got_result, connected, readerVars, history>>

\* Slip: the wait has no timeout.
Wait_Forever ==
    /\ pc = "wait" /\ (connected => bus # <<>>)
    /\ pc' = IF connected THEN "take" ELSE "inner"
    /\ UNCHANGED <<main, stop_requested, running, got_result, connected, bus, readerVars, history>>

\* sd_bus_wait: a message, or 500 ms; an error on a lost connection.
Wait ==
    /\ pc = "wait"
    /\ pc' = IF connected THEN "take" ELSE "inner"
    /\ UNCHANGED <<main, stop_requested, running, got_result, connected, bus, readerVars, history>>

\* The callback, by what VerifyStatus says; its `done` is read and not looked at.
Handle(status) ==
    CASE status = "match" -> got_result' = TRUE /\ report' = "Match"
      [] status = "retry" -> UNCHANGED <<got_result, report>>
      [] OTHER            -> got_result' = TRUE /\ report' = "NoMatch"

\* sd_bus_process(bus, &sig)
TakeProcess ==
    /\ pc = "take"
    /\ pc' = "inner"
    /\ IF connected /\ bus # <<>>
         THEN bus' = Tail(bus) /\ Handle(Head(bus))
         ELSE UNCHANGED <<bus, got_result, report>>
    /\ UNCHANGED <<main, stop_requested, running, connected, readerVars, sent, failed>>

\* The round is over; the result of the call is not looked at.
VerifyStop ==
    /\ pc = "verifyStop"
    /\ \/ Answered /\ verifying' = FALSE
       \/ Fails("VerifyStop") /\ verifying' \in {FALSE, verifying}
    /\ pc' = IF stop_requested THEN "release" ELSE "loop"
    /\ UNCHANGED <<main, stop_requested, running, got_result, connected, bus, claimed,
                   done, retries, report, sent>>

\* Nor is this one's.  A reader that is given back does not go on with a round.
Release ==
    /\ pc = "release"
    /\ \/ Answered /\ claimed' = FALSE /\ verifying' = FALSE
       \/ Fails("Release") /\ claimed' = FALSE /\ verifying' = FALSE
       \/ Fails("Release") /\ UNCHANGED <<claimed, verifying>>
    /\ pc' = "return"
    /\ UNCHANGED <<main, stop_requested, running, got_result, connected, bus,
                   done, retries, report, sent>>

\* The connection is dropped; fprintd then frees whatever this client held.
Return ==
    /\ pc = "return"
    /\ running' = FALSE /\ connected' = FALSE
    /\ claimed' = FALSE /\ verifying' = FALSE
    /\ pc' = "ended"
    /\ UNCHANGED <<main, stop_requested, got_result, bus, done, retries, history>>

-----------------------------------------------------------------------------
(* fprintd and the bus *)

Signal(status) ==
    /\ connected /\ verifying /\ ~done
    /\ bus' = Append(bus, status) /\ sent' = sent \cup {status}
    /\ UNCHANGED <<main, stop_requested, threadVars, connected, claimed, verifying, report, failed>>

\* The finger is read, with a result, or is to be put down again.  A round may
\* say "other" and go on to a match.
Scan(status) ==
    /\ Signal(status)
    /\ \/ status \in FinalStatus /\ done' = TRUE /\ UNCHANGED retries
       \/ status \in OnTheWay /\ retries < MaxRetries /\ retries' = retries + 1 /\ UNCHANGED done

\* The bus goes away; fprintd frees the reader of a client it lost.
Disconnect ==
    /\ connected
    /\ connected' = FALSE
    /\ claimed' = FALSE /\ verifying' = FALSE
    /\ UNCHANGED <<main, stop_requested, threadVars, bus, done, retries, history>>

-----------------------------------------------------------------------------

ThreadStep ==
    \/ OpenBus \/ GetDefaultDevice \/ Claim
    \/ LeaveLoop \/ VerifyStart \/ VerifyStartFails
    \/ Inner \/ DropProcess \/ Wait \/ TakeProcess
    \/ VerifyStop \/ Release \/ Return

Terminated == main \in {"unavailable", "stopped"} /\ UNCHANGED vars

Next ==
    \/ \E yes \in BOOLEAN : is_available(yes)
    \/ stop \/ stop_returns
    \/ ThreadStep
    \/ \E status \in Statuses : Scan(status)
    \/ Disconnect
    \/ Terminated

\* The thread runs, its calls return, and a join returns once it can.  Main
\* need not stop the listener and nobody need touch the reader.
Fairness == WF_vars(ThreadStep) /\ WF_vars(stop_returns)

Spec == Init /\ [][Next]_vars /\ Fairness

-----------------------------------------------------------------------------
(* Properties *)

\* The calls answer for what is still held when the connection is about to close
\* (fingerprint.cpp:94-183): the reader, if Claim came back with an error or
\* Release failed; a round, if Release failed and so did a call that begins or
\* ends one.  Once the thread is gone nothing is held, whatever failed.
ReaderGivenBack ==
    /\ pc = "return" /\ claimed => failed \cap {"Claim", "Release"} # {}
    /\ pc = "return" /\ verifying =>
         "Release" \in failed /\ failed \cap {"VerifyStart", "VerifyStop"} # {}
    /\ pc = "ended" => ~claimed /\ ~verifying

\* The reader is asked for a new round while it is still in one only after a
\* VerifyStop failed, which nobody looked at (fingerprint.cpp:110-169).
RoundsBracketed == pc = "loop" /\ verifying => "VerifyStop" \in failed

\* A report is of something the reader said in this very round: signals left over
\* from the one before, which may hold a match or an unlisted status sent after
\* the one that was reported, never count (fingerprint.cpp:123-160).
ReportsOwnRound ==
    /\ report = "Match" => "match" \in sent
    /\ report = "NoMatch" => sent \cap {"no-match", "other"} # {}

\* The thread does not stop listening by itself, after a match for instance: if
\* it ended, main asked for it or a call failed (fingerprint.cpp:108-174).
ListensOn == pc = "ended" => stop_requested \/ failed # {}

\* Where the thread is tells what it may hold.
HoldsByPlace ==
    /\ verifying => claimed
    /\ main \in {"checking", "unavailable"} => pc = "none"
    /\ claimed => connected /\ pc \notin {"none", "open", "getDevice", "claim", "ended"}
    /\ pc = "release" /\ verifying => failed \cap {"VerifyStart", "VerifyStop"} # {}

\* What the second sd_bus_process may take is this round's: the first one has
\* emptied the queue.
QueueIsOwn == pc \in {"wait", "take"} /\ connected => \A i \in DOMAIN bus : bus[i] \in sent

\* The loop is left for a cause.
LeftForCause == pc \in {"release", "return", "ended"} => stop_requested \/ failed # {}

\* The inductive invariant.
IInv ==
    /\ TypeOK /\ HoldsByPlace /\ QueueIsOwn /\ LeftForCause
    /\ ReaderGivenBack /\ RoundsBracketed /\ ReportsOwnRound

\* A stop is answered: the join in stop() returns, whatever the reader, the bus
\* and the queue are doing.
StopReturns == (main = "stopping") ~> (main = "stopped")

-----------------------------------------------------------------------------
(* What a comment says and the thread does not do; refuted by a run *)

\* fingerprint.hpp:16-17, "The callback reports either FingerprintMatch or
\* FingerprintNoMatch".  A result that arrives before the thread is back in
\* sd_bus_wait is dropped by the first sd_bus_process, and the round, whose
\* reader has nothing more to say, never ends.
ResultsAreReported ==
    (verifying /\ done) ~> (report # "none" \/ stop_requested \/ ~connected)
=============================================================================
