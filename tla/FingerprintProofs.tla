--------------------------- MODULE FingerprintProofs ---------------------------
(***************************************************************************)
(* The safety properties of FingerprintListener, for any number of retries *)
(* and any queue on the bus, from the inductive invariant IInv.            *)
(***************************************************************************)
EXTENDS FingerprintListener, TLAPS

\* What a call that failed, and the place, say of the reader.
Held == HoldsByPlace /\ LeftForCause /\ ReaderGivenBack /\ RoundsBracketed

\* What the queue and the round say of the report.
Told == QueueIsOwn /\ ReportsOwnRound

LEMMA InvariantParts == IInv <=> TypeOK /\ Held /\ Told
  BY DEF IInv, Held, Told

\* A queue of statuses without its head is a queue of statuses, and the head is one.
LEMMA TailOfBus ==
    ASSUME NEW q \in Seq(Statuses), q # <<>>
    PROVE  /\ Head(q) \in Statuses /\ Head(q) = q[1] /\ 1 \in DOMAIN q
           /\ Tail(q) \in Seq(Statuses)
           /\ \A i \in DOMAIN Tail(q) : i + 1 \in DOMAIN q /\ Tail(q)[i] = q[i + 1]
  OBVIOUS

\* The queue after a signal: what it held, and the signal last.
LEMMA SignalOnBus ==
    ASSUME NEW q \in Seq(Statuses), NEW status \in Statuses
    PROVE  /\ Append(q, status) \in Seq(Statuses)
           /\ \A i \in DOMAIN Append(q, status) :
                \/ i \in DOMAIN q /\ Append(q, status)[i] = q[i]
                \/ Append(q, status)[i] = status
  OBVIOUS

\* At the start nothing is held, queued or reported.
LEMMA InitEstablishes == Init => IInv
  <1> SUFFICES ASSUME Init PROVE IInv
    OBVIOUS
  <1>0. <<>> \in Seq(Statuses) /\ 0 \in 0..MaxRetries
    BY MaxRetriesAssumption
  <1>1. TypeOK
    BY <1>0 DEF Init, TypeOK, Places
  <1>2. Held
    BY DEF Init, Held, HoldsByPlace, LeftForCause, ReaderGivenBack, RoundsBracketed
  <1>3. Told
    BY DEF Init, Told, QueueIsOwn, ReportsOwnRound
  <1> QED BY <1>1, <1>2, <1>3 DEF IInv, Held, Told

\* A step that leaves queue and report alone keeps what they say, if it comes to
\* the wait, or to the second sd_bus_process, only from there or with nothing queued.
LEMMA ToldKept ==
    ASSUME Told, UNCHANGED <<bus, sent, report>>,
           pc' \in {"wait", "take"} /\ connected' => bus = <<>> \/ (connected /\ pc \in {"wait",
              "take"})
    PROVE  Told'
  <1>1. ReportsOwnRound'
    BY DEF Told, ReportsOwnRound
  <1>2. QueueIsOwn'
    BY DEF Told, QueueIsOwn
  <1> QED BY <1>1, <1>2 DEF Told

\* Steps of main
LEMMA MainPreserves ==
    ASSUME IInv, (\E yes \in BOOLEAN : is_available(yes)) \/ stop \/ stop_returns
    PROVE  IInv'
  <1>0. TypeOK /\ Held /\ Told
    BY InvariantParts
  <1>1. ASSUME NEW yes \in BOOLEAN, is_available(yes)
        PROVE  IInv'
    <2>0. main = "checking"
          /\ \/ main' = "listening" /\ running' = TRUE /\ pc' = "open"
             \/ main' = "unavailable" /\ running' = running /\ pc' = pc
          /\ UNCHANGED <<stop_requested, got_result, connected, bus, claimed, verifying, done,
                         retries, report, sent, failed>>
      BY <1>1 DEF is_available, readerVars, history
    <2>1. TypeOK'
      BY <1>0, <2>0 DEF TypeOK, Places
    <2>2. Held'
      BY <1>0, <2>0 DEF Held, HoldsByPlace, LeftForCause, ReaderGivenBack, RoundsBracketed
    <2>3. Told'
      BY <1>0, <2>0, ToldKept
    <2> QED BY <2>1, <2>2, <2>3 DEF IInv, Held, Told
  <1>2. CASE stop
    <2>1. TypeOK'
      BY <1>0, <1>2 DEF TypeOK, Places, Calls, stop, readerVars, threadVars, history
    <2>2. Held'
      BY <1>0, <1>2 DEF Held, HoldsByPlace, LeftForCause, ReaderGivenBack, RoundsBracketed, stop,
         readerVars, threadVars, history
    <2>3. Told'
      BY <1>0, <1>2, ToldKept DEF stop, readerVars, threadVars, history
    <2> QED BY <2>1, <2>2, <2>3 DEF IInv, Held, Told
  <1>3. CASE stop_returns
    <2>1. TypeOK'
      BY <1>0, <1>3 DEF TypeOK, Places, Calls, stop_returns, readerVars, threadVars, history
    <2>2. Held'
      BY <1>0, <1>3 DEF Held, HoldsByPlace, LeftForCause, ReaderGivenBack, RoundsBracketed,
         stop_returns, readerVars, threadVars, history
    <2>3. Told'
      BY <1>0, <1>3, ToldKept DEF stop_returns, readerVars, threadVars, history
    <2> QED BY <2>1, <2>2, <2>3 DEF IInv, Held, Told
  <1> QED BY <1>1, <1>2, <1>3

\* Before the loop
LEMMA OpeningPreserves ==
    ASSUME IInv, OpenBus \/ GetDefaultDevice \/ Claim
    PROVE  IInv'
  <1>0. TypeOK /\ Held /\ Told
    BY InvariantParts
  <1>1. CASE OpenBus
    <2>1. TypeOK'
      BY <1>0, <1>1 DEF TypeOK, Places, Calls, OpenBus, Fails, readerVars, threadVars, history
    <2>2. Held'
      BY <1>0, <1>1 DEF Held, HoldsByPlace, LeftForCause, ReaderGivenBack, RoundsBracketed,
         OpenBus, Fails, readerVars, threadVars, history
    <2>3. Told'
      BY <1>0, <1>1, ToldKept DEF OpenBus, Fails, readerVars, threadVars, history
    <2> QED BY <2>1, <2>2, <2>3 DEF IInv, Held, Told
  <1>2. CASE GetDefaultDevice
    <2>0. /\ pc = "getDevice"
          /\ \/ pc' = "claim" /\ failed' = failed
             \/ pc' = "return" /\ failed' = failed \cup {"GetDefaultDevice"}
          /\ UNCHANGED <<main, stop_requested, running, got_result, connected, bus, claimed,
             verifying,
                         done, retries, report, sent>>
      BY <1>2 DEF GetDefaultDevice, Answered, Fails, readerVars
    <2>a. failed' \subseteq Calls /\ pc' \in Places
      BY <1>0, <2>0 DEF TypeOK, Places, Calls
    <2>1. TypeOK'
      BY <1>0, <2>0, <2>a DEF TypeOK
    <2>2. Held'
      BY <1>0, <2>0 DEF Held, HoldsByPlace, LeftForCause, ReaderGivenBack, RoundsBracketed
    <2>3. Told'
      BY <1>0, <1>2, ToldKept DEF GetDefaultDevice, Answered, Fails, readerVars, threadVars, history
    <2> QED BY <2>1, <2>2, <2>3 DEF IInv, Held, Told
  <1>3. CASE Claim
    <2>0. /\ pc = "claim"
          /\ \/ pc' = "loop" /\ failed' = failed /\ connected
             \/ pc' = "return" /\ failed' = failed \cup {"Claim"} /\ (claimed' = FALSE \/ claimed' = connected)
          /\ UNCHANGED <<main, stop_requested, running, got_result, connected, bus, verifying,
                         done, retries, report, sent>>
      BY <1>3 DEF Claim, Answered, Fails
    <2>a. claimed' \in BOOLEAN
      BY <1>0, <1>3 DEF TypeOK, Claim
    <2>1. TypeOK'
      BY <1>0, <2>0, <2>a DEF TypeOK, Places, Calls
    <2>b. ~claimed /\ ~verifying
      BY <1>0, <2>0 DEF Held, HoldsByPlace
    <2>2. Held'
      BY <1>0, <2>0, <2>b DEF Held, HoldsByPlace, LeftForCause, ReaderGivenBack, RoundsBracketed
    <2>3. Told'
      BY <1>0, <1>3, ToldKept DEF Claim, Answered, Fails, readerVars, threadVars, history
    <2> QED BY <2>1, <2>2, <2>3 DEF IInv, Held, Told
  <1> QED BY <1>1, <1>2, <1>3

\* In the loops, where they touch neither queue nor report
LEMMA LoopPreserves ==
    ASSUME IInv, LeaveLoop \/ VerifyStartFails \/ Inner \/ Wait \/ VerifyStop
    PROVE  IInv'
  <1>0. TypeOK /\ Held /\ Told
    BY InvariantParts
  <1>1. CASE LeaveLoop
    <2>1. TypeOK'
      BY <1>0, <1>1 DEF TypeOK, Places, Calls, LeaveLoop, readerVars, threadVars, history
    <2>2. Held'
      BY <1>0, <1>1 DEF Held, HoldsByPlace, LeftForCause, ReaderGivenBack, RoundsBracketed,
         LeaveLoop, readerVars, threadVars, history
    <2>3. Told'
      BY <1>0, <1>1, ToldKept DEF LeaveLoop, readerVars, threadVars, history
    <2> QED BY <2>1, <2>2, <2>3 DEF IInv, Held, Told
  <1>2. CASE VerifyStartFails
    <2>0. /\ pc = "loop" /\ pc' = "release" /\ failed' = failed \cup {"VerifyStart"}
          /\ \/ connected /\ claimed /\ verifying' = TRUE /\ done' = FALSE /\ retries' = 0
             \/ UNCHANGED <<verifying, done, retries>>
          /\ UNCHANGED <<main, stop_requested, running, got_result, connected, bus, claimed,
             report, sent>>
      BY <1>2 DEF VerifyStartFails, Fails, ReaderStarts, readerVars
    <2>a. verifying' \in BOOLEAN /\ done' \in BOOLEAN
      BY <1>0, <2>0, Zenon DEF TypeOK
    <2>b. retries' \in 0..MaxRetries
      BY <1>0, <2>0, MaxRetriesAssumption DEF TypeOK
    <2>1. TypeOK'
      BY <1>0, <2>0, <2>a, <2>b DEF TypeOK, Places, Calls
    <2>2. Held'
      BY <1>0, <2>0 DEF Held, HoldsByPlace, LeftForCause, ReaderGivenBack, RoundsBracketed
    <2>3. Told'
      BY <1>0, <1>2, ToldKept DEF VerifyStartFails, Fails, ReaderStarts, readerVars, threadVars,
         history
    <2> QED BY <2>1, <2>2, <2>3 DEF IInv, Held, Told
  <1>3. CASE Inner
    <2>1. TypeOK'
      BY <1>0, <1>3 DEF TypeOK, Places, Calls, Inner, readerVars, threadVars, history
    <2>2. Held'
      BY <1>0, <1>3 DEF Held, HoldsByPlace, LeftForCause, ReaderGivenBack, RoundsBracketed,
         Inner, readerVars, threadVars, history
    <2>3. Told'
      BY <1>0, <1>3, ToldKept DEF Inner, readerVars, threadVars, history
    <2> QED BY <2>1, <2>2, <2>3 DEF IInv, Held, Told
  <1>4. CASE Wait
    <2>1. TypeOK'
      BY <1>0, <1>4 DEF TypeOK, Places, Calls, Wait, readerVars, threadVars, history
    <2>2. Held'
      BY <1>0, <1>4 DEF Held, HoldsByPlace, LeftForCause, ReaderGivenBack, RoundsBracketed, Wait,
         readerVars, threadVars, history
    <2>3. Told'
      BY <1>0, <1>4, ToldKept DEF Wait, readerVars, threadVars, history
    <2> QED BY <2>1, <2>2, <2>3 DEF IInv, Held, Told
  <1>5. CASE VerifyStop
    <2>0. /\ pc = "verifyStop" /\ pc' = IF stop_requested THEN "release" ELSE "loop"
          /\ \/ verifying' = FALSE /\ failed' = failed
             \/ failed' = failed \cup {"VerifyStop"} /\ (verifying' = FALSE \/ verifying' = verifying)
          /\ UNCHANGED <<main, stop_requested, running, got_result, connected, bus, claimed,
                         done, retries, report, sent>>
      BY <1>5 DEF VerifyStop, Answered, Fails
    <2>a. verifying' \in BOOLEAN
      BY <1>0, <1>5, Zenon DEF TypeOK, VerifyStop
    <2>1. TypeOK'
      BY <1>0, <2>0, <2>a DEF TypeOK, Places, Calls
    <2>2. Held'
      BY <1>0, <2>0 DEF Held, HoldsByPlace, LeftForCause, ReaderGivenBack, RoundsBracketed
    <2>3. Told'
      BY <1>0, <1>5, ToldKept DEF VerifyStop, Answered, Fails, readerVars, threadVars, history
    <2> QED BY <2>1, <2>2, <2>3 DEF IInv, Held, Told
  <1> QED BY <1>1, <1>2, <1>3, <1>4, <1>5

\* The thread lets go of the reader; or the bus goes away, at any time.
LEMMA EndPreserves ==
    ASSUME IInv, Release \/ Return \/ Disconnect
    PROVE  IInv'
  <1>0. TypeOK /\ Held /\ Told
    BY InvariantParts
  <1>1. CASE Release
    <2>1. TypeOK'
      BY <1>0, <1>1 DEF TypeOK, Places, Calls, Release, Answered, Fails, readerVars, threadVars,
         history
    <2>2. Held'
      BY <1>0, <1>1 DEF Held, HoldsByPlace, LeftForCause, ReaderGivenBack, RoundsBracketed,
         Release, Answered, Fails, readerVars, threadVars, history
    <2>3. Told'
      BY <1>0, <1>1, ToldKept DEF Release, Answered, Fails, readerVars, threadVars, history
    <2> QED BY <2>1, <2>2, <2>3 DEF IInv, Held, Told
  <1>2. CASE Return
    <2>1. TypeOK'
      BY <1>0, <1>2 DEF TypeOK, Places, Calls, Return, readerVars, threadVars, history
    <2>2. Held'
      BY <1>0, <1>2 DEF Held, HoldsByPlace, LeftForCause, ReaderGivenBack, RoundsBracketed,
         Return, readerVars, threadVars, history
    <2>3. Told'
      BY <1>0, <1>2, ToldKept DEF Return, readerVars, threadVars, history
    <2> QED BY <2>1, <2>2, <2>3 DEF IInv, Held, Told
  <1>3. CASE Disconnect
    <2>1. TypeOK'
      BY <1>0, <1>3 DEF TypeOK, Places, Calls, Disconnect, readerVars, threadVars, history
    <2>2. Held'
      BY <1>0, <1>3 DEF Held, HoldsByPlace, LeftForCause, ReaderGivenBack, RoundsBracketed,
         Disconnect, readerVars, threadVars, history
    <2>3. Told'
      BY <1>0, <1>3, ToldKept DEF Disconnect, readerVars, threadVars, history
    <2> QED BY <2>1, <2>2, <2>3 DEF IInv, Held, Told
  <1> QED BY <1>1, <1>2, <1>3

\* A round begins with nothing reported, and the queue is looked through before the wait.
LEMMA VerifyStartPreserves ==
    ASSUME IInv, VerifyStart
    PROVE  IInv'
  <1>0. TypeOK /\ Held /\ Told /\ 0 \in 0..MaxRetries
    BY InvariantParts, MaxRetriesAssumption
  <1>1. TypeOK'
    BY <1>0 DEF TypeOK, Places, VerifyStart, Answered, ReaderStarts
  <1>2. Held'
    BY <1>0 DEF Held, HoldsByPlace, LeftForCause, ReaderGivenBack, RoundsBracketed, VerifyStart,
       Answered, ReaderStarts
  <1>3. Told'
    BY DEF Told, QueueIsOwn, ReportsOwnRound, VerifyStart
  <1> QED BY <1>1, <1>2, <1>3 DEF IInv, Held, Told

\* A signal that is dropped leads back to the loop's condition; the wait is entered
\* with an empty queue, or without a connection.
LEMMA DropPreserves ==
    ASSUME IInv, DropProcess
    PROVE  IInv'
  <1>0. TypeOK /\ Held /\ Told
    BY InvariantParts
  <1>a. /\ pc = "drop"
        /\ UNCHANGED <<main, stop_requested, running, got_result, connected, claimed, verifying,
                       done, retries, report, sent, failed>>
    BY DEF DropProcess, readerVars, history
  <1>1. CASE connected /\ bus # <<>>
    <2>0. bus' = Tail(bus) /\ pc' = "inner"
      BY <1>1 DEF DropProcess
    <2>1. TypeOK'
      BY <1>0, <1>a, <1>1, <2>0, TailOfBus DEF TypeOK, Places
    <2>2. Held'
      BY <1>0, <1>a, <2>0 DEF Held, HoldsByPlace, LeftForCause, ReaderGivenBack, RoundsBracketed
    <2>3. Told'
      BY <1>0, <1>a, <2>0 DEF Told, QueueIsOwn, ReportsOwnRound
    <2> QED BY <2>1, <2>2, <2>3 DEF IInv, Held, Told
  <1>2. CASE ~(connected /\ bus # <<>>)
    <2>0. pc' = "wait" /\ bus' = bus
      BY <1>2 DEF DropProcess
    <2>1. TypeOK'
      BY <1>0, <1>a, <2>0 DEF TypeOK, Places
    <2>2. Held'
      BY <1>0, <1>a, <2>0 DEF Held, HoldsByPlace, LeftForCause, ReaderGivenBack, RoundsBracketed
    <2>3. Told'
      BY <1>0, <1>a, <1>2, <2>0, ToldKept
    <2> QED BY <2>1, <2>2, <2>3 DEF IInv, Held, Told
  <1> QED BY <1>1, <1>2

\* A signal that is taken was sent in this round, and is reported for what it says.
LEMMA TakePreserves ==
    ASSUME IInv, TakeProcess
    PROVE  IInv'
  <1>0. TypeOK /\ Held /\ Told
    BY InvariantParts
  <1>a. /\ pc = "take" /\ pc' = "inner"
        /\ UNCHANGED <<main, stop_requested, running, connected, claimed, verifying, done, retries,
                       sent, failed>>
    BY DEF TakeProcess, readerVars
  <1>1. Held'
    BY <1>0, <1>a DEF Held, HoldsByPlace, LeftForCause, ReaderGivenBack, RoundsBracketed
  <1>2. CASE connected /\ bus # <<>>
    <2>0. bus' = Tail(bus) /\ Handle(Head(bus))
      BY <1>2 DEF TakeProcess
    <2>1. Head(bus) \in Statuses /\ Head(bus) = bus[1] /\ 1 \in DOMAIN bus /\ Tail(bus) \in Seq(Statuses)
      BY <1>0, <1>2, TailOfBus DEF TypeOK
    <2>2. Head(bus) \in sent
      BY <1>0, <1>a, <1>2, <2>1 DEF Told, QueueIsOwn
    <2>3. \/ Head(bus) = "match" /\ got_result' = TRUE /\ report' = "Match"
          \/ Head(bus) = "retry" /\ UNCHANGED <<got_result, report>>
          \/ Head(bus) \in {"no-match", "other"} /\ got_result' = TRUE /\ report' = "NoMatch"
      BY <2>0, <2>1 DEF Handle, Statuses
    <2>4. TypeOK'
      BY <1>0, <1>a, <2>0, <2>1, <2>3 DEF TypeOK, Places
    <2>5. Told'
      BY <1>0, <1>a, <2>2, <2>3 DEF Told, QueueIsOwn, ReportsOwnRound
    <2> QED BY <1>1, <2>4, <2>5 DEF IInv, Held, Told
  <1>3. CASE ~(connected /\ bus # <<>>)
    <2>0. UNCHANGED <<bus, got_result, report>>
      BY <1>3 DEF TakeProcess
    <2>1. TypeOK'
      BY <1>0, <1>a, <2>0 DEF TypeOK, Places
    <2>2. Told'
      BY <1>0, <1>a, <2>0, ToldKept
    <2> QED BY <1>1, <2>1, <2>2 DEF IInv, Held, Told
  <1> QED BY <1>2, <1>3

\* A signal joins the queue and what the round has sent.
LEMMA ScanPreserves ==
    ASSUME IInv, NEW status \in Statuses, Scan(status)
    PROVE  IInv'
  <1>0. TypeOK /\ Held /\ Told
    BY InvariantParts
  <1>1. /\ bus' = Append(bus, status) /\ sent' = sent \cup {status}
        /\ UNCHANGED <<main, stop_requested, pc, running, got_result, connected, claimed, verifying,
                       report, failed>>
    BY DEF Scan, Signal, threadVars
  <1>2. /\ Append(bus, status) \in Seq(Statuses)
        /\ \A i \in DOMAIN Append(bus, status) :
             \/ i \in DOMAIN bus /\ Append(bus, status)[i] = bus[i]
             \/ Append(bus, status)[i] = status
    BY <1>0, SignalOnBus DEF TypeOK
  <1>3. retries' \in 0..MaxRetries /\ done' \in BOOLEAN
    <2>1. \/ done' = TRUE /\ UNCHANGED retries
          \/ retries < MaxRetries /\ retries' = retries + 1 /\ UNCHANGED done
      BY DEF Scan
    <2>2. retries' \in 0..MaxRetries
      BY <1>0, <2>1, MaxRetriesAssumption DEF TypeOK
    <2>3. done' \in BOOLEAN
      BY <1>0, <2>1, Zenon DEF TypeOK
    <2> QED BY <2>2, <2>3
  <1>4. TypeOK'
    BY <1>0, <1>1, <1>2, <1>3 DEF TypeOK
  <1>5. Held'
    BY <1>0, <1>1 DEF Held, HoldsByPlace, LeftForCause, ReaderGivenBack, RoundsBracketed
  <1>6. ReportsOwnRound'
    BY <1>0, <1>1 DEF Told, ReportsOwnRound
  <1>7. QueueIsOwn'
    BY <1>0, <1>1, <1>2 DEF Told, QueueIsOwn
  <1> QED BY <1>4, <1>5, <1>6, <1>7 DEF IInv, Held, Told

\* Every step keeps the invariant.
LEMMA StepPreserves == IInv /\ [Next]_vars => IInv'
  <1> SUFFICES ASSUME IInv, [Next]_vars PROVE IInv'
    OBVIOUS
  <1>1. CASE (\E yes \in BOOLEAN : is_available(yes)) \/ stop \/ stop_returns
    BY <1>1, MainPreserves
  <1>2. CASE ThreadStep
    BY <1>2, OpeningPreserves, LoopPreserves, EndPreserves, VerifyStartPreserves, DropPreserves,
       TakePreserves DEF ThreadStep
  <1>3. CASE \E status \in Statuses : Scan(status)
    BY <1>3, ScanPreserves
  <1>4. CASE Disconnect
    BY <1>4, EndPreserves
  <1>5. CASE UNCHANGED vars
    <2>1. IInv /\ UNCHANGED <<main, stop_requested, pc, running, got_result, connected, bus,
       claimed,
                              verifying, done, retries, report, sent, failed>>
      BY <1>5 DEF vars, threadVars, readerVars, history
    <2> QED BY <2>1 DEF IInv, TypeOK, HoldsByPlace, QueueIsOwn, LeftForCause, ReaderGivenBack,
                        RoundsBracketed, ReportsOwnRound
  <1> QED BY <1>1, <1>2, <1>3, <1>4, <1>5 DEF Next, Terminated

-----------------------------------------------------------------------------

\* The inductive invariant holds of every run of the listener.
THEOREM Invariance == Spec => []IInv
  BY InitEstablishes, StepPreserves, PTL DEF Spec

\* Every variable keeps its type, for any number of retries and any queue.
THEOREM TypeCorrect == Spec => []TypeOK
  <1>1. IInv => TypeOK
    BY DEF IInv
  <1> QED BY <1>1, Invariance, PTL

\* What is held when the connection closes is held because one of the calls that
\* should have given it back failed; the end of the thread frees it in any case
\* (fingerprint.cpp:94-185).
THEOREM ReaderReturned == Spec => []ReaderGivenBack
  <1>1. IInv => ReaderGivenBack
    BY DEF IInv
  <1> QED BY <1>1, Invariance, PTL

\* A new round is asked for over the last one only after a failed VerifyStop
\* (fingerprint.cpp:110-169).
THEOREM RoundsAreBracketed == Spec => []RoundsBracketed
  <1>1. IInv => RoundsBracketed
    BY DEF IInv
  <1> QED BY <1>1, Invariance, PTL

\* A report is of what the reader said in the same round, however signals queue
\* up, are dropped, or go on after an unlisted status (fingerprint.cpp:123-160).
THEOREM ReportsAreOfTheRound == Spec => []ReportsOwnRound
  <1>1. IInv => ReportsOwnRound
    BY DEF IInv
  <1> QED BY <1>1, Invariance, PTL

\* Only a stop or a failed call ends the thread (fingerprint.cpp:108-174).
THEOREM KeepsListening == Spec => []ListensOn
  <1>1. IInv => ListensOn
    BY DEF IInv, LeftForCause, ListensOn
  <1> QED BY <1>1, Invariance, PTL
=============================================================================
