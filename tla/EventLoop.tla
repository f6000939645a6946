------------------------------ MODULE EventLoop ------------------------------
(***************************************************************************)
(* typelock at run time: the main thread's event loop (src/main.cpp), the  *)
(* PAM thread it spawns for each password (auth/pam.cpp), and the thread   *)
(* that listens to the fingerprint reader, as far as the loop sees it      *)
(* (auth/fingerprint.cpp; FingerprintListener has the detail).             *)
(*                                                                         *)
(* The threads share one mutex-protected queue, pending_events; a push and *)
(* a drain are each one critical section, hence one step.  The main thread *)
(* alone touches the lock state, and blocks where the code joins a thread. *)
(***************************************************************************)
EXTENDS LockMachine

CONSTANTS
    Secret,     \* the user's password
    None,       \* "no value"
    MaxLen,     \* bound: longest password the user types
    MaxQueue    \* bound: fingerprint reports waiting in the queue

ASSUME SecretAssumption == Secret \in Passwords
ASSUME NoneAssumption   == None \notin Passwords \cup Events
ASSUME BoundAssumption  == MaxLen \in Nat /\ MaxQueue \in Nat

VARIABLES
    \* main thread
    state,              \* the lock machine's state
    pc,                 \* where the main thread is
    running,            \* the loop's flag
    batch,              \* drained events not dispatched yet
    repeat,             \* the event a held key repeats, None if not repeating
    starting,           \* password given to authenticate_async, until it spawns
    unlock_requested,   \* client.unlock_session() was called
    fingerprint_active, \* start() returned true
    \* shared
    pending_events,     \* the queue
    stop_requested,     \* set by fingerprint.stop()
    \* PAM thread
    pam,                \* where it is
    pam_password,       \* the password it verifies
    verdict,            \* what authenticate() returned
    \* fingerprint thread
    fp

mainVars == <<state, pc, running, batch, repeat, starting, unlock_requested,
              fingerprint_active, stop_requested>>
pamVars  == <<pam, pam_password, verdict>>
vars     == <<mainVars, pending_events, pamVars, fp>>

\* What the background threads put in the queue.
Reports == [type : {"AuthSuccess", "AuthFail", "FingerprintMatch", "FingerprintNoMatch"}]

Places   == {"startup", "first", "drain", "handle", "repeat", "poll",
             "stop", "joinFp", "joinPam", "done"}
PamPlaces == {"none", "verifying", "answered", "posted", "finished"}
Verdicts  == {"Success", "Failure"}

TypeOK ==
    /\ state \in States
    /\ pc \in Places
    /\ running \in BOOLEAN
    /\ batch \in Seq(Reports)
    /\ repeat \in {KeyPress(c) : c \in Codepoints} \cup {Plain("Backspace"), None}
    /\ starting \in Passwords \cup {None}
    /\ unlock_requested \in BOOLEAN
    /\ fingerprint_active \in BOOLEAN
    /\ pending_events \in Seq(Reports)
    /\ stop_requested \in BOOLEAN
    /\ pam \in PamPlaces
    /\ pam_password \in Passwords
    /\ verdict \in Verdicts
    /\ fp \in {"off", "listening", "finished"}

\* The lock is held and main reaches its first, blocking, client.dispatch().
\* With a reader configured and present the listener has been started.
Init ==
    /\ state = Idle
    /\ pc = "startup"
    /\ running = TRUE
    /\ batch = <<>>
    /\ repeat = None
    /\ starting = None
    /\ unlock_requested = FALSE
    /\ fingerprint_active \in BOOLEAN
    /\ pending_events = <<>>
    /\ stop_requested = FALSE
    /\ pam = "none"
    /\ pam_password = <<>>
    /\ verdict = "Failure"
    /\ fp = IF fingerprint_active THEN "listening" ELSE "off"

-----------------------------------------------------------------------------
(* Helpers of the main thread *)

push_event(e) == pending_events' = Append(pending_events, e)

execute_effect(effect) ==
    /\ starting' = IF effect.type = "StartAuth" THEN effect.password ELSE starting
    /\ unlock_requested' = (unlock_requested \/ effect.type = "ExitProgram")

\* dispatch(state, e), then the effect, as all three call sites do
Apply(e) ==
    LET r == Dispatch(state, e) IN
    /\ state' = r.state
    /\ execute_effect(r.effect)

\* Bound: the user stops typing at MaxLen characters.
Fits(e) == (e.type = "KeyPress" /\ state.kind = "Typing") => Len(state.buffer) < MaxLen

-----------------------------------------------------------------------------
(* The key callback, run inside client.dispatch() and dispatch_pending() *)

\* The first client.dispatch() waits, without a time limit, for the compositor:
\* an event, which may be none of ours, or the loss of the connection.
FirstEvent ==
    /\ pc = "startup"
    /\ pc' = "first"
    /\ UNCHANGED <<state, running, batch, repeat, starting, unlock_requested,
                   fingerprint_active, stop_requested, pending_events, pamVars, fp>>

CallbacksRun == pc \in {"first", "poll"} /\ starting = None

\* Return or keypad Enter
PressReturn ==
    /\ CallbacksRun
    /\ repeat' = None
    /\ Apply(Plain("Submit"))
    /\ UNCHANGED <<pc, running, batch, fingerprint_active, stop_requested,
                   pending_events, pamVars, fp>>

PressEscape ==
    /\ CallbacksRun
    /\ repeat' = None
    /\ Apply(Plain("Timeout"))
    /\ UNCHANGED <<pc, running, batch, fingerprint_active, stop_requested,
                   pending_events, pamVars, fp>>

\* BackSpace and the keys with a codepoint arm the repeat.  A key without one
\* (a modifier, an arrow) returns early and changes nothing here.
PressRepeatable(e) ==
    /\ CallbacksRun
    /\ Fits(e)
    /\ repeat' = e
    /\ Apply(e)
    /\ UNCHANGED <<pc, running, batch, fingerprint_active, stop_requested,
                   pending_events, pamVars, fp>>

KeyCallback ==
    \/ PressReturn
    \/ PressEscape
    \/ PressRepeatable(Plain("Backspace"))
    \/ \E c \in Codepoints : PressRepeatable(KeyPress(c))

\* Slip: the new thread verifies the password of the thread before.
SpawnPam_KeepsPassword ==
    /\ starting # None
    /\ pam \in {"none", "finished"}
    /\ pam' = "verifying"
    /\ pam_password' = IF pam = "none" THEN starting ELSE pam_password
    /\ starting' = None
    /\ UNCHANGED <<state, pc, running, batch, repeat, unlock_requested, fingerprint_active,
                   stop_requested, pending_events, verdict, fp>>

\* authenticate_async: join the previous PAM thread, then spawn the next.
\* Until then the main thread is stuck inside the key callback.
SpawnPam ==
    /\ starting # None
    /\ pam \in {"none", "finished"}
    /\ pam' = "verifying"
    /\ pam_password' = starting
    /\ starting' = None
    /\ UNCHANGED <<state, pc, running, batch, repeat, unlock_requested, fingerprint_active,
                   stop_requested, pending_events, verdict, fp>>

-----------------------------------------------------------------------------
(* The main loop *)

\* The first client.dispatch(), which has what it waited for, returns; its result
\* is not looked at.
EnterLoop ==
    /\ pc = "first" /\ starting = None
    /\ pc' = "drain"
    /\ UNCHANGED <<state, running, batch, repeat, starting, unlock_requested,
                   fingerprint_active, stop_requested, pending_events, pamVars, fp>>

drain_events ==
    /\ pc = "drain"
    /\ batch' = pending_events
    /\ pending_events' = <<>>
    /\ pc' = "handle"
    /\ UNCHANGED <<state, running, repeat, starting, unlock_requested,
                   fingerprint_active, stop_requested, pamVars, fp>>

\* Slips: no break once Unlocked; only the first event of the batch is handled.
HandleEvent_NoBreak ==
    /\ pc = "handle" /\ batch # <<>>
    /\ Apply(Head(batch))
    /\ batch' = Tail(batch)
    /\ running' = (state'.kind # "Unlocked")
    /\ UNCHANGED <<pc, repeat, fingerprint_active, stop_requested, pending_events,
                   pamVars, fp>>

HandleEvent_FirstOnly ==
    /\ pc = "handle" /\ batch # <<>>
    /\ Apply(Head(batch))
    /\ batch' = <<>>
    /\ IF state'.kind = "Unlocked"
         THEN running' = FALSE /\ pc' = "stop"
         ELSE UNCHANGED <<running, pc>>
    /\ UNCHANGED <<repeat, fingerprint_active, stop_requested, pending_events,
                   pamVars, fp>>

\* Dispatch one drained event; Unlocked leaves the loop and drops the rest.
HandleEvent ==
    /\ pc = "handle" /\ batch # <<>>
    /\ Apply(Head(batch))
    /\ IF state'.kind = "Unlocked"
         THEN running' = FALSE /\ batch' = <<>> /\ pc' = "stop"
         ELSE batch' = Tail(batch) /\ UNCHANGED <<running, pc>>
    /\ UNCHANGED <<repeat, fingerprint_active, stop_requested, pending_events,
                   pamVars, fp>>

BatchDone ==
    /\ pc = "handle" /\ batch = <<>>
    /\ pc' = "repeat"
    /\ UNCHANGED <<state, running, batch, repeat, starting, unlock_requested,
                   fingerprint_active, stop_requested, pending_events, pamVars, fp>>

\* The held key's event is due; the compositor's rate is above zero.
RepeatKey ==
    /\ pc = "repeat" /\ repeat # None
    /\ Fits(repeat)
    /\ Apply(repeat)
    /\ pc' = "poll"
    /\ UNCHANGED <<running, batch, repeat, fingerprint_active, stop_requested,
                   pending_events, pamVars, fp>>

\* Nothing is due.  DPMS, animations and rendering come before the poll.
NoRepeat ==
    /\ pc = "repeat"
    /\ pc' = "poll"
    /\ UNCHANGED <<state, running, batch, repeat, starting, unlock_requested,
                   fingerprint_active, stop_requested, pending_events, pamVars, fp>>

\* poll() and what it dispatched are over: a timeout, or events were handled.
PollReturns ==
    /\ pc = "poll" /\ starting = None
    /\ pc' = "drain"
    /\ UNCHANGED <<state, running, batch, repeat, starting, unlock_requested,
                   fingerprint_active, stop_requested, pending_events, pamVars, fp>>

\* client.dispatch() < 0: the loop ends without a look at the queue.
ConnectionLost ==
    /\ pc = "poll" /\ starting = None
    /\ running' = FALSE
    /\ pc' = "stop"
    /\ UNCHANGED <<state, batch, repeat, starting, unlock_requested,
                   fingerprint_active, stop_requested, pending_events, pamVars, fp>>

-----------------------------------------------------------------------------
(* Leaving main: fingerprint.stop() joins its thread, ~PamAuth joins PAM's *)

\* Slip: the thread is joined without being asked to stop.
StopFingerprint_JoinOnly ==
    /\ pc = "stop"
    /\ pc' = IF fingerprint_active THEN "joinFp" ELSE "joinPam"
    /\ UNCHANGED <<state, running, batch, repeat, starting, unlock_requested,
                   fingerprint_active, stop_requested, pending_events, pamVars, fp>>

StopFingerprint ==
    /\ pc = "stop"
    /\ IF fingerprint_active
         THEN stop_requested' = TRUE /\ pc' = "joinFp"
         ELSE pc' = "joinPam" /\ UNCHANGED stop_requested
    /\ UNCHANGED <<state, running, batch, repeat, starting, unlock_requested,
                   fingerprint_active, pending_events, pamVars, fp>>

JoinFingerprint ==
    /\ pc = "joinFp" /\ fp = "finished"
    /\ pc' = "joinPam"
    /\ UNCHANGED <<state, running, batch, repeat, starting, unlock_requested,
                   fingerprint_active, stop_requested, pending_events, pamVars, fp>>

JoinPam ==
    /\ pc = "joinPam" /\ pam \in {"none", "finished"}
    /\ pc' = "done"
    /\ UNCHANGED <<state, running, batch, repeat, starting, unlock_requested,
                   fingerprint_active, stop_requested, pending_events, pamVars, fp>>

-----------------------------------------------------------------------------
(* The PAM thread *)

\* authenticate() returns.  PAM may refuse any password (account locked, no
\* user, module error) and accepts only the user's.
Verify ==
    /\ pam = "verifying"
    /\ \/ verdict' = "Failure"
       \/ verdict' = "Success" /\ pam_password = Secret
    /\ pam' = "answered"
    /\ UNCHANGED <<mainVars, pending_events, pam_password, fp>>

\* Slip: a failure is not posted.
Post_DropsFailure ==
    /\ pam = "answered"
    /\ IF verdict = "Success" THEN push_event(Plain("AuthSuccess"))
                              ELSE UNCHANGED pending_events
    /\ pam' = "posted"
    /\ UNCHANGED <<mainVars, pam_password, verdict, fp>>

\* The callback posts the verdict.
Post ==
    /\ pam = "answered"
    /\ push_event(Plain(IF verdict = "Success" THEN "AuthSuccess" ELSE "AuthFail"))
    /\ pam' = "posted"
    /\ UNCHANGED <<mainVars, pam_password, verdict, fp>>

ThreadReturns ==
    /\ pam = "posted"
    /\ pam' = "finished"
    /\ UNCHANGED <<mainVars, pending_events, pam_password, verdict, fp>>

-----------------------------------------------------------------------------
(* The fingerprint thread, from the outside *)

\* Reports reach the queue while it listens.  Bound: MaxQueue waiting events.
Report(t) ==
    /\ fp = "listening"
    /\ Len(pending_events) < MaxQueue
    /\ push_event(Plain(t))
    /\ UNCHANGED <<mainVars, pamVars, fp>>

\* listen_loop returns: on any D-Bus error, or because it was asked to stop.
ListenerReturns ==
    /\ fp = "listening"
    /\ fp' = "finished"
    /\ UNCHANGED <<mainVars, pending_events, pamVars>>

-----------------------------------------------------------------------------

MainStep ==
    \/ SpawnPam \/ EnterLoop \/ drain_events \/ HandleEvent \/ BatchDone
    \/ RepeatKey \/ NoRepeat \/ PollReturns
    \/ StopFingerprint \/ JoinFingerprint \/ JoinPam

PamStep == Verify \/ Post \/ ThreadReturns

\* After the last join the process is gone.
Terminated == pc = "done" /\ UNCHANGED vars

Next ==
    \/ FirstEvent \/ KeyCallback \/ ConnectionLost \/ MainStep \/ PamStep
    \/ \E t \in {"FingerprintMatch", "FingerprintNoMatch"} : Report(t)
    \/ ListenerReturns
    \/ Terminated

\* The operating system runs the main thread and the PAM thread, PAM answers,
\* and a listener asked to stop does.  Keys, fingers, errors need not come, nor
\* need the event the first dispatch waits for.
Fairness ==
    /\ WF_vars(MainStep)
    /\ WF_vars(PamStep)
    /\ WF_vars(stop_requested /\ ListenerReturns)

Spec == Init /\ [][Next]_vars /\ Fairness

-----------------------------------------------------------------------------
(* Safety *)

AnswerTypes == {"AuthSuccess", "AuthFail"}

Answers(q) == {i \in DOMAIN q : q[i].type \in AnswerTypes}

HasMatch(q) == \E i \in DOMAIN q : q[i].type = "FingerprintMatch"

Checking == state.kind = "Authenticating"

\* PAM's answer is still to be posted.
Owed == pam \in {"verifying", "answered"}

\* A verdict on its way, in PAM's thread, the queue or the drained batch, is
\* the verdict on the password the user is waiting for: no answer outlives its
\* attempt and meets a later one (main.cpp:52-67, pam.cpp:70-81).
AnswersMatchAttempt ==
    /\ Owed => Checking /\ pam_password = state.password
    /\ \A q \in {pending_events, batch} : \A i \in Answers(q) :
         /\ Checking /\ pam_password = state.password
         /\ q[i] = Plain(IF verdict = "Success" THEN "AuthSuccess" ELSE "AuthFail")

\* Every attempt has exactly one answer to come, once its thread is spawned:
\* owed by PAM, or in the queue, or in the batch.
OneAnswerPerAttempt ==
    Checking /\ starting = None =>
        \/ Owed /\ Answers(pending_events) = {} /\ Answers(batch) = {}
        \/ /\ ~Owed /\ Answers(batch) = {}
           /\ \E i \in DOMAIN pending_events : Answers(pending_events) = {i}
        \/ /\ ~Owed /\ Answers(pending_events) = {}
           /\ \E i \in DOMAIN batch : Answers(batch) = {i}

\* The join in authenticate_async (pam.cpp:71-72) is reached only when the
\* previous PAM thread has posted its verdict: submitting never waits for PAM.
SubmitNeverWaitsForPam == starting # None => ~Owed

\* unlock_session() is called exactly when the machine is Unlocked, and from
\* then on main is on its way out: no later event finds the loop running.
UnlockedIsFinal ==
    /\ unlock_requested <=> state = Unlocked
    /\ unlock_requested => ~running /\ pc \in {"stop", "joinFp", "joinPam", "done"}

\* Where the main thread is, and what that says of its variables.
LoopShape ==
    /\ running <=> pc \in {"startup", "first", "drain", "handle", "repeat", "poll"}
    /\ pc # "handle" => batch = <<>>
    /\ starting # None => pc \in {"first", "poll"}

\* While main waits to spawn the thread for an attempt nothing else is under way.
CleanStart ==
    starting # None =>
        /\ state = Authenticating(starting)
        /\ ~Owed /\ Answers(pending_events) = {} /\ Answers(batch) = {}

\* PAM accepts the user's password only.
VerdictSound == pam # "verifying" /\ verdict = "Success" => pam_password = Secret

\* The inductive invariant: what is on its way is what the state waits for.
Accounting == AnswersMatchAttempt /\ OneAnswerPerAttempt /\ CleanStart /\ VerdictSound

IInv == TypeOK /\ LoopShape /\ UnlockedIsFinal /\ Accounting

-----------------------------------------------------------------------------
(* What a step may not do *)

\* What the user has typed is lost to no background thread: a late verdict or
\* a failed scan leaves it as it was, and only a match takes it away
\* (machine.hpp:265, "without losing typed password"; the error that comment also
\* promises is not shown).
TypedTextSurvives ==
    [][state.kind = "Typing" /\ pc = "handle" => state' \in {state, Unlocked}]_vars

\* Every change of state is a rule of the transition table, which the
\* static_asserts only check in the other direction, except that Backspace may
\* also empty the buffer (machine.hpp:331-345, 440).
StepsFollowTable ==
    [][state' # state =>
          \/ \E r \in TransitionTable : r[1] = state.kind /\ r[3] = state'.kind
          \/ state.kind = "Typing" /\ Len(state.buffer) <= 1 /\ state' = Idle]_vars

-----------------------------------------------------------------------------
(* Liveness *)

\* A reported match opens the screen, unless a password is under check: whether
\* it came in the loop or while the first dispatch (main.cpp:304) was waiting.
\* But for that dispatch to return the compositor has to send something.
MatchUnlocks ==
    pc # "startup" /\ HasMatch(pending_events) ~> (unlock_requested \/ ~running \/ Checking)

\* Once the loop is left, both joins return and the process ends.
ExitCompletes == ~running ~> (pc = "done")

-----------------------------------------------------------------------------
(* The loop implements ScreenLock *)

Screen == IF unlock_requested THEN "released"
          ELSE IF running THEN "locked" ELSE "abandoned"

Attempt == IF Checking THEN state.password ELSE None

Touched == HasMatch(pending_events) \/ HasMatch(batch)

Lock == INSTANCE ScreenLock WITH screen <- Screen, attempt <- Attempt, touched <- Touched

\* Threads, queue and joins included, the loop only ever does what ScreenLock
\* allows: the screen opens for the right password or a matching finger only.
ImplementsScreenLock == Lock!Safety

\* While the loop runs, every attempt is answered.
AnswersEveryAttempt == Lock!Fairness
=============================================================================

