# Verification of typelock

typelock is a Wayland screen locker in C++. This directory holds TLA+ models of
it, TLC runs over small instances, and TLAPS proofs. Paths below are relative to
the repository; `machine.hpp` is `src/core/machine.hpp`, and so on.

## 1. The system

| Part | Code | State | Operations |
|---|---|---|---|
| Lock state machine | `core/machine.hpp` | none: values of `State`, `Event`, `Effect` | `Transition<S, E>::apply`, `dispatch`, `view`, graph analysis at compile time |
| Event loop | `main.cpp` | `state`, `running`, key repeat, DPMS, animations, buffers; the queue `pending_events` under `event_mutex` | key callback, `drain_events`, `execute_effect`, the loop's seven steps, shutdown |
| PAM | `auth/pam.cpp` | `thread_`, `busy_` | `authenticate_async`, `authenticate`, destructor |
| Fingerprint | `auth/fingerprint.cpp` | `thread_`, `running_`, `stop_requested_`, the D-Bus connection | `is_available`, `start`, `stop`, `listen_loop` |
| Wayland client | `wayland/client.cpp` | the protocol objects, `outputs_`, `lock_surfaces_`, `locked_`, `finished_`, xkb state, repeat info | `connect`, `lock_session`, `unlock_session`, listeners, `dispatch`, `flush`, buffers, screen capture, DPMS |
| Renderer, blur | `render/` | backgrounds, fonts | `set_backgrounds`, `draw`, `stackblur` |
| Configuration | `config/`, `core/config.hpp` | none | `parse` |
| Grace period | `main.cpp:75-104` | a file in `/tmp` | write and check a timestamp |

How they interact:

* Three threads. The main thread alone owns the lock state, the Wayland
  connection and the renderer. A PAM thread exists per submitted password, a
  fingerprint thread for the whole run. Both call back into `push_event`; the
  main thread takes everything out with `drain_events` once a turn.
* `execute_effect` starts the PAM thread (joining the one before) or queues the
  unlock. Leaving `main` joins the fingerprint thread, then PAM's.
* Keys arrive as callbacks inside `client.dispatch()`, that is in the first
  dispatch or in the poll step, never while the queue is being handled.
* Requests to the compositor wait in libwayland's buffer until a flush,
  a roundtrip or a blocking dispatch. Every one of the last two dispatches whatever
  events there are, registry events in the middle of a screen capture included.
* The fingerprint thread talks to fprintd over the bus: Claim, then rounds of
  VerifyStart, signals, VerifyStop, then Release.
* Runs of the program know of one another by the timestamp file only.

Hard behaviours, and what makes each part correct:

* *Answers and attempts.* Verdicts come back asynchronously. Correct means: a
  verdict is only ever taken for the password it is about, each attempt gets
  one, submitting never blocks on PAM, and nothing but the right password or a
  matching finger opens the screen.
* *Shutdown.* Two joins, one of them without a time limit of its own.
* *Signals, failing calls and stop in the listener.* Correct means: a report is of
  the round under way, what stays held is owed to a call that failed, the thread
  goes on listening, a stop is answered.
* *The session-lock protocol.* Configure, ack, commit, locked, finished, unlock,
  hot plugging and a dying compositor interleave. Correct means: no protocol
  error, every surface drawn, the unlock reaching the compositor.
* *Keys and time.* Releases are ignored and repeats are made by the client.
  Correct means: who types briskly types what was meant, and the displays are off
  when the user is idle and only then.
* *Drawing.* Many places change the state; each must ask for a redraw, and buffers
  come and go with sizes and failures. Correct means: what is on the screen is the
  view of the state, and descriptors are closed once.
* *Capturing.* Nested roundtrips, refused frames. Correct means: it ends, and each
  picture is one output's.
* *Runs one after another.* Kills, two at once, a clock that is set. Correct means:
  the lock is skipped within the grace period, and only then.

`PROJECT.json` lists every component and every hazard at its line.

## 2. Modules

| Module | Models | State and actions |
|---|---|---|
| `LockMachine` | `machine.hpp` | pure operators. `ValidTransition` is the set of pairs with a specialization, `Transition` the body of `apply`, `Dispatch` the visitor that ignores the rest |
| `ScreenLock` | the promise | `screen`, `attempt`, `touched`: submit, reject, accept, a finger, abandon |
| `EventLoop` | `main.cpp`, `pam.cpp`, and the fingerprint thread from outside | `pc` is where main is (`startup` the first dispatch waits, `first` it dispatches, `drain`, `handle`, `repeat`, `poll`, then the shutdown). One action per branch of the key callback and per step of the loop; `starting` is the password between `StartAuth` and the spawn, while main may wait in `join` |
| `FingerprintListener` | `fingerprint.cpp` | `pc` is the call or loop head the thread is at; `bus` holds the signals that reached the connection; `claimed`, `verifying`, `done` are fprintd's; `failed` is the history of calls that returned an error |
| `SessionLock` | `client.cpp` with main's use of it | the client's objects and flags, `out` (not flushed), `c2s`, `s2c`, `link`, and the compositor's `session`, `drawn`, `plug` |
| `KeyInput` | the keyboard listeners, the key callback, the steps 2 and 3 of the loop | stopwatches for the points in time the code keeps, the repeat, `dpms_off` and each output's power, keymaps with libxkbcommon's reference counts. One action per branch of the callback, per listener and per step; `Tick` |
| `ShmBuffers` | `create_shm_buffer`, `ShmBuffer` | who owns each file descriptor number: the client, another part, nobody |
| `Capture` | `capture_outputs`, its listeners, `set_backgrounds` | the range-for by index, `capture` is `*active_capture_`, roundtrips as places where events are dispatched one by one |
| `Render` | `render_all`, the redraw flags, `view` | per surface its size, flag and buffer, and as history whether it shows the present view |
| `ConfigParser` | `config/parser.cpp` | pure: `Line` is a turn of the loop over the lines of a file, `AfterLine` the state after each; `LastWins` is the reference |
| `Grace` | `main.cpp:75-104` and its callers | processes around one timestamp file; opening and writing it are two steps |
| `Blur` | `render/blur.cpp` | one line of one channel, the stack and the three sums, one `Slide` per pixel |
| `MCEventLoop`, `MCKeyInput`, `MCCapture`, `MCGrace`, `MCBlur` | | the constants TLC uses |
| `EventLoopProofs`, `FingerprintProofs`, `SessionLockProofs`, `KeyInputProofs`, `RenderProofs`, `CaptureProofs`, `GraceProofs`, `BlurProofs` | | lemmas and theorems |

How they fit. `EventLoop`, `KeyInput` and `Render` extend `LockMachine` and each
apply `Dispatch` to their `state`; `Capture` and `Render` share `ShmBuffers`;
`Grace` extends `ConfigParser` for the period a run reads. The loop of `main` is
seen three times, each time with the part of its turn that matters: `EventLoop`
has the threads and no time (an armed repeat may fire in any turn), `KeyInput` the
time and no threads, `Render` the drawing and neither; a report of PAM or the
reader is, in the last two, an event that may come at any drain, which is more
than the threads do. Two more views share a border: `EventLoop` sees the listener
as a source of `Report`s that may return at any time, which is more than
`FingerprintListener` does; `SessionLock` sees the lock state as an `ExitProgram`
that may come in any turn of the loop.

Operators that carry a suffix after an underscore and a comment "Slip" are
deliberate mistakes in the operation they are named for. No specification uses
them; each is there because putting it in the operation's place breaks a
property, which is how the properties were tried.

### Abstractions

* A character is Ascii (below 0x80, appended to the password) or Wide (not
  appended, `machine.hpp:181`). Passwords are sequences of Ascii characters.
* An error message is the class of its source. Texts, fonts, colours, pixels on
  the screen and the values of animations are left out; of the view `Render` keeps
  the status, the number of dots and the error.
* A push and a drain are critical sections of one mutex, so each is a step.
  Between any two steps of the main thread the others may run.
* Time: in `EventLoop` a held key's repeat may fire in any turn after it is armed, a
  `poll` may time out at any moment, the listener's 500 ms wait ends at any moment.
  The first dispatch (`main.cpp:304`) has no time limit: it returns for an event.
  In `KeyInput` it passes in ticks between any two steps; the three differences the
  code computes from points in time are stopwatches that stop above everything the
  code compares them with. `TicksPerSecond` stands for the 1000 of `main.cpp:346`. In
  `Grace` half seconds, so that what `duration_cast` drops is seen.
* PAM accepts the user's password only, and may refuse any. It always answers.
* `sd_bus_process(bus, nullptr)` handles and discards a queued message. A call over the
  bus that is answered was carried out; one that returns an error or a timeout may have
  been or not. fprintd ends a round after a match, a no-match or an error, and goes on
  after a retry, `verify-retry-scan` included, which the code takes for a no-match; a
  reader that is released does not go on with a round, and a connection that closes
  frees what was held over it.
* libwayland: `wl_display_roundtrip`, `wl_display_flush` and a
  `wl_display_dispatch` that blocks send what is queued;
  `wl_display_disconnect` closes the socket and sends nothing; events for a
  destroyed object are dropped. `std::vector` grows by doubling, and an element
  read after that is what was there, an element without a size, or a crash.
  The kernel hands out the lowest free descriptor number.
* The compositor follows `protocols/ext-session-lock-v1.xml`. `Patient` says whether it
  waits for every surface before `locked`; both kinds conform. It may say `finished` at
  any time once it has seen the request: the lock failed, or one that was granted has
  been destroyed. A frame is offered, copied or refused; a second event for one that is
  over is not sent.
* What xkb makes of a key under the modifiers is any of `Texts`; a keymap with no
  reference left may be sent again as a new one.
* A configure carries a size other than zero. In `SessionLock` buffers can be
  allocated, and who asks for a redraw, and when, is left open (`RedrawAll`);
  `Render` has both.
* `handle_registry_remove` ignores its argument, so an unplugged output only
  stops getting configures; an output plugged in again is a new one.
* A configuration line is what the parser tells apart: a closed header, an open one,
  a pair, or one that is skipped. What `stod`, `stoi`, `stof` and the hex reader make
  of a text are tables given as constants; the two numbers a double can be between
  two whole seconds are one. The defaults of all fields are the code's.
* `Blur` takes the lowest channel: what is written is not masked, so a value above
  255 reaches into the next one. The columns take the same steps as the rows
  (`blur.cpp:145-210`).

## 3. Runs

| Run | Question | Bounds |
|---|---|---|
| `EventLoop` | does any interleaving of keys, loop, PAM and scans mix up attempts and answers, lose typed text or break the promise of `ScreenLock`; are attempts answered, do matches unlock, does the shutdown come to an end? | one Ascii and one Wide character, passwords up to 2, 2 reports waiting |
| `Listener_rounds` | whose signals are reported, what is held after which failures, when does the listener end? | two signals a round that do not end it |
| `Session` | does the client keep to the protocol, are surfaces drawn, is a loss noticed? | two displays, one or both there at the start, nothing unasked while 2 messages are under way |
| `KeyInput` | is what is typed what was meant, do the displays follow the user, are keymaps counted? | half-second ticks, three rates and delays, two displays, two keymaps, texts up to 2 |
| `Capture` | do captures end, hear their own frames, line up; are descriptors accounted for? | four displays, one to three at the start, two descriptor numbers |
| `Render` | is the view on the screen, are descriptors closed once? | two surfaces, two sizes, two descriptor numbers, texts up to 1 |
| `Grace` | is the file read as it should be, and the lock skipped when it should? | two processes, 253 configuration files of up to 3 lines (one of 3 after the first start), 5.5 s, the clock set back by 1.5 s |
| `Blur` | do the tables divide, is the stack the window? | radii -1 to 260 on even lines, six radii on all lines of up to 5 pixels in black and white |

Why the bounds are enough. `EventLoop`: with "a" the password and "aa" the longest
typed text, there are right, wrong, empty and over-long attempts, and a Wide key
makes the empty buffer; two reports beside one verdict give batches in which an
event comes before and after the one that unlocks. The number of attempts is not
bounded, so a verdict could meet any later attempt. With two signals before its last
a listener's round can be reported, outlive the `VerifyStop` and send a match for the
next one; rounds and failures are not bounded. `Session`: two surfaces are the least that
can be in different stages; size changes arrive as long as there is room. `KeyInput`:
the delays are 2 and 3 ticks and the idle time 3, so each may run out before the
others; one rate gives a repeat every tick, one every other, one none at all.
`Capture`: the second and the third display reallocate `outputs_` under the walk, and
with three found the fourth is an append that does not.
`Render`: two descriptor numbers for two surfaces and the rest of the process, so that
none may be left, and a number comes back to another owner. `Grace`: the longest
period is 5 s, so it can run out; the clock set back makes elapsed times negative;
two processes can overlap between opening and writing, and runs of each are not
bounded. Only the first start reads files other than the three that differ in the
grace period (constraint `Followed`): the others have one of these periods or fail.
Two processes are interchangeable and no property is temporal but of the form
`[][A]_v`, so symmetry is sound. `Blur`: five pixels are more and fewer than the
windows of radius 1 to 7, and no radius has an entry of the tables of its own beyond
those in the run.

`CONSTANTS` in the `.cfg` files name every bound: `MaxLen`, `MaxQueue`,
`MaxRetries`, `MaxUnderWay`, `MaxTime`.

Most runs leave out the inductive invariants `IInv` and some the type invariants:
both hold for every instance (section 4), and adding them to the `.cfg` files is how
they were tried before they were proved.

`CHECK_DEADLOCK` is on everywhere: the end of the process is an action that
stutters.

### Where documents and program differ

Each of these is a run that TLC refutes, with the line quoted beside the
property.

| Run | Said | Done |
|---|---|---|
| `Claim_results` | the callback reports a match or no match (`fingerprint.hpp:16`) | a result that is early is discarded, and the round never ends |
| `Claim_first_dispatch` | "Initial dispatch to get configure events" (`main.cpp:303`) | they were dispatched before; the call blocks, and nothing is drawn until something else happens |
| `Claim_unlock_arrives` | the unlock reaches the compositor (`docs/architecture.md:208`) | it is queued and never flushed |
| `Claim_blur` | "visually indistinguishable from Gaussian blur" (`blur.hpp:10`) | radius 1 on 0, 255, 255 gives 63, 191, 303, and the last wraps to 47: the sum going out takes pixels already blurred (`blur.cpp:134`), and the sum coming in is undone at once (`:140`) |

Differences the models show in passing, without a run:

* "Authenticating::password is non-empty" (`docs/state-machine.md:51`), and so
  `Typing`'s buffer (`:49`): a non-ASCII key enters `Typing` with nothing in it, and
  Return submits that (`Appended`, `SubmitBuffer`).
* "A successful scan from any non-terminal state transitions directly to Unlocked"
  (`machine.hpp:263`): not from `Authenticating`; the report is dropped
  (`Specializations`). "A failed scan shows an error without losing typed password"
  (`machine.hpp:265`): in `Typing` it shows nothing, as the assertion of
  `machine.hpp:467` and the test `typing_fingerprint_nomatch_stays_typing` have it
  (`TypedTextSurvives`).
* The listener reads `done` of a signal and does not look at it
  (`fingerprint.cpp:139-140`): a `verify-retry-scan` is reported as no match and ends the
  thread's round, though not the reader's (`Handle`, `OnTheWay`). It looks at the result
  of neither `VerifyStop` nor `Release` (`RoundsBracketed`, `ReaderGivenBack`).
* "The compositor rejected the lock request" is a cause of "failed to lock session"
  (`docs/building.md:108-112`), and of `finished` the protocol says "The client should
  destroy this object" (`protocols/ext-session-lock-v1.xml:66-67`): `finished_` is never
  read, and main runs on with the lock and its surfaces (`handle_lock_finished`). When a
  lock that was granted ends, `locked_` stays set besides (`LockedAgrees`).
* `ExitProgram` means "unlock and exit" (`docs/state-machine.md:111`): before `locked`
  was dispatched it only exits (`unlock_session`).
* No timer ends an error (`docs/state-machine.md:43`, `:66`); main waits for PAM in
  `~PamAuth` when the connection is lost in mid-attempt (`docs/architecture.md:236`,
  `JoinPam`); `fingerprint_active` outlives the listener (`ListenerReturns`); a match
  is followed by another round, whatever `fingerprint.cpp:171` says (`VerifyStop`).
* An output plugged in under the lock gets no surface and no power object; one plugged
  in during a capture may crash the walk over `outputs_` (`NextOutput`, `dangling`).
* A lost connection leaves `capture_outputs` turning for ever (`RoundtripFails`).
* Screenshots move up by one for each output without one, and are drawn on the next
  output's surface (`BackgroundsAlign` says just how far they may).
* A held key is repeated until Return, Escape or another key, held or not
  (`BriskTypingIsExact` says what remains true); at a rate above 1000 none is
  repeated; a release is never looked at.
* A buffer that could not be made keeps the surface's size and is not tried again
  before a resize (`Failed`); after a failed `mmap` the number of a closed
  descriptor is closed again (`ClosesItsOwn`). `busy` is never read.
* The end of an animation draws no last frame, and the clock's text alone never asks
  for one: `ShownIsCurrent` is about the view of the lock state only.
* The timestamp is written, too, when the lock was refused or the connection lost, and
  each run that skips renews it (`LeaveLoop`, `CheckGrace`): with runs close enough
  the screen is never locked again. A clock set back prolongs the period
  (`disturbed` in `SkipIsRecent`).
* A malformed number in the configuration ends the program before it locks
  (`Start`).

### Fairness

* `EventLoop`: the main thread keeps taking steps (weak fairness of everything it
  does by itself), a PAM thread that runs answers and returns, and a listener
  that was asked to stop returns; `FingerprintListener` justifies the last
  (`StopReturns`). Nobody need press a key or touch the reader, and nothing need
  fail.
* `FingerprintListener`: the thread runs and its bus calls return (with a result
  or an error: sd-bus bounds them). Which of them fail is open.
* `SessionLock`: main and the compositor run. `DispatchEvent` and
  `ConnectionLost` are strongly fair: `poll` comes round every turn, and when the
  descriptor is readable it returns for it, so an event or a hang-up that stays
  cannot be passed over for ever.
* `KeyInput`, `Render`: the loop turns, since `poll` has a time limit. Time need not
  pass, and no key need be pressed.
* The first dispatch (`main.cpp:304`) has no limit, so in `EventLoop`, `KeyInput` and
  `Render` its return (`FirstEvent`) is under no fairness, and `MatchUnlocks`,
  `IdleTurnsOff` and `DrawnUnlessFailed` begin where it has returned. Until an event comes
  a match is not drained, the displays do not go off and nothing is drawn; that no event
  need come is `Claim_first_dispatch`.
* `Capture`: the client runs, and the compositor answers a roundtrip and serves a
  frame it was asked for, sooner or later.
* `Grace`, `Blur`: none; nothing is claimed that needs it.

## 4. Proofs

**The event loop** (`EventLoopProofs`), for any alphabet, any
password, and any values of the bounds, from `CharsAssumption`, `SecretAssumption`,
`NoneAssumption` and `BoundAssumption`.

* `TypeCorrect`, `Invariance`: the inductive invariant is
  `IInv == TypeOK /\ LoopShape /\ UnlockedIsFinal /\ Accounting`.
* From it: `AnswersAreForTheAttempt`, `AttemptsHaveOneAnswer`,
  `SubmitDoesNotBlock`, `UnlockIsFinal`, `TypingIsKept`.
* `TableIsFollowed`: every change of state is a rule of `TransitionTable`
  (`StepsFollowTable`). The `static_assert`s of `machine.hpp:440` check that each rule
  has a specialization, not that each specialization does what a rule says.
* `Refinement`: the loop implements the safety part of `ScreenLock`.

Why the strengthening is needed. `AnswersMatchAttempt` alone is not inductive: to
know that a verdict in the batch answers *this* attempt one must know that no
second verdict is in the queue behind it (`OneAnswerPerAttempt`), that none is
under way when an attempt begins (`CleanStart`), and that the batch is empty
outside the `handle` step (`LoopShape`), since `drain_events` replaces it. The
argument is a balance: an attempt owes one verdict to the user; `SpawnPam` makes
PAM owe it, `Post` moves it to the queue, `drain_events` to the batch,
`HandleEvent` uses it up and ends the attempt; every other step leaves the balance
as it is. `VerdictSound` ties a success to the user's password, which the
refinement's `Accept` needs.

`DispatchCases` turns `dispatch` into six outcomes,
`DispatchFollowsTable` compares it with the table, and
`ApplyCases`, `KeyCallbackCases` and `RepeatCases` lift them to the actions, so
that no later proof opens the transition function. The step proofs have one step
per action.

**The listener** (`FingerprintProofs`), for any number of signals a round:
`TypeCorrect`, `Invariance`, and from it `ReaderReturned`, `RoundsAreBracketed`,
`ReportsAreOfTheRound`, `KeepsListening`. The reader may go on with a round that the
thread has left, when the status did not end it and the `VerifyStop` failed, so signals
of one round do reach the queue in the next. `QueueIsOwn` is why none is reported: between
the `VerifyStart` and the second `sd_bus_process` the first one empties the queue (the
same that loses results, `Claim_results`), and what it does not find arrives in this
round. `HoldsByPlace` ties what is held to the place in `listen_loop` and to the calls
that failed, and `LeftForCause` says why the loop was left.

**The session lock** (`SessionLockProofs`), for any finite set of displays, any of them
found first, both kinds of compositor and queues of any length: `Invariance`, and from
it `TypesHold`, `NoCommitUnacknowledged`, `UnlocksOnlyTheLocked`,
`LockedIsTheCompositors`. None of the properties is inductive: each is about what has
arrived, and what will arrive is under way. The invariant therefore speaks about the
queues. `RequestsInOrder`: until main leaves its loop only acknowledgements wait to be
flushed, and what it asks for in the end stays behind (the connection is closed without
a flush). `AnswerStands`: the lock is asked for once, first; a `locked` under way or
dispatched means that it was granted, a `finished` that it is over. `EndIsTold`: a
granted lock that has ended is one whose `finished` is under way or was dispatched, so
where `locked_` and `session` differ the client has been told, or will be by what is
under way. `EndStaysTold` proves it on top of the rest. `AckedFirst`: in front of every
commit under way, and behind every size the client knows, there is an acknowledgement of
that surface, in `c2s`, in `out`, or handled already. `FlushKeepsOrder` is the step at
which this could go wrong: `flush` appends `out` to `c2s` and the commits of a redraw
behind both.

**The keyboard and the displays** (`KeyInputProofs`), for any texts, rates, delays
(zero included), idle timeout, outputs and keymaps: `Invariance`, and from it
`BriskIsExact`, `FlagIsFollowed`, `OffWhenIdle`, `MapsAreAccounted`. The invariant adds
`ClocksAgree`, that the idle time is the time since the last key and that the repeat's
clock was started by the key it repeats, and `NothingDue`, that a key below which
`MinDelay` has not passed has no repeat due. The second is not just `left < MinDelay`:
with a delay of zero it is the interval of at least one tick that keeps a repeat from
coming in the same instant as its key. `LeastDelay` finds the minimum of the delays by
the well-foundedness of `<`.

`CharactersAreDecoded`: the decoder of `client.cpp:571-580` inverts UTF-8 for every
codepoint up to 0x10FFFF (the run tries those at the borders of the lengths).
`DecodedIsEncoded` splits a codepoint into groups of six bits, one lemma for each length.

**Drawing** (`RenderProofs`), for any number of surfaces, sizes and descriptor numbers
and any length of text: `Invariance`, and from it `TypesHold`, `NoDescriptorLeaks`,
`NothingStaleWhileWaiting`. `ShownIsCurrent` speaks of one place of the turn only;
`FreshUnlessAsked` says the same of every place, as each of the handlers, the repeat,
the drain and the animation changes the view and must leave the flag set behind it.
`NoneLeaks` and `ClosesItsOwn` need `RemembersItsOwn`, that a number a buffer remembers
is one's own and no other buffer's, as long as no mapping has failed: the condition
under which the second close of `client.cpp:319-327` closes nothing of others.

**The capture** (`CaptureProofs`), for any finite set of displays found and plugged in
in any order, and any descriptor numbers: `Invariance`, and from it `TypesHold`,
`NoStrangersFrame`, `PicturesOnTheirScreens`, `NoDescriptorLeaks`. The invariant follows
the walk through its nested roundtrips. `InStep` says at which places a frame, a
buffer and the iterator belong together, `OneFrame` that only the frame being taken is
alive or served, `Pictures` that a "ready" under way belongs to an element the walk has
come to and, if to this one, that the picture is in the buffer, `BoundOnce` that no
output is announced or bound twice, and `ShotsAlign` is the property for the part of the
walk done so far. `DispatchEventPreserves` holds at all four places from which
roundtrips are made.

**The grace period** (`GraceProofs`), for any number of processes, any configuration
files, clock settings and time: `TypeCorrect`, `Invariance`, `SkipsAreRecent`,
`RecentsAreSkipped`. The invariant says that a time in the file comes from a run that
left its loop, and, while nobody set the clock or opened the file, is as old by the
wall clock as it really is. `SecondsShorter` compares the whole seconds of both sides
of `main.cpp:103`.

**The configuration** (`GraceProofs`), for files of any length and any texts:
`FilesAreRead`, that `Parse` gives every field the value of its last line or its default,
and fails just when a number of a known field does. It is an induction over the lines:
`ReadNext` is its step, and `EveryLineRead` the induction. An induction is done on a set
of numbers, not by a theorem with an operator parameter: `AllNumbers` says that a set
of naturals that has 0 and each successor is all of them, from the well-foundedness of
`<`, and `LineByLine` uses it first to show that the recursive function `AfterLine` is
the one its definition describes. `GracePeriodsAreNumbers`, the type the grace period's
arithmetic needs, follows.

**The blur** (`BlurProofs`), for any radius and any line: `Invariance`, and from it
`WindowOfTheOriginal`. The line is overwritten while it is read; that what comes in at
the right is still the original needs that everything from `x` on is unwritten, and
that the slot `x % div` is that of the pixel that leaves. `SameSlot` and `OtherSlot` are
the two facts about remainders this takes.

Then `FlatStays` and `FirstIsMean`, from a second invariant, `Sums`: what the three sums
of a line of one shade are, and that the first sum of any line is the weighted sum of its
window. Three things are needed.

* The sums have a value: `PartialSums` shows by `AllNumbers` that the recursive function
  of `Sum` adds up, `SumBetween` bounds it place by place, and `SumOfWeights` uses
  `Twice`, the closed form of the first `k` weights, to find that the weights of a window
  come to `(radius + 1)^2`.
* The shifts divide: `ScaledIs` shows that for every sum that can occur `sum * mul` stays
  below `2^32`, and that `Scaled`, which the model computes by halves of 16 bits, is
  the quotient by `2^shr` (`Halves`, `DividedTwice`).
* The tables divide: `TablesDivide` goes through the 254 entries, run by run of equal
  shifts. Each has `2^shr <= (radius + 1)^2 * mul`, and exceeds it by less than one 255th
  of `2^shr`. So a multiple of the weights up to 255 is divided exactly
  (`MultiplesDivide`), and any other sum to within 1 (`SumsDivide`).

`SlideSums` puts them together; for a line of one shade the pixel that leaves is read
from the stack, so it needs `StackIsWindow` as well.

Only model-checked: liveness (`AnswersEveryAttempt`, `MatchUnlocks`, `ExitCompletes`,
`StopReturns`, `SizedIsDrawn`, `LossIsNoticed`, `IdleTurnsOff`, `CaptureEnds`,
`DrawnUnlessFailed`), which is out of the prover's reach.

## 5. Plan

Done: every module named in section 2, and the safety properties of all of them proved.
What would add most:

1. An abstract specification of the capture (one picture at most for each output, in the
   order of the walk) that `Capture` is shown to implement.

## 6. Not modelled

* Drawing with cairo and pango (`render/renderer.cpp` beyond the choice of the
  background): it keeps no state. The widget templates of `core/widget.hpp` are
  declared and never instantiated; `draw` does its own layout.
* The compile-time analysis of the transition graph and the type-level library:
  evaluated by the compiler.
* The values of the animations and the clock's text; what the compositor shows of a
  buffer that is drawn into while it reads it.
* `default_config_path` (the environment only), trimming, and the number readers of
  the C++ library.

## 7. Running

    tlc -config EventLoop.cfg MCEventLoop
    tlc -config Listener_rounds.cfg FingerprintListener
    tlc -config Session.cfg SessionLock
    tlc -config KeyInput.cfg MCKeyInput
    tlc -config Capture.cfg MCCapture
    tlc -config Render.cfg Render
    tlc -config Grace.cfg MCGrace
    tlc -config Blur.cfg MCBlur
    tlapm EventLoopProofs.tla        # and the other *Proofs modules

The `claim_*.cfg` files belong to `FingerprintListener` (`results`), `SessionLock`
(`first_dispatch`, `unlock_arrives`) and `MCBlur` (`blur`); each is expected to report
a violation.
