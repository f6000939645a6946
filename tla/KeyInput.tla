------------------------------- MODULE KeyInput -------------------------------
(***************************************************************************)
(* The keyboard of the lock screen: the wl_keyboard listeners (src/wayland *)
(* /client.cpp), the key callback, and the two steps of the loop that time *)
(* drives, the key repeat and the display power (src/main.cpp).            *)
(*                                                                         *)
(* Time passes in ticks.  The code keeps points in time and subtracts them *)
(* from now; here each difference is a stopwatch, since_start, since_last  *)
(* and idle_time, that stops at Ceiling, above all the code compares with. *)
(* What PAM and the reader say reaches the lock state as in EventLoop.     *)
(***************************************************************************)
EXTENDS LockMachine, Integers, FiniteSets

CONSTANTS
    None,
    Texts,          \* what xkb may say a key produces: the bytes, in UTF-8
    Samples,        \* codepoints on which the decoder is tried
    TicksPerSecond, \* the 1000 of main.cpp:344
    Infos,          \* repeat rates and delays the compositor may announce
    DpmsTimeout,    \* dpms_timeout, in ticks; 0 leaves the displays on
    Outputs,
    Keymaps,        \* keymaps a compositor may send; one is free for use again
    MaxLen          \* bound: longest text in the lock state

ASSUME KeyInputAssumption ==
    /\ TicksPerSecond \in Nat \ {0} /\ DpmsTimeout \in Nat /\ MaxLen \in Nat
    /\ Infos \subseteq [rate : Nat, delay : Nat] /\ Infos # {} /\ IsFiniteSet(Infos)
    /\ None \notin Keymaps /\ None \notin Int
    /\ \A c \in Samples : c \in Nat /\ c <= 1114111

VARIABLES
    \* main
    pc,             \* "starting" until the callback is set, then the turn's step, "done"
    state,          \* the lock machine's
    repeating, repeat_event, since_start, since_last,
    dpms_off, idle_time,
    \* client
    info,           \* repeat_rate_ and repeat_delay_
    xkb_keymap_, xkb_state_,
    references,     \* each keymap's reference count in libxkbcommon
    power_manager_, \* the compositor has one
    power,          \* each output: "absent", "bare" (no power object), "on", "off"
    \* history
    since_key,      \* time since a key was pressed that the client understood
    meant,          \* the lock state, had no key been repeated since the last Return
    left,           \* time since the key that is to repeat, None if there is none
    brisk           \* no such key was left alone for MinDelay since the last Return

repeatVars == <<repeating, repeat_event, since_start, since_last>>
powerVars  == <<power_manager_, power>>
xkbVars    == <<xkb_keymap_, xkb_state_, references>>
typedVars  == <<meant, left, brisk>>
timeVars   == <<dpms_off, idle_time, since_key>>
vars       == <<pc, state, repeatVars, timeVars, info, xkbVars, powerVars, typedVars>>

Delays   == {i.delay : i \in Infos}
MinDelay == CHOOSE d \in Delays : \A e \in Delays : d <= e
Ceiling  == CHOOSE c \in {DpmsTimeout, TicksPerSecond} \cup Delays :
              \A e \in {DpmsTimeout, TicksPerSecond} \cup Delays : e <= c

Watch     == 0..Ceiling
Count(t)  == IF t < Ceiling THEN t + 1 ELSE t

Repeatable == {Plain("Backspace")} \cup {KeyPress(c) : c \in Codepoints}
Places     == {"starting", "first", "drain", "repeat", "dpms", "events", "done"}

TypeOK ==
    /\ pc \in Places
    /\ state \in States /\ meant \in States
    /\ repeating \in BOOLEAN /\ dpms_off \in BOOLEAN /\ brisk \in BOOLEAN
    /\ repeat_event \in Repeatable \cup {None} /\ (repeating => repeat_event # None)
    /\ since_start \in Watch /\ since_last \in Watch
    /\ idle_time \in Watch /\ since_key \in Watch /\ left \in Watch \cup {None}
    /\ info \in Infos
    /\ xkb_keymap_ \in Keymaps \cup {None} /\ xkb_state_ \in Keymaps \cup {None}
    /\ references \in [Keymaps -> 0..2]
    /\ power_manager_ \in BOOLEAN
    /\ power \in [Outputs -> {"absent", "bare"} \cup IF power_manager_ THEN {"on", "off"} ELSE {}]

\* connect() made a power object for each output there was, if the compositor
\* has a power manager; main has set its clocks and not yet its callback.
Init ==
    /\ pc = "starting" /\ state = Idle
    /\ repeating = FALSE /\ repeat_event = None /\ since_start = 0 /\ since_last = 0
    /\ dpms_off = FALSE /\ idle_time = 0
    /\ info \in Infos
    /\ xkb_keymap_ = None /\ xkb_state_ = None
    /\ references = [m \in Keymaps |-> 0]
    /\ power_manager_ \in BOOLEAN
    /\ power \in [Outputs -> {"absent", IF power_manager_ THEN "on" ELSE "bare"}]
    /\ since_key = 0 /\ meant = Idle /\ left = None /\ brisk = TRUE

-----------------------------------------------------------------------------
(* handle_keyboard_key: what xkb says becomes one codepoint *)

\* byte & 0x3F
Low6(byte) == byte % 64

\* Slip: the second byte's bits are put in place of a third's.
Decode_WrongShift(u) ==
    LET first == u[1] IN
    CASE first < 128 -> first
      [] first >= 128 /\ first < 224 -> (first % 32) * 4096 + Low6(u[2])
      [] first >= 224 /\ first < 240 -> (first % 16) * 4096 + (Low6(u[2])) * 64 + Low6(u[3])
      [] OTHER -> (first % 8) * 262144 + (Low6(u[2])) * 4096 + (Low6(u[3])) * 64 + Low6(u[4])

\* The first character of the text
Decode(u) ==
    LET first == u[1] IN
    CASE first < 128 -> first
      [] first >= 128 /\ first < 224 -> (first % 32) * 64 + Low6(u[2])
      [] first >= 224 /\ first < 240 -> (first % 16) * 4096 + (Low6(u[2])) * 64 + Low6(u[3])
      [] OTHER -> (first % 8) * 262144 + (Low6(u[2])) * 4096 + (Low6(u[3])) * 64 + Low6(u[4])

\* 0 for a key without text, or with more of it than one character can have
Codepoint(text) == IF Len(text) \in 1..4 THEN Decode(text) ELSE 0

-----------------------------------------------------------------------------
(* The key callback *)

set_dpms(on) ==
    /\ power' = [o \in Outputs |-> IF power[o] \in {"on", "off"}
                                     THEN IF on THEN "on" ELSE "off"
                                     ELSE power[o]]
    /\ UNCHANGED power_manager_

\* Slip: only the flag is reset.
WakeDisplays_FlagOnly ==
    /\ UNCHANGED powerVars
    /\ dpms_off' = FALSE
    /\ idle_time' = 0 /\ since_key' = 0

\* First of all, for every key: the displays go on and the idle time starts anew.
WakeDisplays ==
    /\ IF dpms_off THEN set_dpms(TRUE) ELSE UNCHANGED powerVars
    /\ dpms_off' = FALSE
    /\ idle_time' = 0 /\ since_key' = 0

\* Bound: no more than MaxLen characters.
FitsIn(s, e) == (e.type = "KeyPress" /\ s.kind = "Typing") => Len(s.buffer) < MaxLen

\* A pressed key reaches the callback if a keymap has been understood.  The
\* release of a key returns at once and is no step.
Pressed == pc \in {"first", "events"} /\ xkb_state_ # None

Apply(e) == state' = Dispatch(state, e).state

\* Return, keypad Enter
PressReturn ==
    /\ Pressed
    /\ WakeDisplays
    /\ repeating' = FALSE
    /\ Apply(Plain("Submit"))
    /\ meant' = state' /\ left' = None /\ brisk' = TRUE
    /\ UNCHANGED <<pc, repeat_event, since_start, since_last, info, xkbVars>>

PressEscape ==
    /\ Pressed
    /\ WakeDisplays
    /\ repeating' = FALSE
    /\ Apply(Plain("Timeout"))
    /\ meant' = Dispatch(meant, Plain("Timeout")).state /\ left' = None
    /\ UNCHANGED <<pc, repeat_event, since_start, since_last, info, xkbVars, brisk>>

Arm(e) ==
    /\ repeating' = TRUE /\ repeat_event' = e
    /\ since_start' = 0 /\ since_last' = 0

\* BackSpace, and every key with a codepoint
PressRepeatable(e) ==
    /\ Pressed /\ FitsIn(state, e) /\ FitsIn(meant, e)
    /\ WakeDisplays
    /\ Arm(e)
    /\ Apply(e)
    /\ meant' = Dispatch(meant, e).state /\ left' = 0
    /\ UNCHANGED <<pc, info, xkbVars, brisk>>

\* Slip: keys without a codepoint return before anything else.
PressOther_TooEarly ==
    /\ Pressed
    /\ since_key' = 0
    /\ UNCHANGED <<pc, state, repeatVars, dpms_off, idle_time, info, xkbVars, powerVars, typedVars>>

\* A modifier, an arrow, a text too long: the callback returns after the wake-up.
\* A held key goes on being repeated.
PressOther ==
    /\ Pressed
    /\ WakeDisplays
    /\ UNCHANGED <<pc, state, repeatVars, info, xkbVars, typedVars>>

Printable(codepoint) == codepoint \in 1..1114111

Press ==
    \/ PressReturn \/ PressEscape
    \/ PressRepeatable(Plain("Backspace"))
    \/ \E text \in Texts :
         IF Printable(Codepoint(text))
           THEN PressRepeatable(KeyPress(Codepoint(text)))
           ELSE PressOther

-----------------------------------------------------------------------------
(* The other listeners, run by both dispatches and before the loop starts *)

Listening == pc \in {"starting", "first", "events"}

Held(m, map, xkb) == (IF map = m THEN 1 ELSE 0) + (IF xkb = m THEN 1 ELSE 0)

Referenced(change) == references' = [m \in Keymaps |-> references[m] + change[m]]

\* Slip: the state in use is not released when there is a new one.
handle_keyboard_keymap_KeepsState(new) ==
    /\ xkb_keymap_' = new
    /\ xkb_state_' = IF new = None THEN xkb_state_ ELSE new
    /\ Referenced([m \in Keymaps |->
           (IF m = xkb_keymap_ THEN -1 ELSE 0) + (IF m = new THEN 2 ELSE 0)])

\* The old map is released; if the new one compiles (new is not None), the old
\* state, which refers to the old map as well, is released for one of the new.
handle_keyboard_keymap(new) ==
    /\ xkb_keymap_' = new
    /\ xkb_state_' = IF new = None THEN xkb_state_ ELSE new
    /\ Referenced([m \in Keymaps |->
           (IF m = xkb_keymap_ THEN -1 ELSE 0) + (IF m = new THEN 1 ELSE 0)
             + (IF new # None /\ m = xkb_state_ THEN -1 ELSE 0) + (IF m = new THEN 1 ELSE 0)])

\* A map in a format that is not xkb's, or that cannot be read, changes nothing.
Keymap ==
    /\ Listening
    /\ \E new \in {m \in Keymaps : references[m] = 0} \cup {None} : handle_keyboard_keymap(new)
    /\ UNCHANGED <<pc, state, repeatVars, timeVars, info, powerVars, typedVars>>

handle_keyboard_repeat_info ==
    /\ Listening
    /\ info' \in Infos
    /\ UNCHANGED <<pc, state, repeatVars, timeVars, xkbVars, powerVars, typedVars>>

\* An output plugged in after connect() has no power object.
PlugIn(o) ==
    /\ Listening /\ power[o] = "absent"
    /\ power' = [power EXCEPT ![o] = "bare"]
    /\ UNCHANGED <<power_manager_, pc, state, repeatVars, timeVars, info, xkbVars, typedVars>>

-----------------------------------------------------------------------------
(* The loop *)

\* set_key_callback, and the first dispatch, which waits for an event, of any
\* kind, or for the loss of the connection, and has no time limit.
FirstEvent ==
    /\ pc = "starting"
    /\ pc' = "first"
    /\ UNCHANGED <<state, repeatVars, timeVars, info, xkbVars, powerVars, typedVars>>

\* Its events were dispatched; the result is not looked at.
EnterLoop ==
    /\ pc = "first"
    /\ pc' = "drain"
    /\ UNCHANGED <<state, repeatVars, timeVars, info, xkbVars, powerVars, typedVars>>

\* poll() is over: a timeout, or its events were dispatched.
PollReturns ==
    /\ pc = "events"
    /\ pc' = "drain"
    /\ UNCHANGED <<state, repeatVars, timeVars, info, xkbVars, powerVars, typedVars>>

\* client.dispatch() < 0
ConnectionLost ==
    /\ pc = "events"
    /\ pc' = "done"
    /\ UNCHANGED <<state, repeatVars, timeVars, info, xkbVars, powerVars, typedVars>>

\* A report of PAM or the reader is drained; Unlocked leaves the loop.
Report(type) ==
    /\ pc = "drain"
    /\ Apply(Plain(type))
    /\ meant' = Dispatch(meant, Plain(type)).state
    /\ pc' = IF state'.kind = "Unlocked" THEN "done" ELSE "drain"
    /\ UNCHANGED <<repeatVars, timeVars, info, xkbVars, powerVars, left, brisk>>

Drained ==
    /\ pc = "drain"
    /\ pc' = "repeat"
    /\ UNCHANGED <<state, repeatVars, timeVars, info, xkbVars, powerVars, typedVars>>

\* Integer division: no repeat at a rate above TicksPerSecond.
RateInterval == IF info.rate > 0 THEN TicksPerSecond \div info.rate ELSE 0

\* Slip: a key repeats at its rate from the start.
Due_NoDelay ==
    /\ repeating
    /\ RateInterval > 0 /\ since_last >= RateInterval

Due ==
    /\ repeating
    /\ since_start >= info.delay
    /\ RateInterval > 0 /\ since_last >= RateInterval

\* Slip: a repeated key keeps the displays on.
RepeatStep_CountsAsInput ==
    /\ pc = "repeat"
    /\ pc' = "dpms"
    /\ IF Due /\ FitsIn(state, repeat_event)
         THEN since_last' = 0 /\ Apply(repeat_event) /\ idle_time' = 0
         ELSE UNCHANGED <<since_last, state, idle_time>>
    /\ UNCHANGED <<repeating, repeat_event, since_start, dpms_off, since_key, info, xkbVars,
                   powerVars, typedVars>>

\* A repeat that is due is dispatched like the key itself.
RepeatStep ==
    /\ pc = "repeat"
    /\ pc' = "dpms"
    /\ IF Due /\ FitsIn(state, repeat_event)
         THEN since_last' = 0 /\ Apply(repeat_event)
         ELSE UNCHANGED <<since_last, state>>
    /\ UNCHANGED <<repeating, repeat_event, since_start, timeVars, info, xkbVars, powerVars, typedVars>>

has_dpms == power_manager_

\* The displays go off after DpmsTimeout without a key; drawing follows.
DpmsStep ==
    /\ pc = "dpms"
    /\ pc' = "events"
    /\ IF has_dpms /\ ~dpms_off /\ DpmsTimeout > 0 /\ idle_time >= DpmsTimeout
         THEN set_dpms(FALSE) /\ dpms_off' = TRUE
         ELSE UNCHANGED <<powerVars, dpms_off>>
    /\ UNCHANGED <<state, repeatVars, idle_time, since_key, info, xkbVars, typedVars>>

\* ~Client gives the state and the map back.
Terminate ==
    /\ pc = "done" /\ (xkb_state_ # None \/ xkb_keymap_ # None)
    /\ Referenced([m \in Keymaps |-> -Held(m, xkb_keymap_, xkb_state_)])
    /\ xkb_state_' = None /\ xkb_keymap_' = None
    /\ UNCHANGED <<pc, state, repeatVars, timeVars, info, powerVars, typedVars>>

Tick ==
    /\ pc # "done"
    /\ since_start' = Count(since_start) /\ since_last' = Count(since_last)
    /\ idle_time' = Count(idle_time) /\ since_key' = Count(since_key)
    /\ left' = IF left = None THEN None ELSE Count(left)
    /\ brisk' = (brisk /\ (left' = None \/ left' < MinDelay))
    /\ UNCHANGED <<pc, state, repeating, repeat_event, dpms_off, info, xkbVars, powerVars, meant>>

-----------------------------------------------------------------------------

LoopStep == EnterLoop \/ PollReturns \/ Drained \/ RepeatStep \/ DpmsStep

Terminated == pc = "done" /\ xkb_state_ = None /\ xkb_keymap_ = None /\ UNCHANGED vars

Next ==
    \/ Press \/ Keymap \/ handle_keyboard_repeat_info
    \/ \E o \in Outputs : PlugIn(o)
    \/ FirstEvent \/ LoopStep \/ ConnectionLost \/ Terminate
    \/ \E type \in {"AuthSuccess", "AuthFail", "FingerprintMatch", "FingerprintNoMatch"} :
         Report(type)
    \/ Tick
    \/ Terminated

\* The loop turns.  Nobody need press a key, nothing need fail, and the event
\* the first dispatch waits for need not come.
Spec == Init /\ [][Next]_vars /\ WF_vars(LoopStep)

-----------------------------------------------------------------------------
(* Properties *)

\* Releases are not looked at, and every key with a codepoint repeats until
\* Return, Escape or another key (client.cpp:562, main.cpp:277-286).  Still, who
\* follows each key within the shortest delay by the next one, with any number
\* of modifiers in between, has typed what was meant, whatever the rates the
\* compositor announces meanwhile.
BriskTypingIsExact == brisk => state = meant

\* The flag main keeps and what was last asked of the compositor agree on every
\* output that has a power object, and no other is touched (main.cpp:250-252, 367-373).
DisplaysFollowFlag ==
    \A o \in Outputs : power[o] \in {"on", "off"} => (power[o] = "off" <=> dpms_off)

\* The displays are off only if no key, modifiers and keys without a codepoint
\* included, was pressed for DpmsTimeout; in particular when main ends.
OffOnlyWhenIdle == dpms_off => DpmsTimeout > 0 /\ since_key >= DpmsTimeout

\* However maps that compile and maps that do not follow each other, libxkbcommon
\* counts the references the client has: none dangles and none leaks (client.cpp:551-558).
MapsAccounted ==
    \A m \in Keymaps : references[m] = Held(m, xkb_keymap_, xkb_state_)

\* Clocks are numbers; the two that a key sets to zero agree, and so do the one
\* of the repeat and the one of the key it repeats.
ClocksAgree ==
    /\ since_start \in Nat /\ since_last \in Nat /\ since_key \in Nat
    /\ idle_time = since_key
    /\ IF repeating THEN left = since_start ELSE left = None

\* While typing is brisk no repeat has come due, a delay of zero included: the
\* rate asks for at least one tick.
NothingDue == brisk => left = None \/ left < MinDelay \/ since_last = 0

\* The inductive invariant of the proofs.
IInv ==
    /\ info \in Infos /\ repeating \in BOOLEAN /\ dpms_off \in BOOLEAN /\ brisk \in BOOLEAN
    /\ power \in [Outputs -> {"absent", "bare", "on", "off"}]
    /\ xkb_keymap_ \in Keymaps \cup {None} /\ xkb_state_ \in Keymaps \cup {None}
    /\ references \in [Keymaps -> Int]
    /\ ClocksAgree /\ NothingDue
    /\ BriskTypingIsExact /\ DisplaysFollowFlag /\ OffOnlyWhenIdle /\ MapsAccounted

\* The bytes of RFC 3629 for a codepoint
Encode(c) ==
    CASE c < 128 -> <<c>>
      [] c >= 128   /\ c < 2048  -> <<192 + (c \div 64), 128 + (c % 64)>>
      [] c >= 2048  /\ c < 65536 -> <<224 + (c \div 4096), 128 + ((c \div 64) % 64), 128 + (c % 64)>>
      [] OTHER -> <<240 + (c \div 262144), 128 + ((c \div 4096) % 64), 128 + ((c \div 64) % 64),
                    128 + (c % 64)>>

\* The decoder of client.cpp:571-580 gives back every character that xkb, with a
\* map understood, writes for a key.
DecodeInvertsEncode ==
    xkb_state_ # None => \A c \in Samples : Codepoint(Encode(c)) = c

\* With no key pressed for DpmsTimeout the displays go off; a key that goes on
\* repeating, held or not, does not keep them on.  This holds from the event on
\* that lets main into its loop (main.cpp:304); before it they stay on.
IdleTurnsOff ==
    (pc # "starting" /\ has_dpms /\ DpmsTimeout > 0 /\ since_key >= DpmsTimeout)
        ~> (dpms_off \/ since_key < DpmsTimeout \/ pc = "done")
=============================================================================
