----------------------------- MODULE LockMachine -----------------------------
(***************************************************************************)
(* The pure core of typelock (src/core/machine.hpp): the states, events    *)
(* and effects as values, the transition table, and dispatch.  This module *)
(* declares no variable; the event loop applies Dispatch to its own state. *)
(*                                                                         *)
(* A character is only what dispatch tells apart: codepoints below 0x80    *)
(* (Ascii) are appended to the password, the others (Wide) are not.        *)
(***************************************************************************)
EXTENDS Naturals, Sequences

CONSTANTS
    Ascii,      \* codepoints below 0x80
    Wide        \* the other codepoints up to 0x10FFFF

ASSUME CharsAssumption == Ascii \cap Wide = {}

Codepoints == Ascii \cup Wide
Passwords  == Seq(Ascii)

-----------------------------------------------------------------------------
(* States, events and effects *)

Idle              == [kind |-> "Idle"]
Typing(buffer)    == [kind |-> "Typing", buffer |-> buffer]
Authenticating(p) == [kind |-> "Authenticating", password |-> p]
Unlocked          == [kind |-> "Unlocked"]
AuthError(m)      == [kind |-> "AuthError", message |-> m]

\* What an error tells the user: PAM's reason, or the fingerprint message.
Messages == {"pam", "fingerprint"}

States == {Idle, Unlocked}
            \cup [kind : {"Typing"}, buffer : Passwords]
            \cup [kind : {"Authenticating"}, password : Passwords]
            \cup [kind : {"AuthError"}, message : Messages]

KeyPress(c) == [type |-> "KeyPress", codepoint |-> c]
Plain(t)    == [type |-> t]

PlainEvents == {"Backspace", "Submit", "AuthSuccess", "AuthFail", "Timeout",
                "FingerprintMatch", "FingerprintNoMatch"}
Events == [type : {"KeyPress"}, codepoint : Codepoints] \cup [type : PlainEvents]

NoEffect     == [type |-> "NoEffect"]
StartAuth(p) == [type |-> "StartAuth", password |-> p]
ExitProgram  == [type |-> "ExitProgram"]

Effects == {NoEffect, ExitProgram} \cup [type : {"StartAuth"}, password : Passwords]

Result(s, e) == [state |-> s, effect |-> e]

-----------------------------------------------------------------------------
(* The Transition<State, Event>::apply specializations *)

\* buf += codepoint, for codepoints below 0x80 only
Appended(buffer, c) == IF c \in Ascii THEN Append(buffer, c) ELSE buffer

\* KeyPress starts a password in Idle and AuthError, extends it in Typing
TypeKey(s, c) ==
    Result(Typing(Appended(IF s.kind = "Typing" THEN s.buffer ELSE <<>>, c)),
           NoEffect)

\* Backspace in Typing: pop_back, and back to Idle when nothing would be left
Erase(s) ==
    Result(IF Len(s.buffer) <= 1
             THEN Idle
             ELSE Typing(SubSeq(s.buffer, 1, Len(s.buffer) - 1)),
           NoEffect)

\* Submit in Typing hands the buffer to PAM
SubmitBuffer(s) == Result(Authenticating(s.buffer), StartAuth(s.buffer))

\* AuthSuccess in Authenticating; FingerprintMatch in Idle, Typing, AuthError
Unlock == Result(Unlocked, ExitProgram)

\* AuthFail in Authenticating; FingerprintNoMatch in Idle, AuthError
ShowError(m) == Result(AuthError(m), NoEffect)

\* AuthError + Timeout
ClearError == Result(Idle, NoEffect)

\* The (State, Event) pairs that have a Transition<> specialization
Specializations ==
    ({"Idle", "Typing", "AuthError"} \X {"KeyPress", "FingerprintMatch"})
      \cup ({"Idle", "AuthError"} \X {"FingerprintNoMatch"})
      \cup ({"Typing"} \X {"Backspace", "Submit"})
      \cup ({"Authenticating"} \X {"AuthSuccess", "AuthFail"})
      \cup {<<"AuthError", "Timeout">>}

\* Slips a Transition<> could have, that the properties must notice:
\* Escape abandons the attempt under check; a failed scan while the user is
\* typing does what it does elsewhere.
ValidTransition_EscapeCancels(s, e) ==
    \/ <<s.kind, e.type>> \in Specializations
    \/ s.kind = "Authenticating" /\ e.type = "Timeout"

ValidTransition_ScanInterrupts(s, e) ==
    \/ <<s.kind, e.type>> \in Specializations
    \/ s.kind = "Typing" /\ e.type = "FingerprintNoMatch"

ValidTransition(s, e) == <<s.kind, e.type>> \in Specializations

Transition(s, e) ==
    CASE e.type = "KeyPress"           -> TypeKey(s, e.codepoint)
      [] e.type = "Backspace"          -> Erase(s)
      [] e.type = "Submit"             -> SubmitBuffer(s)
      [] e.type = "AuthSuccess"        -> Unlock
      [] e.type = "AuthFail"           -> ShowError("pam")
      [] e.type = "Timeout"            -> ClearError
      [] e.type = "FingerprintMatch"   -> Unlock
      [] e.type = "FingerprintNoMatch" -> ShowError("fingerprint")

\* A pair with no specialization is ignored: dispatch returns the state as is
Dispatch(s, e) ==
    IF ValidTransition(s, e) THEN Transition(s, e) ELSE Result(s, NoEffect)

-----------------------------------------------------------------------------
(* The declared graph: rule<From, Event, To> *)

TransitionTable == {
    <<"Idle",           "KeyPress",           "Typing">>,
    <<"Idle",           "FingerprintMatch",   "Unlocked">>,
    <<"Idle",           "FingerprintNoMatch", "AuthError">>,
    <<"Typing",         "KeyPress",           "Typing">>,
    <<"Typing",         "Backspace",          "Typing">>,
    <<"Typing",         "Submit",             "Authenticating">>,
    <<"Typing",         "FingerprintMatch",   "Unlocked">>,
    <<"Authenticating", "AuthSuccess",        "Unlocked">>,
    <<"Authenticating", "AuthFail",           "AuthError">>,
    <<"AuthError",      "KeyPress",           "Typing">>,
    <<"AuthError",      "Timeout",            "Idle">>,
    <<"AuthError",      "FingerprintMatch",   "Unlocked">>,
    <<"AuthError",      "FingerprintNoMatch", "AuthError">> }
=============================================================================
