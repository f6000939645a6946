----------------------------- MODULE ScreenLock ------------------------------
(***************************************************************************)
(* What typelock promises, with no thread, queue or key in it: the screen  *)
(* is released only by the password under check being the user's, or by a  *)
(* matching finger while no password is under check; and every password    *)
(* handed in is answered while the locker is up.                           *)
(***************************************************************************)
CONSTANTS
    Passwords,      \* what can be handed in
    Secret,         \* the user's password
    None            \* no password is under check

VARIABLES
    screen,     \* "locked"; "released"; "abandoned": the locker left it locked
    attempt,    \* the password under check, or None
    touched     \* a matching finger was reported and not yet consumed

vars == <<screen, attempt, touched>>

TypeOK ==
    /\ screen \in {"locked", "released", "abandoned"}
    /\ attempt \in Passwords \cup {None}
    /\ touched \in BOOLEAN

Init ==
    /\ screen = "locked"
    /\ attempt = None
    /\ touched = FALSE

Submit ==
    /\ screen = "locked" /\ attempt = None
    /\ attempt' \in Passwords
    /\ UNCHANGED <<screen, touched>>

\* PAM says no; it may also say no to the right password.
Reject ==
    /\ screen = "locked" /\ attempt # None
    /\ attempt' = None
    /\ UNCHANGED <<screen, touched>>

Accept ==
    /\ screen = "locked" /\ attempt = Secret
    /\ screen' = "released" /\ attempt' = None
    /\ touched' \in BOOLEAN

AcceptFinger ==
    /\ screen = "locked" /\ attempt = None /\ touched
    /\ screen' = "released"
    /\ touched' \in BOOLEAN
    /\ UNCHANGED attempt

\* A finger is reported, or a report comes to nothing.
Touch ==
    /\ touched' = ~touched
    /\ UNCHANGED <<screen, attempt>>

\* The compositor's connection is lost: the session stays as it is, locked.
Abandon ==
    /\ screen = "locked"
    /\ screen' = "abandoned"
    /\ UNCHANGED <<attempt, touched>>

Next == Submit \/ Reject \/ Accept \/ AcceptFinger \/ Touch \/ Abandon

\* Every attempt is answered, unless the locker goes away first.
Fairness == WF_vars(Reject \/ Accept)

Safety == Init /\ [][Next]_vars
Spec   == Safety /\ Fairness
=============================================================================
