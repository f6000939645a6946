----------------------------- MODULE MCEventLoop -----------------------------
(* Small instances of EventLoop. *)
EXTENDS EventLoop

CONSTANTS a, w

\* The user's password is the single character "a"; "aa" is a wrong one.
SecretA == <<a>>
=============================================================================
