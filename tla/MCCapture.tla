------------------------------ MODULE MCCapture ------------------------------
(* A small instance of Capture. *)
EXTENDS Capture

CONSTANTS o1, o2, o3, o4

\* What connect() may have found, in the registry's order
OneToThree == {<<o1>>, <<o1, o2>>, <<o1, o2, o3>>}
=============================================================================
