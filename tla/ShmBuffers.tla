------------------------------ MODULE ShmBuffers ------------------------------
(***************************************************************************)
(* wl::ShmBuffer (src/wayland/client.hpp) and create_shm_buffer (client    *)
(* .cpp), which screen capture and rendering share, on the process's table *)
(* of file descriptors, which every thread of it shares.                   *)
(*                                                                         *)
(* data and buffer of an ShmBuffer are set and cleared together: data      *)
(* stands for both.                                                        *)
(***************************************************************************)
EXTENDS Integers, FiniteSets

CONSTANTS
    None,
    Fds         \* descriptor numbers the process may have

ASSUME FdsAssumption == Fds \subseteq Nat /\ IsFiniteSet(Fds)

VARIABLES
    owner,      \* each number: "free", "client" or "other", for the rest of the process
    unmapped,   \* history: an mmap has failed
    harmed      \* history: the client closed a descriptor of another part

fdVars == <<owner, unmapped, harmed>>

Buffers(S) == [size : S \cup {None}, fd : Fds \cup {-1}, data : BOOLEAN]
NoBuffer   == [size |-> None, fd |-> -1, data |-> FALSE]

FdsTypeOK == owner \in [Fds -> {"free", "client", "other"}] /\ unmapped \in BOOLEAN /\ harmed \in BOOLEAN

FdsInit == owner = [f \in Fds |-> "free"] /\ unmapped = FALSE /\ harmed = FALSE

\* The kernel hands out the lowest number that is free.
Free(own)   == {f \in Fds : own[f] = "free"}
Lowest(own) == CHOOSE f \in Free(own) : \A g \in Free(own) : f <= g

\* Slip: the failed mapping leaves the descriptor open and forgotten.
create_shm_buffer_Leaks(size, own) ==
    {[buf |-> [NoBuffer EXCEPT !.size = size], own |-> own, unmapped |-> FALSE]}
      \cup IF Free(own) = {} THEN {} ELSE
        {[buf |-> [size |-> size, fd |-> -1, data |-> FALSE],
          own |-> [own EXCEPT ![Lowest(own)] = "client"], unmapped |-> TRUE],
         [buf |-> [size |-> size, fd |-> Lowest(own), data |-> TRUE],
          own |-> [own EXCEPT ![Lowest(own)] = "client"], unmapped |-> FALSE]}

\* What may become of it: no descriptor (or one that cannot be enlarged, and is
\* closed); one that cannot be mapped, closed and remembered; a buffer.
create_shm_buffer(size, own) ==
    {[buf |-> [NoBuffer EXCEPT !.size = size], own |-> own, unmapped |-> FALSE]}
      \cup IF Free(own) = {} THEN {} ELSE
        {[buf |-> [size |-> size, fd |-> Lowest(own), data |-> FALSE],
          own |-> own, unmapped |-> TRUE],
         [buf |-> [size |-> size, fd |-> Lowest(own), data |-> TRUE],
          own |-> [own EXCEPT ![Lowest(own)] = "client"], unmapped |-> FALSE]}

\* close() of a number, whoever has it by now
Closed(own, fd) == IF fd = -1 THEN own ELSE [own EXCEPT ![fd] = "free"]

Harms(own, fd) == fd # -1 /\ own[fd] = "other"

\* The rest of the process: D-Bus, PAM, keymaps, configuration.
OtherOpens ==
    /\ Free(owner) # {}
    /\ owner' = [owner EXCEPT ![Lowest(owner)] = "other"]
    /\ UNCHANGED <<unmapped, harmed>>

OtherCloses ==
    /\ \E f \in Fds : owner[f] = "other" /\ owner' = [owner EXCEPT ![f] = "free"]
    /\ UNCHANGED <<unmapped, harmed>>
=============================================================================
