----------------------------- MODULE RenderProofs -----------------------------
(***************************************************************************)
(* The safety properties of Render, for any number of surfaces, sizes,     *)
(* characters and descriptors.                                             *)
(***************************************************************************)
EXTENDS Render, TLAPS, SequenceTheorems, WellFoundedInduction

\* What a key leaves in the buffer is a password (machine.hpp:180-182, 203-214).
LEMMA EditedIsPassword ==
    ASSUME NEW p \in Passwords
    PROVE  /\ \A c \in Codepoints : Appended(p, c) \in Passwords
           /\ Len(p) > 1 => SubSeq(p, 1, Len(p) - 1) \in Passwords
BY DEF Passwords, Appended, Codepoints

\* dispatch leaves a state of the machine (machine.hpp:473-485).
LEMMA DispatchKeepsStates ==
    ASSUME NEW s \in States, NEW e \in Events
    PROVE  Dispatch(s, e).state \in States
<1>1. CASE ~ValidTransition(s, e)
  BY <1>1 DEF Dispatch, Result
<1>2. CASE ValidTransition(s, e)
  <2> DEFINE t == Transition(s, e).state
  <2>0. Dispatch(s, e).state = t
    BY <1>2 DEF Dispatch
  <2>1. s.kind = "Typing" => s.buffer \in Passwords
    BY DEF States, Idle, Unlocked
  <2>2. \A p \in Passwords : Typing(p) \in States /\ Authenticating(p) \in States
    BY DEF States, Typing, Authenticating
  <2>3. Idle \in States /\ Unlocked \in States /\ \A m \in Messages : AuthError(m) \in States
    BY DEF States, AuthError
  <2>4. CASE e.type = "KeyPress"
    <3> DEFINE p == IF s.kind = "Typing" THEN s.buffer ELSE <<>>
    <3>1. p \in Passwords /\ e.codepoint \in Codepoints
      BY <2>1, <2>4 DEF Passwords, Events, PlainEvents
    <3>2. t = Typing(Appended(p, e.codepoint))
      BY <2>4 DEF Transition, TypeKey, Result
    <3> HIDE DEF p
    <3> QED
      BY <2>0, <2>2, <3>1, <3>2, EditedIsPassword
  <2>5. CASE e.type \in {"Backspace", "Submit"}
    <3>1. s.kind = "Typing" /\ s.buffer \in Passwords /\ Len(s.buffer) \in Nat
      BY <1>2, <2>1, <2>5 DEF ValidTransition, Specializations, Passwords
    <3>2. e.type = "Backspace" => t = Erase(s).state
      BY DEF Transition
    <3>3. e.type = "Submit" => t = Authenticating(s.buffer)
      BY DEF Transition, SubmitBuffer, Result
    <3>4. Erase(s).state \in States
      BY <2>2, <2>3, <3>1, EditedIsPassword DEF Erase, Result
    <3> QED
      BY <2>0, <2>2, <2>5, <3>1, <3>2, <3>3, <3>4
  <2>6. CASE e.type \in {"AuthSuccess", "AuthFail", "Timeout", "FingerprintMatch", "FingerprintNoMatch"}
    <3>1. t \in {Idle, Unlocked, AuthError("pam"), AuthError("fingerprint")}
      BY <2>6 DEF Transition, Unlock, ShowError, ClearError, Result
    <3> QED
      BY <2>0, <2>3, <3>1 DEF Messages
  <2> QED
    BY <2>4, <2>5, <2>6 DEF Events, PlainEvents
<1> QED
  BY <1>1, <1>2

\* The kernel's lowest free number is one that is free.
LEMMA LowestIsFree ==
    ASSUME NEW own, Free(own) # {}
    PROVE  Lowest(own) \in Fds /\ own[Lowest(own)] = "free"
<1>1. Free(own) \subseteq Nat
  BY FdsAssumption DEF Free
<1>2. PICK f \in Free(own) : \A g \in Free(own) : ~(<<g, f>> \in OpToRel(<, Nat))
  BY <1>1, WFMin, NatLessThanWellFounded, Zenon
<1>3. \A g \in Free(own) : f <= g
  <2> SUFFICES ASSUME NEW g \in Free(own) PROVE f <= g
    OBVIOUS
  <2>1. ~(g < f)
    BY <1>1, <1>2 DEF OpToRel
  <2> QED
    BY <1>1, <2>1
<1>4. Lowest(own) \in Free(own)
  BY <1>3 DEF Lowest
<1> QED
  BY <1>4 DEF Free

Tables == [Fds -> {"free", "client", "other"}]

\* What create_shm_buffer makes: a buffer on a number that was free, or none; and
\* the number of none is remembered only where an mmap failed (client.cpp:319-352).
LEMMA WhatIsMade ==
    ASSUME NEW own \in Tables, NEW size \in Sizes, NEW made \in create_shm_buffer(size, own)
    PROVE  /\ made.buf \in Buffers(Sizes) /\ made.own \in Tables /\ made.unmapped \in BOOLEAN
           /\ \/ /\ made.buf.data /\ made.buf.fd \in Fds /\ own[made.buf.fd] = "free"
                 /\ made.own = [own EXCEPT ![made.buf.fd] = "client"]
              \/ /\ ~made.buf.data /\ made.own = own
                 /\ made.buf.fd = -1 \/ made.unmapped
<1>1. CASE made = [buf |-> [NoBuffer EXCEPT !.size = size], own |-> own, unmapped |-> FALSE]
  BY <1>1 DEF NoBuffer, Buffers
<1>2. CASE Free(own) # {} /\ made = [buf |-> [size |-> size, fd |-> Lowest(own), data |-> FALSE],
                                     own |-> own, unmapped |-> TRUE]
  BY <1>2, LowestIsFree DEF Buffers
<1>3. CASE Free(own) # {} /\ made = [buf |-> [size |-> size, fd |-> Lowest(own), data |-> TRUE],
                                     own |-> [own EXCEPT ![Lowest(own)] = "client"], unmapped |-> FALSE]
  <2>1. Lowest(own) \in Fds /\ own[Lowest(own)] = "free"
    BY <1>3, LowestIsFree
  <2> QED
    BY <1>3, <2>1 DEF Buffers, Tables
<1> QED
  BY <1>1, <1>2, <1>3 DEF create_shm_buffer

\* A number that is closed is free, and no other changes hands.
LEMMA ClosedIsFree ==
    ASSUME NEW own \in Tables, NEW fd \in Fds \cup {-1}
    PROVE  /\ Closed(own, fd) \in Tables
           /\ \A f \in Fds : Closed(own, fd)[f] = IF f = fd THEN "free" ELSE own[f]
BY FdsAssumption DEF Closed, Tables

-----------------------------------------------------------------------------
(* The two halves of the invariant: what is shown, and whose descriptors *)

ViewPart ==
    /\ pc \in Places /\ state \in States /\ animating \in BOOLEAN
    /\ Shaped /\ FreshUnlessAsked

FdPart == FdsTypeOK /\ NoneLeaks /\ ClosesItsOwn /\ RemembersItsOwn

LEMMA Parts == IInv <=> ViewPart /\ FdPart
BY DEF IInv, ViewPart, FdPart

LEMMA PartsAfter == ViewPart' /\ FdPart' => IInv'
BY DEF IInv, ViewPart, FdPart

LEMMA LenOfArray ==
    ASSUME NEW S, NEW n \in Nat, NEW a \in [1..n -> S]
    PROVE  Len(a) = n
<1>1. a \in Seq(S)
  BY SeqDef
<1>2. Len(a) \in Nat /\ DOMAIN a = 1..Len(a) /\ DOMAIN a = 1..n
  BY <1>1, LenProperties
<1> QED
  BY <1>2

\* The buffers, as many as there are surfaces or none yet
LEMMA BuffersTyped ==
    ASSUME Shaped
    PROVE  /\ Len(buffers) \in Nat /\ DOMAIN buffers = 1..Len(buffers) /\ DOMAIN buffers \subseteq 1..Surfaces
           /\ \A i \in DOMAIN buffers : /\ buffers[i] \in Buffers(Sizes)
                                        /\ buffers[i].fd \in Fds \cup {-1} /\ buffers[i].data \in BOOLEAN
           /\ DOMAIN surfaces = 1..Surfaces /\ Len(surfaces) = Surfaces
           /\ DOMAIN shown = 1..Surfaces /\ Len(shown) = Surfaces
<1>1. buffers \in Seq(Buffers(Sizes)) /\ Len(buffers) \in {0, Surfaces} /\ Surfaces \in Nat
  BY RenderAssumption DEF Shaped
<1>2. Len(buffers) \in Nat /\ DOMAIN buffers = 1..Len(buffers)
  BY <1>1, LenProperties
<1>3. \A i \in DOMAIN buffers : buffers[i] \in Buffers(Sizes)
  <2> DEFINE S == Buffers(Sizes)
  <2> HIDE DEF S
  <2>1. buffers \in Seq(S)
    BY <1>1 DEF S
  <2>2. \A i \in 1..Len(buffers) : buffers[i] \in S
    BY <2>1, ElementOfSeq
  <2> QED
    BY <1>2, <2>2 DEF S
<1>4. \A b \in Buffers(Sizes) : b.fd \in Fds \cup {-1} /\ b.data \in BOOLEAN
  BY DEF Buffers
<1>5. DOMAIN surfaces = 1..Surfaces /\ DOMAIN shown = 1..Surfaces
  BY DEF Shaped
<1>6. Len(surfaces) = Surfaces /\ Len(shown) = Surfaces
  <2> DEFINE S == [size : Sizes \cup {None}, needs_redraw : BOOLEAN]
             T == {"nothing", "view", "old"}
  <2>1. surfaces \in [1..Surfaces -> S] /\ shown \in [1..Surfaces -> T]
    BY DEF Shaped
  <2> HIDE DEF S, T
  <2> QED
    BY <1>1, <2>1, LenOfArray, Zenon
<1>7. DOMAIN buffers \subseteq 1..Surfaces
  <2>1. \A n \in {0, Surfaces} : 1..n \subseteq 1..Surfaces
    BY <1>1
  <2> QED
    BY <1>1, <1>2, <2>1, Zenon
<1>8. \A i \in DOMAIN buffers : /\ buffers[i] \in Buffers(Sizes)
                                /\ buffers[i].fd \in Fds \cup {-1} /\ buffers[i].data \in BOOLEAN
  BY <1>3, <1>4, Zenon
<1> QED
  BY <1>2, <1>5, <1>6, <1>7, <1>8, Zenon

\* Descriptors and buffers stand where no buffer is made or closed; leaving the
\* loop, all buffers are still to be closed.
LEMMA FdsStand ==
    ASSUME IInv, UNCHANGED <<fdVars, buffers>>, ~Ended, Ended' => next' = 1
    PROVE  FdPart'
<1>1. \A i \in DOMAIN buffers : i >= 1
  BY BuffersTyped DEF IInv
<1>2. FdsTypeOK' /\ ClosesItsOwn'
  BY DEF IInv, FdsTypeOK, ClosesItsOwn, fdVars
<1>3. Unclosed' = Unclosed
  BY <1>1 DEF Unclosed, Ended
<1>4. NoneLeaks'
  BY <1>3 DEF IInv, NoneLeaks, fdVars
<1>5. \A i : Unreleased(i)' <=> Unreleased(i)
  BY <1>1 DEF Unreleased, Ended
<1>6. RemembersItsOwn'
  BY <1>5 DEF IInv, RemembersItsOwn, fdVars
<1> QED
  BY <1>2, <1>4, <1>6 DEF FdPart

LEMMA InitEstablishes == Init => IInv
<1> SUFFICES ASSUME Init PROVE IInv
  OBVIOUS
<1>1. buffers = <<>> /\ <<>> \in Seq(Buffers(Sizes)) /\ Len(<<>>) = 0 /\ DOMAIN <<>> = {}
  BY DEF Init
<1>2. ViewPart
  BY <1>1, RenderAssumption DEF Init, ViewPart, Places, States, Shaped, FreshUnlessAsked
<1>3. FdPart
  BY <1>1 DEF Init, FdsInit, FdPart, FdsTypeOK, NoneLeaks, ClosesItsOwn, RemembersItsOwn
<1> QED
  BY <1>2, <1>3, Parts

-----------------------------------------------------------------------------
(* Steps that change what is to be shown *)

LEMMA ViewAfterApply ==
    ASSUME IInv, NEW e \in Events, Apply(e)
    PROVE  /\ state' \in States
           /\ shown' \in [1..Surfaces -> {"nothing", "view", "old"}]
<1>1. state' \in States
  BY DispatchKeepsStates DEF IInv, Apply
<1>2. shown \in [1..Surfaces -> {"nothing", "view", "old"}]
  BY DEF IInv, Shaped
<1>3. shown' = [i \in DOMAIN shown |-> IF View(state') = View(state) THEN shown[i] ELSE Age(i)]
  BY DEF Apply
<1> QED
  BY <1>1, <1>2, <1>3 DEF Age

LEMMA AllToRedraw ==
    ASSUME IInv, RedrawAll
    PROVE  /\ surfaces' \in [1..Surfaces -> [size : Sizes \cup {None}, needs_redraw : BOOLEAN]]
           /\ \A i \in 1..Surfaces : surfaces'[i].needs_redraw
<1>1. surfaces \in [1..Surfaces -> [size : Sizes \cup {None}, needs_redraw : BOOLEAN]]
  BY DEF IInv, Shaped
<1> QED
  BY <1>1 DEF RedrawAll

LEMMA KeyEventsAreEvents == KeyEvents \subseteq Events
BY DEF KeyEvents, Events, Plain, PlainEvents, KeyPress

\* A state change in the loop: the view may age, and every surface is asked for.
LEMMA AppliedAndAsked ==
    ASSUME IInv, NEW e \in Events, Apply(e), RedrawAll, animating' \in BOOLEAN,
           pc \in {"start", "first", "drain", "events"},
           pc' \in {"start", "first", "drain", "animate", "events"},
           UNCHANGED <<buffers, next, fdVars>>
    PROVE  IInv'
<1>1. ~Ended /\ ~Ended' /\ next = 1
  BY DEF Ended, IInv, Shaped
<1>2. Shaped'
  BY <1>1, ViewAfterApply, AllToRedraw DEF IInv, Shaped
<1>3. FreshUnlessAsked'
  BY AllToRedraw DEF FreshUnlessAsked
<1>4. ViewPart'
  BY <1>2, <1>3, ViewAfterApply DEF ViewPart, Places
<1> QED
  BY <1>1, <1>4, FdsStand, PartsAfter

LEMMA KeyPreserves == ASSUME IInv, NEW e \in KeyEvents, Key(e) PROVE IInv'
<1>1. e \in Events
  BY KeyEventsAreEvents
<1>2. animating' \in BOOLEAN
  BY DEF Key, BeginOnError, IInv
<1> QED
  BY <1>1, <1>2, AppliedAndAsked DEF Key

LEMMA ConfigurePreserves ==
    ASSUME IInv, NEW i \in 1..Surfaces, NEW size \in Sizes, Configure(i, size)
    PROVE  IInv'
<1>0. /\ surfaces \in [1..Surfaces -> [size : Sizes \cup {None}, needs_redraw : BOOLEAN]]
      /\ shown \in [1..Surfaces -> {"nothing", "view", "old"}]
      /\ ~Ended /\ pc' = pc
  BY DEF IInv, Shaped, Configure, Ended
<1>1. /\ surfaces' = [surfaces EXCEPT ![i].size = size, ![i].needs_redraw = TRUE]
      /\ shown' = [shown EXCEPT ![i] = Age(i)]
      /\ UNCHANGED <<pc, state, buffers, next, animating, fdVars>>
  BY DEF Configure
<1>2. /\ surfaces' \in [1..Surfaces -> [size : Sizes \cup {None}, needs_redraw : BOOLEAN]]
      /\ surfaces'[i].needs_redraw
      /\ \A j \in 1..Surfaces : j # i => surfaces'[j] = surfaces[j]
  BY <1>0, <1>1
<1>3. /\ shown' \in [1..Surfaces -> {"nothing", "view", "old"}]
      /\ \A j \in 1..Surfaces : j # i => shown'[j] = shown[j]
  BY <1>0, <1>1 DEF Age
<1>4. Shaped'
  BY <1>1, <1>2, <1>3 DEF IInv, Shaped
<1>5. FreshUnlessAsked'
  BY <1>0, <1>1, <1>2, <1>3 DEF IInv, FreshUnlessAsked, Ended
<1>6. ViewPart'
  BY <1>1, <1>4, <1>5 DEF IInv, ViewPart
<1>7. ~Ended'
  BY <1>0 DEF Ended
<1> QED
  BY <1>0, <1>1, <1>6, <1>7, FdsStand, PartsAfter

LEMMA ReportPreserves ==
    ASSUME IInv, NEW type \in {"AuthSuccess", "AuthFail", "FingerprintMatch", "FingerprintNoMatch"},
           Report(type)
    PROVE  IInv'
<1>1. Plain(type) \in Events
  BY DEF Events, Plain, PlainEvents
<1>2. /\ pc = "drain" /\ Apply(Plain(type)) /\ animating' \in BOOLEAN
      /\ UNCHANGED <<buffers, fdVars>>
  BY DEF Report, BeginOnError, IInv
<1>3. CASE state'.kind = "Unlocked"
  <2>1. pc' = "cleanup" /\ next' = 1 /\ UNCHANGED surfaces
    BY <1>3 DEF Report
  <2>2. ~Ended /\ Ended'
    BY <1>2, <2>1 DEF Ended
  <2>3. Surfaces \in Nat
    BY RenderAssumption
  <2>4. Shaped'
    BY <1>1, <1>2, <2>1, <2>3, ViewAfterApply DEF IInv, Shaped
  <2>5. ViewPart'
    BY <1>1, <1>2, <2>1, <2>2, <2>4, ViewAfterApply DEF ViewPart, Places, FreshUnlessAsked
  <2> QED
    BY <1>2, <2>1, <2>2, <2>5, FdsStand, PartsAfter
<1>4. CASE state'.kind # "Unlocked"
  BY <1>1, <1>2, <1>4, AppliedAndAsked DEF Report
<1> QED
  BY <1>3, <1>4

\* Steps of the loop that change no surface, no buffer and no view
LEMMA TurnGoesOn ==
    ASSUME IInv, ~Ended, pc' \in Places \ {"gone"}, animating' \in BOOLEAN,
           next' \in 1..(Surfaces + 1),
           pc' \in {"start", "first", "drain", "animate", "events", "cleanup"} => next' = 1,
           pc' = "render" => Len(buffers) = Surfaces,
           UNCHANGED <<state, surfaces, buffers, shown, fdVars>>
    PROVE  IInv'
<1>1. Shaped'
  BY DEF IInv, Shaped
<1>2. FreshUnlessAsked'
  BY DEF IInv, FreshUnlessAsked
<1>3. ViewPart'
  BY <1>1, <1>2 DEF IInv, ViewPart
<1>4. Ended' => next' = 1
  BY DEF Ended
<1> QED
  BY <1>3, <1>4, FdsStand, PartsAfter

LEMMA RepeatPreserves == ASSUME IInv, Repeat PROVE IInv'
<1>1. /\ pc = "drain" /\ pc' = "animate" /\ next = 1
      /\ UNCHANGED <<buffers, next, animating, fdVars>> /\ animating \in BOOLEAN
  BY DEF Repeat, IInv, Shaped
<1>2. CASE UNCHANGED <<state, surfaces, shown>>
  <2>1. 1 \in 1..(Surfaces + 1)
    BY RenderAssumption
  <2> QED
    BY <1>1, <1>2, <2>1, TurnGoesOn DEF Ended, Places
<1>3. ASSUME NEW e \in KeyEvents, Apply(e), RedrawAll
      PROVE  IInv'
  BY <1>1, <1>3, KeyEventsAreEvents, AppliedAndAsked
<1> QED
  BY <1>2, <1>3 DEF Repeat

-----------------------------------------------------------------------------
(* Steps that make or close buffers *)

\* A list filled up to n elements
LEMMA Padded ==
    ASSUME NEW S, NEW e \in S, NEW n \in Nat, NEW b \in Seq(S), NEW m \in Nat, n = Len(b) + m,
           NEW r \in [1..m -> S], \A i \in 1..m : r[i] = e
    PROVE  /\ b \o r \in Seq(S) /\ Len(b \o r) = n /\ DOMAIN (b \o r) = 1..n
           /\ \A i \in 1..n : \/ i \in DOMAIN b /\ (b \o r)[i] = b[i]
                              \/ i \notin DOMAIN b /\ (b \o r)[i] = e
<1> DEFINE p == b \o r
<1>1. Len(b) \in Nat /\ DOMAIN b = 1..Len(b)
  BY LenProperties
<1>4. r \in Seq(S) /\ Len(r) = m
  BY SeqDef, LenOfArray
<1>5. /\ p \in Seq(S) /\ Len(p) = Len(b) + Len(r)
      /\ \A i \in 1 .. Len(b) + Len(r) : p[i] = IF i <= Len(b) THEN b[i] ELSE r[i - Len(b)]
  BY <1>4, ConcatProperties, Zenon
<1> HIDE DEF p
<1>6. DOMAIN p = 1..n /\ Len(p) = n
  BY <1>1, <1>4, <1>5, LenProperties
<1>7. ASSUME NEW i \in 1..n
      PROVE  \/ i \in DOMAIN b /\ p[i] = b[i]
             \/ i \notin DOMAIN b /\ p[i] = e
  <2>1. CASE i <= Len(b)
    BY <1>1, <1>4, <1>5, <2>1
  <2>2. CASE ~(i <= Len(b))
    <3>1. i - Len(b) \in 1..m
      BY <1>1, <2>2
    <3> QED
      BY <1>1, <1>4, <1>5, <2>2, <3>1
  <2> QED
    BY <2>1, <2>2
<1> QED
  BY <1>5, <1>6, <1>7 DEF p

\* Every surface that has no buffer gets one that holds nothing.
LEMMA AnimatePreserves == ASSUME IInv, Animate PROVE IInv'
<1>0. Surfaces \in Nat
  BY RenderAssumption
<1>1. /\ Len(buffers) \in {0, Surfaces} /\ buffers \in Seq(Buffers(Sizes))
      /\ Len(surfaces) = Surfaces /\ DOMAIN buffers = 1..Len(buffers)
  <2>1. Shaped
    BY DEF IInv
  <2>2. Len(buffers) \in {0, Surfaces} /\ buffers \in Seq(Buffers(Sizes))
    BY <2>1 DEF Shaped
  <2> QED
    BY <2>1, <2>2, BuffersTyped, Zenon
<1>2. NoBuffer \in Buffers(Sizes)
  BY DEF NoBuffer, Buffers
<1>3. buffers' = buffers \o [i \in 1..(Surfaces - Len(buffers)) |-> NoBuffer]
  BY <1>1 DEF Animate
<1>7. /\ buffers' \in Seq(Buffers(Sizes)) /\ Len(buffers') = Surfaces
      /\ DOMAIN buffers' = 1..Surfaces
      /\ \A i \in 1..Surfaces : \/ i \in DOMAIN buffers /\ buffers'[i] = buffers[i]
                                \/ i \notin DOMAIN buffers /\ buffers'[i] = NoBuffer
  <2> DEFINE S == Buffers(Sizes)
  <2>1. buffers \in Seq(S) /\ NoBuffer \in S
    BY <1>1, <1>2
  <2> HIDE DEF S
  <2> DEFINE m == Surfaces - Len(buffers)
             r == [i \in 1..m |-> NoBuffer]
  <2>3. m \in Nat /\ Surfaces = Len(buffers) + m
    <3>1. \A l \in {0, Surfaces} : Surfaces - l \in Nat /\ Surfaces = l + (Surfaces - l)
      BY <1>0
    <3> QED
      BY <1>1, <3>1, Zenon
  <2>4. r \in [1..m -> S] /\ \A i \in 1..m : r[i] = NoBuffer
    BY <2>1
  <2>5. buffers' = buffers \o r
    BY <1>3
  <2> HIDE DEF m, r
  <2>2. /\ buffers' \in Seq(S) /\ Len(buffers') = Surfaces
        /\ DOMAIN buffers' = 1..Surfaces
        /\ \A i \in 1..Surfaces : \/ i \in DOMAIN buffers /\ buffers'[i] = buffers[i]
                                  \/ i \notin DOMAIN buffers /\ buffers'[i] = NoBuffer
    <3>1. /\ buffers \o r \in Seq(S) /\ Len(buffers \o r) = Surfaces
          /\ DOMAIN (buffers \o r) = 1..Surfaces
          /\ \A i \in 1..Surfaces : \/ i \in DOMAIN buffers /\ (buffers \o r)[i] = buffers[i]
                                    \/ i \notin DOMAIN buffers /\ (buffers \o r)[i] = NoBuffer
      BY <1>0, <2>1, <2>3, <2>4, Padded, SMTT(30)
    <3> QED
      BY <2>5, <3>1, Zenon
  <2> QED
    BY <2>2 DEF S
<1>8. \A i \in 1..Surfaces : \/ i \in DOMAIN buffers /\ buffers'[i] = buffers[i]
                             \/ i \notin DOMAIN buffers /\ buffers'[i] = NoBuffer
  BY <1>7
<1>9. /\ pc = "animate" /\ pc' = "render" /\ next' = 1 /\ animating' \in BOOLEAN
      /\ UNCHANGED <<state, shown, fdVars>> /\ ~Ended /\ ~Ended'
  BY DEF Animate, IInv, Ended
<1>10. ViewPart'
  <2>1. CASE RedrawAll
    BY <1>0, <1>7, <1>9, <2>1, AllToRedraw DEF IInv, ViewPart, Shaped, FreshUnlessAsked, Places
  <2>2. CASE UNCHANGED surfaces
    BY <1>0, <1>7, <1>9, <2>2 DEF IInv, ViewPart, Shaped, FreshUnlessAsked, Places
  <2> QED
    BY <2>1, <2>2 DEF Animate
<1>11. FdPart'
  <2>1. NoBuffer.fd = -1 /\ NoBuffer.data = FALSE
    BY DEF NoBuffer
  <2>2. DOMAIN buffers \subseteq 1..Surfaces
    BY BuffersTyped DEF IInv
  <2>3. NoneLeaks'
    <3>1. \A i \in Unclosed : i \in Unclosed' /\ buffers'[i] = buffers[i]
      BY <1>7, <1>8, <1>9, <2>2 DEF Unclosed, Ended
    <3> QED
      BY <1>9, <3>1 DEF IInv, NoneLeaks, fdVars
  <2>4. RemembersItsOwn'
    BY <1>7, <1>8, <1>9, <2>1 DEF IInv, RemembersItsOwn, Unreleased, fdVars
  <2> QED
    BY <1>9, <2>3, <2>4 DEF IInv, FdPart, FdsTypeOK, ClosesItsOwn, fdVars
<1> QED
  BY <1>10, <1>11, PartsAfter

\* A surface is drawn: its buffer is kept, or closed and made anew.
LEMMA DrawPreserves == ASSUME IInv, NEW i \in 1..Surfaces, Draw(i) PROVE IInv'
<1>0. Surfaces \in Nat /\ Surfaces > 0
  BY RenderAssumption
<1>1. /\ pc = "render" /\ pc' = pc /\ next = i /\ next' = i + 1 /\ ~Ended /\ ~Ended'
      /\ UNCHANGED <<state, animating>> /\ surfaces[i].needs_redraw /\ surfaces[i].size \in Sizes
  BY DEF Draw, Visit, Ended, IInv, Shaped
<1>2. /\ DOMAIN buffers = 1..Surfaces /\ buffers \in Seq(Buffers(Sizes))
      /\ \A j \in 1..Surfaces : buffers[j] \in Buffers(Sizes) /\ buffers[j].fd \in Fds \cup {-1}
                                /\ buffers[j].data \in BOOLEAN
  <2>1. Len(buffers) = Surfaces
    BY <1>1 DEF IInv, Shaped
  <2> QED
    BY <2>1, BuffersTyped DEF IInv, Shaped
<1>3. owner \in Tables
  BY DEF IInv, FdsTypeOK, Tables
<1>4. PICK made \in BufferFor(i) :
         /\ buffers' = [buffers EXCEPT ![i] = made.buf]
         /\ owner' = made.own /\ unmapped' = (unmapped \/ made.unmapped)
         /\ harmed' = (harmed \/ (buffers[i].size # surfaces[i].size /\ Harms(owner, buffers[i].fd)))
         /\ IF made.buf.data
              THEN /\ shown' = [shown EXCEPT ![i] = "view"]
                   /\ surfaces' = [surfaces EXCEPT ![i].needs_redraw = FALSE]
              ELSE UNCHANGED <<shown, surfaces>>
  BY DEF Draw
<1> DEFINE own == Closed(owner, buffers[i].fd)
\* Kept, or made on a number that was free once the old one was closed
<1>5. /\ made.buf \in Buffers(Sizes) /\ made.own \in Tables /\ made.unmapped \in BOOLEAN
      /\ \/ made.buf = buffers[i] /\ made.own = owner /\ ~made.unmapped
            /\ buffers[i].size = surfaces[i].size
         \/ /\ made.buf.data /\ made.buf.fd \in Fds /\ own[made.buf.fd] = "free"
            /\ made.own = [own EXCEPT ![made.buf.fd] = "client"]
         \/ /\ ~made.buf.data /\ made.own = own
            /\ made.buf.fd = -1 \/ made.unmapped
  <2>1. CASE buffers[i].size = surfaces[i].size
    <3>1. made = [buf |-> buffers[i], own |-> owner, unmapped |-> FALSE]
      BY <2>1 DEF BufferFor
    <3>2. made.buf = buffers[i] /\ made.own = owner /\ made.unmapped = FALSE
      BY <3>1
    <3> QED
      BY <1>2, <1>3, <2>1, <3>2
  <2>2. CASE buffers[i].size # surfaces[i].size
    <3>1. own \in Tables /\ made \in create_shm_buffer(surfaces[i].size, own)
      BY <1>2, <1>3, <2>2, ClosedIsFree DEF BufferFor
    <3> HIDE DEF own
    <3> QED
      BY <1>1, <3>1, WhatIsMade
  <2> QED
    BY <2>1, <2>2
<1>6. own \in Tables /\ \A f \in Fds : own[f] = IF f = buffers[i].fd THEN "free" ELSE owner[f]
  BY <1>2, <1>3, ClosedIsFree
<1> HIDE DEF own
<1>7. /\ buffers' \in Seq(Buffers(Sizes)) /\ Len(buffers') = Surfaces
      /\ DOMAIN buffers' = 1..Surfaces
      /\ buffers'[i] = made.buf
      /\ \A j \in 1..Surfaces : j # i => buffers'[j] = buffers[j]
  <2> DEFINE S == Buffers(Sizes)
  <2>1. buffers \in Seq(S) /\ made.buf \in S /\ i \in 1..Len(buffers) /\ Len(buffers) = Surfaces
    BY <1>1, <1>2, <1>5 DEF IInv, Shaped
  <2> HIDE DEF S
  <2>2. /\ [buffers EXCEPT ![i] = made.buf] \in Seq(S)
        /\ Len([buffers EXCEPT ![i] = made.buf]) = Len(buffers)
        /\ \A j \in 1 .. Len(buffers) : [buffers EXCEPT ![i] = made.buf][j] = IF j = i THEN made.buf ELSE buffers[j]
    BY <2>1, ExceptSeq
  <2> QED
    BY <1>2, <1>4, <2>1, <2>2 DEF S
<1>8. ViewPart'
  <2>1. /\ surfaces \in [1..Surfaces -> [size : Sizes \cup {None}, needs_redraw : BOOLEAN]]
        /\ shown \in [1..Surfaces -> {"nothing", "view", "old"}]
        /\ \A j \in 1..Surfaces : ~surfaces[j].needs_redraw => shown[j] = "view"
    BY <1>1 DEF IInv, Shaped, FreshUnlessAsked
  <2>2. /\ surfaces' \in [1..Surfaces -> [size : Sizes \cup {None}, needs_redraw : BOOLEAN]]
        /\ shown' \in [1..Surfaces -> {"nothing", "view", "old"}]
        /\ \A j \in 1..Surfaces : ~surfaces'[j].needs_redraw => shown'[j] = "view"
    <3>1. CASE UNCHANGED <<shown, surfaces>>
      BY <2>1, <3>1
    <3>2. CASE /\ shown' = [shown EXCEPT ![i] = "view"]
               /\ surfaces' = [surfaces EXCEPT ![i].needs_redraw = FALSE]
      BY <2>1, <3>2
    <3> QED
      BY <1>4, <3>1, <3>2
  <2>3. next' \in 1..(Surfaces + 1)
    BY <1>0, <1>1
  <2>4. Shaped'
    BY <1>1, <1>7, <2>2, <2>3 DEF Shaped
  <2> QED
    BY <1>1, <2>2, <2>4 DEF IInv, ViewPart, FreshUnlessAsked
<1>9. NoneLeaks'
  <2>1. ASSUME NEW f \in Fds, owner'[f] = "client"
        PROVE  \E j \in 1..Surfaces : buffers'[j].data /\ buffers'[j].fd = f
    <3>1. CASE made.buf.data /\ made.buf.fd = f
      BY <1>7, <3>1
    <3>2. CASE ~(made.buf.data /\ made.buf.fd = f)
      <4>1. owner[f] = "client"
        BY <1>3, <1>4, <1>5, <1>6, <2>1, <3>2 DEF Tables
      <4>2. PICK j \in 1..Surfaces : buffers[j].data /\ buffers[j].fd = f
        BY <1>2, <4>1 DEF IInv, NoneLeaks, Unclosed
      <4>3. j # i
        BY <1>3, <1>4, <1>5, <1>6, <2>1, <3>2, <4>2 DEF Tables
      <4> QED
        BY <1>7, <4>2, <4>3
    <3> QED
      BY <3>1, <3>2
  <2> QED
    BY <1>1, <1>7, <2>1 DEF NoneLeaks, Unclosed, Ended
<1>10. RemembersItsOwn'
  <2> SUFFICES ASSUME ~unmapped', NEW j \in 1..Surfaces, buffers'[j].fd # -1
               PROVE  /\ buffers'[j].data /\ owner'[buffers'[j].fd] = "client"
                      /\ \A k \in 1..Surfaces : buffers'[k].fd = buffers'[j].fd => j = k
    BY <1>1, <1>7 DEF RemembersItsOwn, Unreleased, Ended
  <2>1. ~unmapped /\ ~made.unmapped
    BY <1>4
  <2>2. \A k \in 1..Surfaces : buffers[k].fd # -1 =>
           /\ buffers[k].data /\ owner[buffers[k].fd] = "client"
           /\ \A m \in 1..Surfaces : buffers[m].fd = buffers[k].fd => k = m
    BY <1>1, <1>2, <2>1 DEF IInv, RemembersItsOwn, Unreleased
  <2>3. CASE made.buf = buffers[i]
    <3>1. \A k \in 1..Surfaces : buffers'[k] = buffers[k]
      BY <1>7, <2>3
    <3>2. \A f \in Fds : owner[f] = "client" /\ (\E k \in 1..Surfaces : buffers[k].fd = f) => owner'[f] = "client"
      <4>1. CASE made.own = owner
        BY <1>4, <4>1
      <4>2. CASE /\ made.buf.data /\ own[made.buf.fd] = "free"
        \* The old number is closed and another, or the same, is taken.
        BY <1>2, <1>4, <1>5, <1>6, <2>1, <2>2, <2>3, <4>2 DEF Tables
      <4>3. CASE ~made.buf.data /\ made.own = own
        <5>1. buffers[i].fd = -1
          BY <2>2, <2>3, <4>3
        <5>2. \A f \in Fds : f # -1
          BY FdsAssumption
        <5> QED
          BY <1>4, <1>6, <4>3, <5>1, <5>2
      <4> QED
        BY <1>5, <4>1, <4>2, <4>3
    <3> QED
      BY <1>2, <2>2, <3>1, <3>2
  <2>4. CASE /\ made.buf.data /\ made.buf.fd \in Fds /\ own[made.buf.fd] = "free"
             /\ made.own = [own EXCEPT ![made.buf.fd] = "client"]
    <3>1. \A k \in 1..Surfaces : k # i /\ buffers[k].fd # -1 =>
             /\ own[buffers[k].fd] = "client" /\ buffers[k].fd # made.buf.fd
             /\ owner'[buffers[k].fd] = "client"
      BY <1>2, <1>4, <1>6, <2>2, <2>4 DEF Tables
    <3>2. owner'[made.buf.fd] = "client" /\ made.buf.fd # -1
      BY <1>4, <1>6, <2>4, FdsAssumption DEF Tables
    <3> QED
      BY <1>2, <1>7, <2>2, <2>4, <3>1, <3>2
  <2>5. CASE ~made.buf.data /\ made.own = own /\ made.buf.fd = -1
    <3>1. \A k \in 1..Surfaces : k # i /\ buffers[k].fd # -1 => owner'[buffers[k].fd] = "client"
      BY <1>2, <1>4, <1>6, <2>2, <2>5
    <3> QED
      BY <1>2, <1>7, <2>2, <2>5, <3>1
  <2> QED
    BY <1>5, <2>1, <2>3, <2>4, <2>5
<1>11. FdsTypeOK' /\ ClosesItsOwn'
  <2>1. ~unmapped => ~(Harms(owner, buffers[i].fd))
    BY <1>1, <1>2 DEF IInv, RemembersItsOwn, Unreleased, Harms
  <2> QED
    BY <1>4, <1>5, <2>1 DEF IInv, FdsTypeOK, ClosesItsOwn, Tables, Harms
<1> QED
  BY <1>8, <1>9, <1>10, <1>11, PartsAfter DEF FdPart

\* A buffer is closed at the end, or all have been.
LEMMA CleanupPreserves == ASSUME IInv, Cleanup PROVE IInv'
<1>0. Surfaces \in Nat
  BY RenderAssumption
<1>1. /\ pc = "cleanup" /\ Ended /\ Ended' /\ pc' \in {"cleanup", "gone"}
      /\ UNCHANGED <<state, surfaces, buffers, shown, animating, unmapped>>
  BY DEF Cleanup, Ended
<1>2. /\ DOMAIN buffers \subseteq 1..Surfaces
      /\ \A j \in DOMAIN buffers : buffers[j].fd \in Fds \cup {-1} /\ buffers[j].data \in BOOLEAN
  BY BuffersTyped DEF IInv
<1>3. owner \in Tables /\ next \in 1..(Surfaces + 1)
  BY DEF IInv, FdsTypeOK, Tables, Shaped
<1>4. CASE next \notin DOMAIN buffers
  <2>1. pc' = "gone" /\ UNCHANGED <<owner, harmed, next>>
    BY <1>4 DEF Cleanup
  <2>2. ViewPart'
    BY <1>1, <2>1 DEF IInv, ViewPart, Shaped, FreshUnlessAsked, Places
  <2>3. NoneLeaks'
    BY <1>1, <2>1 DEF IInv, NoneLeaks, Unclosed, Ended
  <2>4. RemembersItsOwn'
    BY <1>1, <2>1 DEF IInv, RemembersItsOwn, Unreleased
  <2> QED
    BY <1>1, <2>1, <2>2, <2>3, <2>4, PartsAfter DEF IInv, FdPart, FdsTypeOK, ClosesItsOwn
<1>5. CASE next \in DOMAIN buffers
  <2> DEFINE fd == buffers[next].fd
  <2>1. /\ owner' = Closed(owner, fd) /\ harmed' = (harmed \/ Harms(owner, fd))
        /\ next' = next + 1 /\ pc' = pc
    BY <1>5 DEF Cleanup
  <2>2. owner' \in Tables /\ \A f \in Fds : owner'[f] = IF f = fd THEN "free" ELSE owner[f]
    BY <1>2, <1>3, <1>5, <2>1, ClosedIsFree
  <2>3. next' \in 1..(Surfaces + 1)
    BY <1>0, <1>2, <1>3, <1>5, <2>1
  <2>4. ViewPart'
    BY <1>1, <2>1, <2>3 DEF IInv, ViewPart, Shaped, FreshUnlessAsked, Places
  <2>5. NoneLeaks'
    <3>1. ASSUME NEW f \in Fds, owner'[f] = "client"
          PROVE  \E j \in Unclosed' : buffers'[j].fd = f
      <4>1. owner[f] = "client" /\ f # fd
        BY <2>2, <3>1
      <4>2. PICK j \in Unclosed : buffers[j].fd = f
        BY <4>1 DEF IInv, NoneLeaks
      <4>3. j \in DOMAIN buffers /\ buffers[j].data /\ j >= next /\ j # next
        BY <1>1, <4>1, <4>2 DEF Unclosed, Ended
      <4>4. j >= next'
        BY <1>2, <1>3, <2>1, <4>3
      <4> QED
        BY <1>1, <4>2, <4>3, <4>4 DEF Unclosed
    <3> QED
      BY <3>1 DEF NoneLeaks
  <2>6. \A j \in DOMAIN buffers : Unreleased(j)' => Unreleased(j) /\ j # next
    BY <1>1, <1>2, <1>3, <2>1 DEF Unreleased
  <2>7. Unreleased(next)
    BY <1>3, <1>5 DEF Unreleased
  <2>8. RemembersItsOwn'
    <3> SUFFICES ASSUME ~unmapped, NEW j \in DOMAIN buffers, Unreleased(j)', buffers[j].fd # -1
                 PROVE  /\ buffers[j].data /\ owner'[buffers[j].fd] = "client"
                        /\ \A k \in DOMAIN buffers :
                              Unreleased(k)' /\ buffers[k].fd = buffers[j].fd => j = k
      BY <1>1 DEF RemembersItsOwn
    <3>1. /\ buffers[j].data /\ owner[buffers[j].fd] = "client"
          /\ \A k \in DOMAIN buffers : Unreleased(k) /\ buffers[k].fd = buffers[j].fd => j = k
      BY <2>6 DEF IInv, RemembersItsOwn
    <3>2. buffers[j].fd # fd
      BY <1>5, <2>6, <2>7, <3>1
    <3> QED
      BY <1>2, <2>2, <2>6, <3>1, <3>2
  <2>9. ClosesItsOwn'
    BY <1>1, <1>5, <2>1, <2>7 DEF IInv, RemembersItsOwn, ClosesItsOwn, Harms
  <2>10. FdsTypeOK'
    BY <1>1, <2>1, <2>2 DEF IInv, FdsTypeOK, Tables, Harms
  <2> QED
    BY <2>4, <2>5, <2>8, <2>9, <2>10, PartsAfter DEF FdPart
<1> QED
  BY <1>4, <1>5

\* The rest of the process takes only numbers that are free, and gives back only
\* numbers it has.
LEMMA OtherPreserves == ASSUME IInv, Other PROVE IInv'
<1>1. UNCHANGED <<pc, renderVars, unmapped, harmed>>
  BY DEF Other, OtherOpens, OtherCloses
<1>2. /\ owner' \in Tables
      /\ \A f \in Fds : owner[f] = "client" <=> owner'[f] = "client"
  <2>1. CASE OtherOpens
    <3>1. Lowest(owner) \in Fds /\ owner[Lowest(owner)] = "free"
      BY <2>1, LowestIsFree DEF OtherOpens
    <3> QED
      BY <2>1, <3>1 DEF OtherOpens, IInv, FdsTypeOK, Tables
  <2>2. CASE OtherCloses
    BY <2>2 DEF OtherCloses, IInv, FdsTypeOK, Tables
  <2> QED
    BY <2>1, <2>2 DEF Other
<1>3. ViewPart'
  BY <1>1 DEF IInv, ViewPart, Shaped, FreshUnlessAsked, Ended, renderVars, drawVars
<1>4. FdsTypeOK' /\ ClosesItsOwn'
  BY <1>1, <1>2 DEF IInv, FdsTypeOK, ClosesItsOwn, Tables
<1>5. Unclosed' = Unclosed /\ buffers' = buffers
  BY <1>1 DEF Unclosed, renderVars, drawVars
<1>6. NoneLeaks'
  BY <1>2, <1>5 DEF IInv, NoneLeaks
<1>7. RemembersItsOwn'
  <2>1. \A i : Unreleased(i)' <=> Unreleased(i)
    BY <1>1 DEF Unreleased, Ended, renderVars, drawVars
  <2>2. \A i \in DOMAIN buffers : buffers[i].fd \in Fds \cup {-1}
    BY BuffersTyped DEF IInv
  <2> QED
    BY <1>1, <1>2, <1>5, <2>1, <2>2 DEF IInv, RemembersItsOwn
<1> QED
  BY <1>3, <1>4, <1>6, <1>7, PartsAfter DEF FdPart

-----------------------------------------------------------------------------

LEMMA StutterKeeps == ASSUME IInv, UNCHANGED vars PROVE IInv'
<1> USE DEF vars, renderVars, drawVars, fdVars
<1>1. ViewPart'
  BY DEF IInv, ViewPart, Shaped, FreshUnlessAsked, Ended
<1>2. FdsTypeOK' /\ ClosesItsOwn' /\ NoneLeaks'
  BY DEF IInv, FdsTypeOK, ClosesItsOwn, NoneLeaks, Unclosed
<1>3. RemembersItsOwn'
  BY DEF IInv, RemembersItsOwn, Unreleased, Ended
<1> QED
  BY <1>1, <1>2, <1>3, PartsAfter DEF FdPart

LEMMA NextPreserves == IInv /\ [Next]_vars => IInv'
<1> SUFFICES ASSUME IInv, [Next]_vars PROVE IInv'
  OBVIOUS
<1>0. /\ pc \in Places /\ animating \in BOOLEAN /\ next \in 1..(Surfaces + 1)
      /\ Surfaces \in Nat /\ 1 \in 1..(Surfaces + 1)
      /\ pc \in {"start", "first", "drain", "animate", "events"} => next = 1
      /\ pc = "render" => Len(buffers) = Surfaces
      /\ Len(surfaces) = Surfaces /\ DOMAIN surfaces = 1..Surfaces
  <2>1. Shaped
    BY DEF IInv
  <2>2. Len(surfaces) = Surfaces /\ DOMAIN surfaces = 1..Surfaces
    BY <2>1, BuffersTyped
  <2> QED
    BY <2>1, <2>2, RenderAssumption DEF IInv, Shaped
<1>1. CASE FirstEvent \/ TurnBegins
  BY <1>0, <1>1, TurnGoesOn DEF FirstEvent, TurnBegins, renderVars, drawVars, Ended, Places
<1>2. CASE ConnectionLost
  BY <1>0, <1>2, TurnGoesOn DEF ConnectionLost, renderVars, drawVars, Ended, Places
<1>3. CASE Rendered
  BY <1>0, <1>3, TurnGoesOn DEF Rendered, Ended, Places
<1>4. ASSUME NEW i \in 1..Surfaces, Skip(i)
      PROVE  IInv'
  <2>1. /\ pc = "render" /\ pc' = pc /\ next' = i + 1
        /\ UNCHANGED <<state, surfaces, buffers, shown, animating, fdVars>>
    BY <1>4 DEF Skip, Visit
  <2>2. next' \in 1..(Surfaces + 1)
    BY <1>0, <2>1
  <2> QED
    BY <1>0, <2>1, <2>2, TurnGoesOn DEF Ended, Places
<1>5. CASE Repeat
  BY <1>5, RepeatPreserves
<1>6. CASE Animate
  BY <1>6, AnimatePreserves
<1>7. CASE Cleanup
  BY <1>7, CleanupPreserves
<1>8. ASSUME NEW i \in 1..Surfaces, Draw(i)
      PROVE  IInv'
  BY <1>8, DrawPreserves
<1>9. CASE Other
  BY <1>9, OtherPreserves
<1>10. ASSUME NEW e \in KeyEvents, Key(e)
       PROVE  IInv'
  BY <1>10, KeyPreserves
<1>11. ASSUME NEW i \in 1..Surfaces, NEW size \in Sizes, Configure(i, size)
       PROVE  IInv'
  BY <1>11, ConfigurePreserves
<1>12. ASSUME NEW type \in {"AuthSuccess", "AuthFail", "FingerprintMatch", "FingerprintNoMatch"},
              Report(type)
       PROVE  IInv'
  BY <1>12, ReportPreserves
<1>13. CASE UNCHANGED vars
  BY <1>13, StutterKeeps
<1> QED
  BY <1>1, <1>2, <1>3, <1>4, <1>5, <1>6, <1>7, <1>8, <1>9, <1>10, <1>11, <1>12, <1>13
  DEF Next, LoopStep, Gone

THEOREM Invariance == Spec => []IInv
<1>1. Init => IInv
  BY InitEstablishes
<1>2. IInv /\ [Next]_vars => IInv'
  BY NextPreserves
<1> QED
  BY <1>1, <1>2, PTL DEF Spec

\* The state, surfaces and buffers keep their types; there are never more buffers than
\* surfaces (main.cpp:128-160).
THEOREM TypesHold == Spec => []TypeOK
<1>1. IInv => TypeOK
  <2> SUFFICES ASSUME IInv PROVE TypeOK
    OBVIOUS
  <2>1. Shaped
    BY DEF IInv
  <2>2. /\ Len(surfaces) = Surfaces /\ Len(shown) = Surfaces /\ DOMAIN surfaces = 1..Surfaces
        /\ \A i \in DOMAIN buffers : buffers[i] \in Buffers(Sizes)
    BY <2>1, BuffersTyped
  <2>3. Len(buffers) <= Len(surfaces)
    <3>1. \A l \in {0, Surfaces} : l <= Surfaces
      BY RenderAssumption
    <3> QED
      BY <2>1, <2>2, <3>1, Zenon DEF Shaped
  <2>4. \A i \in DOMAIN surfaces : surfaces[i].size \in Sizes \cup {None}
                                   /\ surfaces[i].needs_redraw \in BOOLEAN
    BY <2>1, <2>2 DEF Shaped
  <2>5. next \in 1..(Len(surfaces) + 1)
    BY <2>1, <2>2, Zenon DEF Shaped
  <2> QED
    BY <2>2, <2>3, <2>4, <2>5, Zenon DEF IInv, TypeOK
<1> QED
  BY <1>1, Invariance, PTL

\* No descriptor of a buffer leaks, and none of another part is closed before an mmap has
\* failed, for any number of surfaces, sizes and descriptors (client.cpp:319-327,
\* main.cpp:139-156, 432-436).
THEOREM NoDescriptorLeaks == Spec => []DescriptorsAccounted
<1>1. IInv => DescriptorsAccounted
  BY DEF IInv, DescriptorsAccounted
<1> QED
  BY <1>1, Invariance, PTL

\* When main waits, what is not asked to be redrawn shows the view as it is
\* (main.cpp:128-160, 336-405).
THEOREM NothingStaleWhileWaiting == Spec => []ShownIsCurrent
<1>1. IInv => ShownIsCurrent
  <2> SUFFICES ASSUME IInv, pc = "events", NEW i \in DOMAIN buffers,
                      buffers[i].data, ~surfaces[i].needs_redraw
               PROVE  shown[i] = "view"
    BY DEF ShownIsCurrent
  <2>1. DOMAIN buffers \subseteq 1..Surfaces
    BY BuffersTyped DEF IInv
  <2> QED
    BY <2>1 DEF IInv, FreshUnlessAsked, Ended
<1> QED
  BY <1>1, Invariance, PTL
=============================================================================
