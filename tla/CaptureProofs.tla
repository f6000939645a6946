----------------------------- MODULE CaptureProofs ----------------------------
(***************************************************************************)
(* The safety properties of Capture, for any number of displays, screen    *)
(* shots, events under way and descriptors.                                *)
(***************************************************************************)
EXTENDS Capture, TLAPS, SequenceTheorems, WellFoundedInduction

\* The kernel's lowest free number is one that is free.
LEMMA LowestIsFree ==
    ASSUME NEW own, Free(own) # {}
    PROVE  Lowest(own) \in Fds /\ own[Lowest(own)] = "free"
<1>1. Free(own) \subseteq Nat
  BY FdsAssumption DEF Free
<1>2. PICK f \in Free(own) : \A g \in Free(own) : ~(<<g, f>> \in OpToRel(<, Nat))
  BY <1>1, WFMin, NatLessThanWellFounded, Zenon
<1>3. \A g \in Free(own) : f <= g
  <2> SUFFICES ASSUME NEW g \in Free(own) PROVE f <= g
    OBVIOUS
  <2>1. ~(g < f)
    BY <1>1, <1>2 DEF OpToRel
  <2> QED
    BY <1>1, <2>1
<1>4. Lowest(own) \in Free(own)
  BY <1>3 DEF Lowest
<1> QED
  BY <1>4 DEF Free

Tables == [Fds -> {"free", "client", "other"}]

\* What create_shm_buffer makes: a buffer on a number that was free, or none; and
\* the number of none is remembered only where an mmap failed (client.cpp:319-352).
LEMMA WhatIsMade ==
    ASSUME NEW own \in Tables, NEW size \in Outputs, NEW made \in create_shm_buffer(size, own)
    PROVE  /\ made.buf \in Buffers(Outputs) /\ made.own \in Tables /\ made.unmapped \in BOOLEAN
           /\ \/ /\ made.buf.data /\ made.buf.fd \in Fds /\ own[made.buf.fd] = "free"
                 /\ made.own = [own EXCEPT ![made.buf.fd] = "client"]
              \/ /\ ~made.buf.data /\ made.own = own
                 /\ made.buf.fd = -1 \/ made.unmapped
<1>1. CASE made = [buf |-> [NoBuffer EXCEPT !.size = size], own |-> own, unmapped |-> FALSE]
  BY <1>1 DEF NoBuffer, Buffers
<1>2. CASE Free(own) # {} /\ made = [buf |-> [size |-> size, fd |-> Lowest(own), data |-> FALSE],
                                     own |-> own, unmapped |-> TRUE]
  BY <1>2, LowestIsFree DEF Buffers
<1>3. CASE Free(own) # {} /\ made = [buf |-> [size |-> size, fd |-> Lowest(own), data |-> TRUE],
                                     own |-> [own EXCEPT ![Lowest(own)] = "client"], unmapped |-> FALSE]
  <2>1. Lowest(own) \in Fds /\ own[Lowest(own)] = "free"
    BY <1>3, LowestIsFree
  <2> QED
    BY <1>3, <2>1 DEF Buffers, Tables
<1> QED
  BY <1>1, <1>2, <1>3 DEF create_shm_buffer

\* A number that is closed is free, and no other changes hands.
LEMMA ClosedIsFree ==
    ASSUME NEW own \in Tables, NEW fd \in Fds \cup {-1}
    PROVE  /\ Closed(own, fd) \in Tables
           /\ \A f \in Fds : Closed(own, fd)[f] = IF f = fd THEN "free" ELSE own[f]
BY FdsAssumption DEF Closed, Tables

-----------------------------------------------------------------------------
(* Sequences *)

LEMMA Places1ToLen ==
    ASSUME NEW S, NEW q \in Seq(S)
    PROVE  Len(q) \in Nat /\ DOMAIN q = 1..Len(q) /\ \A i \in DOMAIN q : q[i] \in S
<1>1. Len(q) \in Nat /\ DOMAIN q = 1..Len(q)
  BY LenProperties
<1>2. \A i \in 1..Len(q) : q[i] \in S
  BY ElementOfSeq
<1> QED
  BY <1>1, <1>2

LEMMA OneMore ==
    ASSUME NEW S, NEW q \in Seq(S), NEW e \in S
    PROVE  /\ Append(q, e) \in Seq(S) /\ Len(Append(q, e)) = Len(q) + 1
           /\ DOMAIN Append(q, e) = 1..(Len(q) + 1)
           /\ \A i \in DOMAIN q : Append(q, e)[i] = q[i]
           /\ Append(q, e)[Len(q) + 1] = e
<1>1. Append(q, e) \in Seq(S) /\ Len(Append(q, e)) = Len(q) + 1
      /\ \A i \in 1..Len(q) : Append(q, e)[i] = q[i]
      /\ Append(q, e)[Len(q) + 1] = e
  BY AppendProperties
<1> QED
  BY <1>1, Places1ToLen

LEMMA OneLess ==
    ASSUME NEW S, NEW q \in Seq(S), q # <<>>
    PROVE  /\ Tail(q) \in Seq(S) /\ 1 \in DOMAIN q /\ Head(q) = q[1] /\ q[1] \in S
           /\ \A i \in DOMAIN Tail(q) :
                /\ i + 1 \in DOMAIN q /\ Tail(q)[i] = q[i + 1] /\ i + 1 # 1
                /\ i \in Nat
<1>1. /\ Head(q) \in S /\ Tail(q) \in Seq(S) /\ Len(Tail(q)) = Len(q) - 1
      /\ \A i \in 1..Len(Tail(q)) : Tail(q)[i] = q[i + 1]
  BY HeadTailProperties
<1>2. Len(q) \in Nat /\ DOMAIN q = 1..Len(q) /\ Len(q) # 0
  BY EmptySeq, LenProperties
<1>3. DOMAIN Tail(q) = 1..Len(Tail(q))
  BY <1>1, LenProperties
<1>4. Head(q) = q[1]
  OBVIOUS
<1>5. 1 \in DOMAIN q
  BY <1>2
<1>6. \A i \in DOMAIN Tail(q) :
         i + 1 \in DOMAIN q /\ Tail(q)[i] = q[i + 1] /\ i + 1 # 1 /\ i \in Nat
  BY <1>1, <1>2, <1>3
<1> QED
  BY <1>1, <1>4, <1>5, <1>6

\* What the types of the sequences say of their elements
LEMMA Listed ==
    ASSUME Typed
    PROVE  /\ Len(outputs_) \in Nat /\ DOMAIN outputs_ = 1..Len(outputs_)
           /\ \A i \in DOMAIN outputs_ : outputs_[i].output \in Outputs /\ outputs_[i].sized \in BOOLEAN
           /\ Len(s2c) \in Nat /\ DOMAIN s2c = 1..Len(s2c)
           /\ \A k \in DOMAIN s2c : s2c[k] \in Traffic
           /\ Len(shots) \in Nat /\ DOMAIN shots = 1..Len(shots)
           /\ \A i \in DOMAIN shots : shots[i] \in Outputs
<1> DEFINE S == [output : Outputs, sized : BOOLEAN]
<1>1. \A s \in S : s.output \in Outputs /\ s.sized \in BOOLEAN
  OBVIOUS
<1>2. outputs_ \in Seq(S) /\ s2c \in Seq(Traffic) /\ shots \in Seq(Outputs)
  BY DEF Typed
<1> HIDE DEF S
<1>3. Len(outputs_) \in Nat /\ DOMAIN outputs_ = 1..Len(outputs_) /\ \A i \in DOMAIN outputs_ : outputs_[i] \in S
  BY <1>2, Places1ToLen, Zenon
<1>4. Len(s2c) \in Nat /\ DOMAIN s2c = 1..Len(s2c) /\ \A k \in DOMAIN s2c : s2c[k] \in Traffic
  BY <1>2, Places1ToLen, Zenon
<1>5. Len(shots) \in Nat /\ DOMAIN shots = 1..Len(shots) /\ \A i \in DOMAIN shots : shots[i] \in Outputs
  BY <1>2, Places1ToLen, Zenon
<1> QED
  BY <1>1, <1>3, <1>4, <1>5, Zenon

LEMMA PartsAfter ==
    Typed' /\ InStep' /\ BufferHeld' /\ OneFrame' /\ BoundOnce' /\ Pictures' /\ ShotsAlign' /\ Drawn' => IInv'
BY DEF IInv

-----------------------------------------------------------------------------
LEMMA InitEstablishes == Init => IInv
<1> SUFFICES ASSUME Init PROVE IInv
  OBVIOUS
<1>1. PICK found \in FirstOutputs : \E known \in SUBSET Range(found) :
         /\ outputs_ = [i \in DOMAIN found |-> [output |-> found[i], sized |-> found[i] \in known]]
         /\ plug = Range(found)
  BY DEF Init
<1>2. PICK known \in SUBSET Range(found) :
         outputs_ = [i \in DOMAIN found |-> [output |-> found[i], sized |-> found[i] \in known]]
  BY <1>1
<1>3. plug = Range(found)
  BY <1>1
<1>4. found \in Seq(Outputs) /\ IsInjective(found)
  BY CaptureAssumption
<1>5. Len(found) \in Nat /\ DOMAIN found = 1..Len(found) /\ \A i \in DOMAIN found : found[i] \in Outputs
  BY <1>4, Places1ToLen, Zenon
<1>6. outputs_ \in Seq([output : Outputs, sized : BOOLEAN])
  <2>1. outputs_ \in [1..Len(found) -> [output : Outputs, sized : BOOLEAN]]
    BY <1>2, <1>5
  <2> QED
    BY <1>5, <2>1, SeqDef
<1>7. /\ DOMAIN outputs_ = DOMAIN found
      /\ \A i \in DOMAIN outputs_ : outputs_[i].output = found[i]
  BY <1>2
<1>8. plug \subseteq Outputs
  BY <1>3, <1>5 DEF Range
<1>9. pc = "connected" /\ it = 1 /\ last = 0 /\ s2c = <<>> /\ shots = <<>> /\ capture = NoCapture
      /\ frame = None /\ alive = {} /\ copied = None /\ heard = {} /\ skipped = {} /\ dangling = FALSE
      /\ sync = FALSE /\ link = "up" /\ stage = [o \in Outputs |-> "none"] /\ surfaces = <<>>
      /\ backgrounds = <<>>
  BY DEF Init
<1>10. FdsTypeOK /\ ~harmed /\ \A f \in Fds : owner[f] # "client"
  BY DEF Init, FdsInit, FdsTypeOK
<1>11. Typed
  <2>1. capture \in Captures
    BY <1>9 DEF NoCapture, NoBuffer, Captures, Buffers
  <2>2. s2c \in Seq(Traffic) /\ shots \in Seq(Outputs)
    BY <1>9, EmptySeq
  <2> QED
    BY <1>6, <1>8, <1>9, <2>1, <2>2 DEF Typed, Places
<1>12. ~Taking /\ ~Copying /\ ~Walking /\ pc # "crashed"
  BY <1>9 DEF Taking, Copying, Walking
<1>13. InStep
  <2>1. Len(outputs_) \in Nat
    BY <1>11, Listed
  <2> QED
    BY <1>9, <1>12, <2>1 DEF InStep
<1>14. BufferHeld
  BY <1>9, <1>10, <1>12 DEF BufferHeld, NoCapture
<1>15. OneFrame
  BY <1>9 DEF OneFrame
<1>16. BoundOnce
  <2>1. \A i, j \in DOMAIN outputs_ : outputs_[i].output = outputs_[j].output => i = j
    BY <1>4, <1>7 DEF IsInjective
  <2>2. \A i \in DOMAIN outputs_ : outputs_[i].output \in plug
    BY <1>3, <1>7 DEF Range
  <2>3. DOMAIN s2c = {}
    BY <1>9
  <2> QED
    BY <2>1, <2>2, <2>3 DEF BoundOnce
<1>17. Pictures
  BY <1>9, <1>12 DEF Pictures, NoCapture
<1>18. ShotsAlign
  BY <1>9, <1>12 DEF ShotsAlign
<1>19. Drawn
  BY <1>9 DEF Drawn
<1> QED
  BY <1>11, <1>13, <1>14, <1>15, <1>16, <1>17, <1>18, <1>19 DEF IInv

-----------------------------------------------------------------------------
(* Steps that leave the walk where it is *)

\* Inside a roundtrip and while it is not in one, the walk's own state stands:
\* outputs_ may only grow, and what is told of the frame may change.
LEMMA WalkStands ==
    ASSUME IInv, pc' \in Places,
           Copying' <=> Copying, Taking' <=> Taking, Walking' <=> Walking, ~Walking => pc' = pc,
           UNCHANGED <<it, last, frame, alive, shots, skipped, fdVars, lockVars>>,
           outputs_' \in Seq([output : Outputs, sized : BOOLEAN]),
           \A i \in DOMAIN outputs_ : i \in DOMAIN outputs_' /\ outputs_'[i].output = outputs_[i].output,
           ~Taking => UNCHANGED <<capture, copied, heard>>, ~Walking => UNCHANGED <<outputs_, s2c>>,
           capture' \in Captures, capture'.buf = capture.buf,
           heard' \subseteq {frame}, heard' \subseteq Outputs, copied' \in Outputs \cup {None},
           stage' \in [Outputs -> {"none", "asked", "offered", "copying", "over"}],
           \A o \in Outputs : stage'[o] # "none" => o = frame,
           s2c' \in Seq(Traffic), plug' \subseteq Outputs,
           dangling' \in BOOLEAN, sync' \in BOOLEAN, link' \in {"up", "lost"},
           BoundOnce', Pictures'
    PROVE  IInv'
<1>1. Typed'
  BY DEF IInv, Typed
<1>2. Len(outputs_) \in Nat /\ DOMAIN outputs_ = 1..Len(outputs_)
  BY Listed DEF IInv
<1>3. Len(outputs_') \in Nat /\ DOMAIN outputs_' = 1..Len(outputs_')
  BY Places1ToLen
<1>4. Len(outputs_) <= Len(outputs_')
  <2>1. Len(outputs_) # 0 => Len(outputs_) \in DOMAIN outputs_'
    BY <1>2
  <2> QED
    BY <1>2, <1>3, <2>1
<1>5. last \in 0..Len(outputs_) /\ it \in 1..(last + 1)
  BY DEF IInv, InStep
<1>6. InStep'
  <2>1. last' \in 0..Len(outputs_') /\ it' \in 1..(last' + 1)
    BY <1>2, <1>3, <1>4, <1>5
  <2>2. Taking => it' <= last' /\ frame' = outputs_'[it'].output
    <3>1. Taking => it <= last /\ frame = outputs_[it].output
      BY DEF IInv, InStep
    <3>2. Taking => it \in DOMAIN outputs_
      BY <1>2, <1>5, <3>1
    <3> QED
      BY <3>1, <3>2
  <2>3. ~Taking => frame' = None /\ copied' = None /\ heard' = {} /\ capture' = NoCapture
    BY DEF IInv, InStep
  <2>4. ~Walking' /\ pc' # "crashed" => it' = 1 /\ last' = 0
    BY DEF IInv, InStep
  <2>5. pc' = "connected" => s2c' = <<>>
    BY DEF IInv, InStep, Walking, Taking, Copying
  <2> QED
    BY <2>1, <2>2, <2>3, <2>4, <2>5 DEF InStep
<1>7. BufferHeld'
  BY DEF IInv, BufferHeld, fdVars, FdsTypeOK
<1>8. OneFrame'
  BY DEF IInv, OneFrame
<1>9. ShotsAlign'
  <2>1. \A i : Unbroken(i)' <=> Unbroken(i)
    BY DEF Unbroken
  <2>2. Walking => \A i \in 1..(it - 1) : outputs_'[i].output = outputs_[i].output
    BY <1>2, <1>5
  <2>3. Walking' =>
           /\ Unbroken(it - 1)' => Len(shots') = it' - 1
           /\ \A i \in 1..(it' - 1) :
                Unbroken(i)' => i \in DOMAIN shots' /\ shots'[i] = outputs_'[i].output
    BY <2>1, <2>2 DEF IInv, ShotsAlign, Unbroken
  <2>4. /\ pc' \in {"captured", "locked", "connected"} => ~Walking'
        /\ ~Walking' => pc' = pc /\ UNCHANGED outputs_
    BY DEF Walking, Taking, Copying
  <2>5. pc' \in {"captured", "locked"} =>
           \A i \in DOMAIN outputs_' :
             Unbroken(i)' => i \in DOMAIN shots' /\ shots'[i] = outputs_'[i].output
    BY <2>1, <2>4 DEF IInv, ShotsAlign
  <2>6. pc' = "connected" => shots' = <<>>
    BY <2>4 DEF IInv, ShotsAlign
  <2> QED
    BY <2>3, <2>5, <2>6 DEF ShotsAlign
<1>10. Drawn'
  <2>1. pc' = "locked" => pc = "locked" /\ UNCHANGED outputs_
    BY DEF Walking, Taking, Copying
  <2>2. pc = "locked" => pc' = "locked"
    BY DEF Walking, Taking, Copying
  <2> QED
    BY <2>1, <2>2 DEF IInv, Drawn, lockVars
<1> QED
  BY <1>1, <1>6, <1>7, <1>8, <1>9, <1>10, PartsAfter

\* Nothing but the place, inside an iteration, and what no part relates
LEMMA OnlyThePlace ==
    ASSUME IInv, pc' \in Places,
           Copying' <=> Copying, Taking' <=> Taking, Walking' <=> Walking, ~Walking => pc' = pc,
           sync' \in BOOLEAN, link' \in {"up", "lost"},
           UNCHANGED <<outputs_, walkVars, dangling, shots, s2c, compVars, copied, heard, skipped, fdVars, lockVars>>
    PROVE  IInv'
<1>1. UNCHANGED <<outputs_, it, last, capture, frame, alive, dangling, shots, s2c, plug, stage, copied, heard,
                  skipped>>
  BY DEF walkVars, compVars
<1>2. BoundOnce'
  BY <1>1 DEF IInv, BoundOnce
<1>3. Begun' = Begun
  BY <1>1 DEF Begun
<1>4. Pictures'
  BY <1>1, <1>3 DEF IInv, Pictures
<1>5. Typed /\ OneFrame
  BY DEF IInv
<1>6. \A i \in DOMAIN outputs_ : i \in DOMAIN outputs_' /\ outputs_'[i].output = outputs_[i].output
  BY <1>1
<1> QED
  BY <1>1, <1>2, <1>4, <1>5, <1>6, WalkStands DEF Typed, OneFrame

\* The first event is gone from the queue, and the elements of outputs_ are what
\* they were.
LEMMA EventTaken ==
    ASSUME IInv, s2c # <<>>, s2c' = Tail(s2c), DOMAIN outputs_' = DOMAIN outputs_, UNCHANGED plug,
           \A i \in DOMAIN outputs_ : outputs_'[i].output = outputs_[i].output
    PROVE  BoundOnce'
<1>1. /\ 1 \in DOMAIN s2c
      /\ \A k \in DOMAIN s2c' : k + 1 \in DOMAIN s2c /\ s2c'[k] = s2c[k + 1] /\ k \in Nat
  BY OneLess DEF IInv, Typed
<1>2. ASSUME NEW k \in DOMAIN s2c', s2c'[k].ev = "global"
      PROVE  /\ s2c'[k].output \in plug'
             /\ \A i \in DOMAIN outputs_' : outputs_'[i].output # s2c'[k].output
             /\ \A l \in DOMAIN s2c' : s2c'[l] = s2c'[k] => l = k
  <2>1. k + 1 \in DOMAIN s2c /\ s2c[k + 1].ev = "global" /\ s2c'[k] = s2c[k + 1]
    BY <1>1, <1>2
  <2>2. /\ s2c[k + 1].output \in plug
        /\ \A i \in DOMAIN outputs_ : outputs_[i].output # s2c[k + 1].output
        /\ \A l \in DOMAIN s2c : s2c[l] = s2c[k + 1] => l = k + 1
    BY <2>1 DEF IInv, BoundOnce
  <2>3. ASSUME NEW l \in DOMAIN s2c', s2c'[l] = s2c'[k] PROVE l = k
    <3>1. l + 1 = k + 1
      BY <1>1, <2>1, <2>2, <2>3
    <3> QED
      BY <1>1, <3>1
  <2> QED
    BY <2>1, <2>2, <2>3
<1>3. \A i, j \in DOMAIN outputs_' : outputs_'[i].output = outputs_'[j].output => i = j
  BY DEF IInv, BoundOnce
<1>4. \A i \in DOMAIN outputs_' : outputs_'[i].output \in plug'
  BY DEF IInv, BoundOnce
<1> QED
  BY <1>2, <1>3, <1>4 DEF BoundOnce

\* The pictures still announced are among those announced before.
LEMMA PicturesStand ==
    ASSUME IInv, s2c # <<>>, s2c' = Tail(s2c), Taking, Taking',
           UNCHANGED <<it, frame, copied>>,
           \A i \in DOMAIN outputs_ : outputs_'[i].output = outputs_[i].output,
           capture'.ready => copied = frame
    PROVE  Pictures'
<1>1. \A k \in DOMAIN s2c' : k + 1 \in DOMAIN s2c /\ s2c'[k] = s2c[k + 1]
  BY OneLess DEF IInv, Typed
<1>2. Walking
  BY DEF Walking
<1>3. Begun' = Begun /\ \A i \in Begun : i \in DOMAIN outputs_
  <2>1. Len(outputs_) \in Nat /\ DOMAIN outputs_ = 1..Len(outputs_)
    BY Listed DEF IInv
  <2>2. it <= last /\ last \in 0..Len(outputs_) /\ it \in 1..(last + 1)
    BY DEF IInv, InStep
  <2> QED
    BY <2>1, <2>2 DEF Begun
<1>4. ASSUME NEW k \in DOMAIN s2c', s2c'[k].ev = "ready"
      PROVE  /\ \E i \in Begun' : outputs_'[i].output = s2c'[k].output
             /\ s2c'[k].output = frame' => copied' = frame'
  <2>1. k + 1 \in DOMAIN s2c /\ s2c[k + 1].ev = "ready" /\ s2c'[k] = s2c[k + 1]
    BY <1>1, <1>4
  <2>2. /\ \E i \in Begun : outputs_[i].output = s2c[k + 1].output
        /\ s2c[k + 1].output = frame => copied = frame
    BY <1>2, <2>1 DEF IInv, Pictures
  <2> QED
    BY <1>3, <2>1, <2>2
<1> QED
  BY <1>4 DEF Pictures

-----------------------------------------------------------------------------
(* The listeners *)

\* Where a roundtrip returns to, the copy is as far as it was.
LEMMA ReturnPlaces ==
    ASSUME InRoundtrip, Return \/ pc' = pc
    PROVE  /\ pc' \in Places /\ Taking /\ Taking' /\ Walking /\ Walking'
           /\ (Copying' <=> Copying)
BY DEF InRoundtrip, Return, Places, Taking, Walking, Copying

\* The event at the head of the queue
LEMMA FirstEvent ==
    ASSUME IInv, s2c # <<>>
    PROVE  /\ 1 \in DOMAIN s2c /\ Head(s2c) = s2c[1] /\ s2c[1] \in Traffic
           /\ Tail(s2c) \in Seq(Traffic)
BY OneLess DEF IInv, Typed

LEMMA GlobalPreserves ==
    ASSUME IInv, InRoundtrip, s2c # <<>>, NEW o \in Outputs, s2c[1] = Event("global", o),
           s2c' = Tail(s2c), handle_registry_global(o),
           UNCHANGED <<pc, sync, it, last, frame, alive, shots, link, plug, stage, copied, skipped, fdVars, lockVars>>
    PROVE  IInv'
<1> DEFINE R == [output : Outputs, sized : BOOLEAN]
           new == [output |-> o, sized |-> FALSE]
<1>1. outputs_' = Append(outputs_, new) /\ UNCHANGED <<capture, heard>> /\ dangling' = (dangling \/ Reallocates(Len(outputs_)))
  BY DEF handle_registry_global
<1>2. outputs_ \in Seq(R) /\ new \in R
  BY DEF IInv, Typed
<1>3. new.output = o
  OBVIOUS
<1> HIDE DEF R, new
<1>4. /\ outputs_' \in Seq(R) /\ DOMAIN outputs_' = 1..(Len(outputs_) + 1)
      /\ \A i \in DOMAIN outputs_ : outputs_'[i] = outputs_[i]
      /\ outputs_'[Len(outputs_) + 1] = new
  BY <1>1, <1>2, OneMore
<1>5. Len(outputs_) \in Nat /\ DOMAIN outputs_ = 1..Len(outputs_)
  BY Listed DEF IInv
<1>6. /\ \A i \in DOMAIN outputs_ : i \in DOMAIN outputs_' /\ outputs_'[i].output = outputs_[i].output
      /\ \A i \in DOMAIN outputs_' : i \notin DOMAIN outputs_ =>
           outputs_'[i].output = o /\ i = Len(outputs_) + 1
  BY <1>3, <1>4, <1>5
<1>7. 1 \in DOMAIN s2c /\ s2c[1].ev = "global" /\ s2c[1].output = o
  BY FirstEvent DEF Event
<1>8. /\ o \in plug /\ \A i \in DOMAIN outputs_ : outputs_[i].output # o
      /\ \A l \in DOMAIN s2c : s2c[l] = s2c[1] => l = 1
  BY <1>7 DEF IInv, BoundOnce
<1>9. /\ \A k \in DOMAIN s2c' : k + 1 \in DOMAIN s2c /\ s2c'[k] = s2c[k + 1] /\ k + 1 # 1 /\ k \in Nat
      /\ \A k \in DOMAIN s2c : s2c[k] \in Traffic
  BY OneLess, Listed DEF IInv, Typed
<1>10. \A k \in DOMAIN s2c' : s2c'[k].ev = "global" => s2c'[k].output # o
  <2> SUFFICES ASSUME NEW k \in DOMAIN s2c', s2c'[k].ev = "global", s2c'[k].output = o PROVE FALSE
    OBVIOUS
  <2>1. s2c[k + 1] \in Traffic /\ s2c[k + 1].ev = "global" /\ s2c[k + 1].output = o /\ k + 1 \in DOMAIN s2c
    BY <1>9
  <2>2. s2c[k + 1] = Event("global", o)
    BY <2>1 DEF Traffic, Event
  <2> QED
    BY <1>8, <1>9, <2>1, <2>2
<1>11. BoundOnce'
  <2>1. \A i, j \in DOMAIN outputs_' : outputs_'[i].output = outputs_'[j].output => i = j
    BY <1>6, <1>8 DEF IInv, BoundOnce
  <2>2. \A i \in DOMAIN outputs_' : outputs_'[i].output \in plug
    BY <1>6, <1>8 DEF IInv, BoundOnce
  <2>3. ASSUME NEW k \in DOMAIN s2c', s2c'[k].ev = "global"
        PROVE  /\ s2c'[k].output \in plug
               /\ \A i \in DOMAIN outputs_' : outputs_'[i].output # s2c'[k].output
               /\ \A l \in DOMAIN s2c' : s2c'[l] = s2c'[k] => l = k
    <3>1. k + 1 \in DOMAIN s2c /\ s2c'[k] = s2c[k + 1] /\ s2c[k + 1].ev = "global" /\ k \in Nat
      BY <1>9, <2>3
    <3>2. /\ s2c[k + 1].output \in plug
          /\ \A i \in DOMAIN outputs_ : outputs_[i].output # s2c[k + 1].output
          /\ \A l \in DOMAIN s2c : s2c[l] = s2c[k + 1] => l = k + 1
      BY <3>1 DEF IInv, BoundOnce
    <3>3. s2c'[k].output # o
      BY <1>10, <2>3
    <3>4. \A i \in DOMAIN outputs_' : outputs_'[i].output # s2c'[k].output
      BY <1>6, <3>1, <3>2, <3>3
    <3>5. ASSUME NEW l \in DOMAIN s2c', s2c'[l] = s2c'[k] PROVE l = k
      <4>1. l + 1 \in DOMAIN s2c /\ s2c[l + 1] = s2c[k + 1] /\ l \in Nat
        BY <1>9, <3>1, <3>5
      <4>2. l + 1 = k + 1
        BY <3>2, <4>1
      <4> QED
        BY <3>1, <4>1, <4>2
    <3> QED
      BY <3>1, <3>2, <3>4, <3>5
  <2> QED
    BY <2>1, <2>2, <2>3 DEF BoundOnce
<1>12. Taking /\ Taking' /\ Walking /\ Walking' /\ (Copying' <=> Copying)
  BY ReturnPlaces
<1>13. Pictures'
  <2>1. capture'.ready => copied = frame
    BY <1>1 DEF IInv, Pictures
  <2> QED
    BY <1>6, <1>12, <2>1, PicturesStand
<1>14. Typed /\ OneFrame
  BY DEF IInv
<1>15. /\ capture' \in Captures /\ capture'.buf = capture.buf
       /\ heard' \subseteq {frame} /\ heard' \subseteq Outputs /\ dangling' \in BOOLEAN
  BY <1>1, <1>14 DEF Typed, OneFrame
<1>16. s2c' \in Seq(Traffic)
  BY FirstEvent
<1> QED
  BY <1>4, <1>6, <1>11, <1>12, <1>13, <1>14, <1>15, <1>16, WalkStands DEF Typed, OneFrame, R

LEMMA GeometryPreserves ==
    ASSUME IInv, InRoundtrip, s2c # <<>>, NEW o, s2c' = Tail(s2c), handle_output_geometry(o),
           UNCHANGED <<pc, sync, it, last, frame, alive, shots, link, plug, stage, copied, skipped, fdVars, lockVars>>
    PROVE  IInv'
<1>1. /\ outputs_' = [i \in DOMAIN outputs_ |->
             IF outputs_[i].output = o THEN [outputs_[i] EXCEPT !.sized = TRUE] ELSE outputs_[i]]
      /\ UNCHANGED <<capture, dangling, heard>>
  BY DEF handle_output_geometry
<1>2. outputs_ \in Seq([output : Outputs, sized : BOOLEAN])
  BY DEF IInv, Typed
<1>3. /\ Len(outputs_) \in Nat /\ DOMAIN outputs_ = 1..Len(outputs_)
      /\ \A i \in DOMAIN outputs_ : outputs_[i] \in [output : Outputs, sized : BOOLEAN]
  BY <1>2, Places1ToLen
<1>4. /\ DOMAIN outputs_' = DOMAIN outputs_
      /\ \A i \in DOMAIN outputs_ : /\ outputs_'[i].output = outputs_[i].output
                                    /\ outputs_'[i] \in [output : Outputs, sized : BOOLEAN]
  BY <1>1, <1>3
<1>5. outputs_' \in Seq([output : Outputs, sized : BOOLEAN])
  <2> DEFINE R == [output : Outputs, sized : BOOLEAN]
  <2>1. \A i \in DOMAIN outputs_ : outputs_'[i] \in R
    BY <1>4
  <2> HIDE DEF R
  <2>2. outputs_' \in [1..Len(outputs_) -> R]
    BY <1>1, <1>3, <2>1
  <2>3. outputs_' \in Seq(R)
    BY <1>3, <2>2, SeqDef
  <2> QED
    BY <2>3 DEF R
<1>6. Taking /\ Taking' /\ Walking /\ Walking' /\ (Copying' <=> Copying)
  BY ReturnPlaces
<1>7. BoundOnce'
  BY <1>4, EventTaken
<1>8. Pictures'
  <2>1. capture'.ready => copied = frame
    BY <1>1 DEF IInv, Pictures
  <2> QED
    BY <1>4, <1>6, <2>1, PicturesStand
<1>9. s2c' \in Seq(Traffic) /\ Typed /\ OneFrame
  BY FirstEvent DEF IInv
<1> QED
  BY <1>1, <1>4, <1>5, <1>6, <1>7, <1>8, <1>9, WalkStands DEF Typed, OneFrame

\* A listener of a frame: what it notes is for the frame being taken.
LEMMA FramePreserves ==
    ASSUME IInv, InRoundtrip, s2c # <<>>, s2c' = Tail(s2c), handle_frame(s2c[1]),
           s2c[1].ev \in {"buffer", "ready", "failed"}, s2c[1].output \in Outputs,
           UNCHANGED <<pc, sync, it, last, frame, alive, shots, link, plug, stage, copied, skipped, fdVars, lockVars>>
    PROVE  IInv'
<1>1. Taking /\ Taking' /\ Walking /\ Walking' /\ (Copying' <=> Copying)
  BY ReturnPlaces
<1>2. Typed /\ OneFrame /\ capture \in Captures
  BY DEF IInv, Typed
<1>3. 1 \in DOMAIN s2c
  BY FirstEvent
<1>4. /\ capture' \in Captures /\ capture'.buf = capture.buf
      /\ heard' \subseteq {frame} /\ heard' \subseteq Outputs
      /\ capture'.ready => copied = frame
      /\ UNCHANGED <<outputs_, dangling>>
  <2>1. capture.ready => copied = frame
    BY DEF IInv, Pictures
  <2>2. CASE s2c[1].output \in alive
    <3>1. s2c[1].output = frame /\ heard' = heard \cup {s2c[1].output}
      BY <1>2, <2>2 DEF OneFrame, handle_frame
    <3>2. heard' \subseteq {frame} /\ heard' \subseteq Outputs
      BY <1>2, <3>1 DEF Typed, OneFrame
    <3>3. CASE s2c[1].ev = "buffer"
      <4>1. capture' = [capture EXCEPT !.width = TRUE]
        BY <2>2, <3>3 DEF handle_frame
      <4> QED
        BY <1>2, <2>1, <3>2, <4>1 DEF Captures, handle_frame
    <3>4. CASE s2c[1].ev = "ready"
      <4>1. capture' = [capture EXCEPT !.ready = TRUE]
        BY <2>2, <3>4 DEF handle_frame
      <4>2. copied = frame
        BY <1>1, <1>3, <3>1, <3>4 DEF IInv, Pictures
      <4> QED
        BY <1>2, <3>2, <4>1, <4>2 DEF Captures, handle_frame
    <3>5. CASE s2c[1].ev = "failed"
      <4>1. capture' = [capture EXCEPT !.failed = TRUE]
        BY <2>2, <3>5 DEF handle_frame
      <4> QED
        BY <1>2, <2>1, <3>2, <4>1 DEF Captures, handle_frame
    <3> QED
      BY <3>3, <3>4, <3>5
  <2>3. CASE s2c[1].output \notin alive
    BY <1>2, <2>1, <2>3 DEF handle_frame, Typed, OneFrame
  <2> QED
    BY <2>2, <2>3
<1>5. BoundOnce'
  BY <1>4, EventTaken
<1>6. Pictures'
  BY <1>1, <1>4, PicturesStand
<1>7. s2c' \in Seq(Traffic)
  BY FirstEvent
<1>8. \A i \in DOMAIN outputs_ : i \in DOMAIN outputs_' /\ outputs_'[i].output = outputs_[i].output
  BY <1>4
<1> QED
  BY <1>1, <1>2, <1>4, <1>5, <1>6, <1>7, <1>8, WalkStands DEF Typed, OneFrame

LEMMA DonePreserves ==
    ASSUME IInv, InRoundtrip, s2c # <<>>, s2c' = Tail(s2c), Return, sync' = FALSE,
           UNCHANGED <<capture, outputs_, dangling, heard, it, last, frame, alive, shots, link, plug, stage, copied,
                       skipped, fdVars, lockVars>>
    PROVE  IInv'
<1>1. pc' \in Places /\ Taking /\ Taking' /\ Walking /\ Walking' /\ (Copying' <=> Copying)
  BY ReturnPlaces
<1>2. BoundOnce'
  BY EventTaken
<1>3. Pictures'
  <2>1. capture'.ready => copied = frame
    BY DEF IInv, Pictures
  <2> QED
    BY <1>1, <2>1, PicturesStand
<1>4. s2c' \in Seq(Traffic) /\ Typed /\ OneFrame
  BY FirstEvent DEF IInv
<1>5. \A i \in DOMAIN outputs_ : i \in DOMAIN outputs_' /\ outputs_'[i].output = outputs_[i].output
  OBVIOUS
<1> QED
  BY <1>1, <1>2, <1>3, <1>4, <1>5, WalkStands DEF Typed, OneFrame

LEMMA DispatchEventPreserves ==
    ASSUME IInv, DispatchEvent, UNCHANGED lockVars
    PROVE  IInv'
<1>1. /\ InRoundtrip /\ s2c # <<>> /\ s2c' = Tail(s2c)
      /\ UNCHANGED <<it, last, frame, alive, shots, link, plug, stage, copied, skipped, fdVars>>
  BY DEF DispatchEvent, compVars
<1>2. Head(s2c) = s2c[1] /\ s2c[1] \in Traffic
  BY <1>1, FirstEvent
<1>3. \/ s2c[1].ev \in {"global", "geometry", "buffer", "ready", "failed"} /\ s2c[1].output \in Outputs
      \/ s2c[1].ev = "done"
  BY <1>2 DEF Traffic, Event
<1>4. CASE s2c[1].ev = "global"
  <2>1. s2c[1] = Event("global", s2c[1].output)
    BY <1>2, <1>4 DEF Traffic, Event
  <2>2. handle_registry_global(s2c[1].output) /\ UNCHANGED <<pc, sync>>
    BY <1>2, <1>4 DEF DispatchEvent
  <2> QED
    BY <1>1, <1>3, <1>4, <2>1, <2>2, GlobalPreserves
<1>5. CASE s2c[1].ev = "geometry"
  <2>1. handle_output_geometry(s2c[1].output) /\ UNCHANGED <<pc, sync>>
    BY <1>2, <1>5 DEF DispatchEvent
  <2> QED
    BY <1>1, <2>1, GeometryPreserves
<1>6. CASE s2c[1].ev = "done"
  <2>1. Return /\ sync' = FALSE /\ UNCHANGED <<capture, outputs_, dangling, heard>>
    BY <1>2, <1>6 DEF DispatchEvent
  <2> QED
    BY <1>1, <2>1, DonePreserves
<1>7. CASE s2c[1].ev \in {"buffer", "ready", "failed"}
  <2>1. handle_frame(s2c[1]) /\ UNCHANGED <<pc, sync>>
    BY <1>2, <1>7 DEF DispatchEvent
  <2> QED
    BY <1>1, <1>3, <1>7, <2>1, FramePreserves
<1> QED
  BY <1>3, <1>4, <1>5, <1>6, <1>7

LEMMA RoundtripFailsPreserves ==
    ASSUME IInv, RoundtripFails, UNCHANGED lockVars
    PROVE  IInv'
<1>1. pc' \in Places /\ Taking /\ Taking' /\ Walking /\ Walking' /\ (Copying' <=> Copying)
  BY ReturnPlaces DEF RoundtripFails
<1>2. link' \in {"up", "lost"}
  BY DEF RoundtripFails, IInv, Typed
<1> QED
  BY <1>1, <1>2, OnlyThePlace DEF RoundtripFails

-----------------------------------------------------------------------------
(* The compositor *)

\* An event sent that announces no output
LEMMA EventSent ==
    ASSUME IInv, NEW e \in Traffic, e.ev # "global", s2c' = Append(s2c, e), UNCHANGED <<outputs_, plug>>
    PROVE  /\ s2c' \in Seq(Traffic) /\ BoundOnce'
           /\ \A k \in DOMAIN s2c' : (k \in DOMAIN s2c /\ s2c'[k] = s2c[k]) \/ s2c'[k] = e
<1>1. s2c \in Seq(Traffic)
  BY DEF IInv, Typed
<1>2. /\ s2c' \in Seq(Traffic) /\ DOMAIN s2c' = 1..(Len(s2c) + 1)
      /\ \A k \in DOMAIN s2c : s2c'[k] = s2c[k]
      /\ s2c'[Len(s2c) + 1] = e
  BY <1>1, OneMore
<1>3. Len(s2c) \in Nat /\ DOMAIN s2c = 1..Len(s2c)
  BY <1>1, Places1ToLen
<1>4. \A k \in DOMAIN s2c' : (k \in DOMAIN s2c /\ s2c'[k] = s2c[k]) \/ s2c'[k] = e
  BY <1>2, <1>3
<1>5. ASSUME NEW k \in DOMAIN s2c', s2c'[k].ev = "global"
      PROVE  /\ s2c'[k].output \in plug'
             /\ \A i \in DOMAIN outputs_' : outputs_'[i].output # s2c'[k].output
             /\ \A l \in DOMAIN s2c' : s2c'[l] = s2c'[k] => l = k
  <2>1. k \in DOMAIN s2c /\ s2c'[k] = s2c[k] /\ s2c[k].ev = "global"
    BY <1>4, <1>5
  <2>2. /\ s2c[k].output \in plug
        /\ \A i \in DOMAIN outputs_ : outputs_[i].output # s2c[k].output
        /\ \A l \in DOMAIN s2c : s2c[l] = s2c[k] => l = k
    BY <2>1 DEF IInv, BoundOnce
  <2> QED
    BY <1>4, <2>1, <2>2
<1>6. BoundOnce'
  BY <1>5 DEF IInv, BoundOnce
<1> QED
  BY <1>2, <1>4, <1>6

\* While the client captures, the walk is on; and a frame that is served is the
\* one being taken.
LEMMA CapturingWalks == Capturing => Walking
BY DEF Capturing, Places, Walking, Taking, Copying

LEMMA ServedIsTaken ==
    ASSUME IInv, NEW o \in Outputs, stage[o] # "none"
    PROVE  Taking /\ o = frame /\ it \in Begun /\ outputs_[it].output = o
<1>1. o = frame
  BY DEF IInv, OneFrame
<1>2. Taking
  BY <1>1, CaptureAssumption DEF IInv, InStep
<1>3. it \in 1..(last + 1) /\ last \in Int /\ outputs_[it].output = frame
  <2>1. Len(outputs_) \in Nat
    BY Listed DEF IInv
  <2> QED
    BY <1>2, <2>1 DEF IInv, InStep
<1> QED
  BY <1>1, <1>2, <1>3 DEF Begun

LEMMA SendDonePreserves ==
    ASSUME IInv, SendDone, UNCHANGED lockVars
    PROVE  IInv'
<1>1. /\ s2c' = Append(s2c, Event("done", None))
      /\ UNCHANGED <<pc, outputs_, it, last, capture, frame, alive, dangling, shots, sync, link, plug, stage, copied,
                     heard, skipped, fdVars>>
  BY DEF SendDone, walkVars, compVars
<1>2. Event("done", None) \in Traffic /\ Event("done", None).ev = "done"
  BY DEF Traffic, Event
<1>3. /\ s2c' \in Seq(Traffic) /\ BoundOnce'
      /\ \A k \in DOMAIN s2c' : (k \in DOMAIN s2c /\ s2c'[k] = s2c[k]) \/ s2c'[k].ev = "done"
  BY <1>1, <1>2, EventSent
<1>4. (Walking' <=> Walking) /\ (Taking' <=> Taking) /\ (Copying' <=> Copying) /\ Begun' = Begun
  BY <1>1 DEF Walking, Taking, Copying, Begun
<1>5. Pictures'
  <2>1. capture'.ready => copied' = frame'
    BY <1>1 DEF IInv, Pictures
  <2>2. ASSUME Walking', NEW k \in DOMAIN s2c', s2c'[k].ev = "ready"
        PROVE  /\ \E i \in Begun' : outputs_'[i].output = s2c'[k].output
               /\ s2c'[k].output = frame' => copied' = frame'
    <3>1. Walking /\ k \in DOMAIN s2c /\ s2c'[k] = s2c[k]
      BY <1>3, <1>4, <2>2
    <3> QED
      BY <1>1, <1>4, <2>2, <3>1 DEF IInv, Pictures
  <2> QED
    BY <2>1, <2>2 DEF Pictures
<1>6. Typed /\ OneFrame
  BY DEF IInv
<1>7. \A i \in DOMAIN outputs_ : i \in DOMAIN outputs_' /\ outputs_'[i].output = outputs_[i].output
  BY <1>1
<1>8. Walking
  BY DEF SendDone, InRoundtrip, Walking, Taking, Copying
<1> QED
  BY <1>1, <1>3, <1>4, <1>5, <1>6, <1>7, <1>8, WalkStands DEF Typed, OneFrame

LEMMA ServeFramePreserves ==
    ASSUME IInv, NEW o \in Outputs, ServeFrame(o), UNCHANGED lockVars
    PROVE  IInv'
<1>1. /\ Walking /\ stage[o] # "none"
      /\ UNCHANGED <<pc, outputs_, it, last, capture, frame, alive, dangling, shots, sync, link, plug, heard, skipped,
                     fdVars>>
  BY CapturingWalks DEF ServeFrame, walkVars
<1>2. Taking /\ o = frame /\ it \in Begun /\ outputs_[it].output = o
  BY <1>1, ServedIsTaken
<1>3. PICK ev \in {"buffer", "ready", "failed"}, to \in {"offered", "over"} :
         /\ stage' = [stage EXCEPT ![o] = to] /\ s2c' = Append(s2c, Event(ev, o))
         /\ copied' = IF ev = "ready" THEN o ELSE copied
  BY <1>2 DEF ServeFrame
<1>4. Event(ev, o) \in Traffic /\ Event(ev, o).ev = ev /\ Event(ev, o).output = o /\ ev # "global"
  BY DEF Traffic, Event
<1>5. /\ s2c' \in Seq(Traffic) /\ BoundOnce'
      /\ \A k \in DOMAIN s2c' : (k \in DOMAIN s2c /\ s2c'[k] = s2c[k]) \/ s2c'[k] = Event(ev, o)
  BY <1>1, <1>3, <1>4, EventSent
<1>6. (Walking' <=> Walking) /\ (Taking' <=> Taking) /\ (Copying' <=> Copying) /\ Begun' = Begun
  BY <1>1 DEF Walking, Taking, Copying, Begun
<1>7. copied = frame => copied' = frame
  BY <1>2, <1>3
<1>8. Pictures'
  <2>1. capture'.ready => copied' = frame'
    BY <1>1, <1>7 DEF IInv, Pictures
  <2>2. ASSUME NEW k \in DOMAIN s2c', s2c'[k].ev = "ready"
        PROVE  /\ \E i \in Begun' : outputs_'[i].output = s2c'[k].output
               /\ s2c'[k].output = frame' => copied' = frame'
    <3>1. CASE k \in DOMAIN s2c /\ s2c'[k] = s2c[k]
      <4>1. /\ \E i \in Begun : outputs_[i].output = s2c[k].output
            /\ s2c[k].output = frame => copied = frame
        BY <1>1, <2>2, <3>1 DEF IInv, Pictures
      <4> QED
        BY <1>1, <1>6, <1>7, <3>1, <4>1
    <3>2. CASE s2c'[k] = Event(ev, o)
      BY <1>1, <1>2, <1>3, <1>4, <1>6, <2>2, <3>2
    <3> QED
      BY <1>5, <3>1, <3>2
  <2> QED
    BY <2>1, <2>2 DEF Pictures
<1>9. Typed /\ OneFrame
  BY DEF IInv
<1>10. /\ stage' \in [Outputs -> {"none", "asked", "offered", "copying", "over"}]
       /\ \A p \in Outputs : stage'[p] # "none" => p = frame
       /\ copied' \in Outputs \cup {None}
  BY <1>2, <1>3, <1>9 DEF Typed, OneFrame
<1>11. \A i \in DOMAIN outputs_ : i \in DOMAIN outputs_' /\ outputs_'[i].output = outputs_[i].output
  BY <1>1
<1> QED
  BY <1>1, <1>2, <1>5, <1>6, <1>8, <1>9, <1>10, <1>11, WalkStands DEF Typed, OneFrame

\* The two events of a display that is plugged in
LEMMA PluggedIn ==
    ASSUME IInv, NEW o \in Outputs, s2c' = s2c \o <<Event("global", o), Event("geometry", o)>>
    PROVE  /\ s2c' \in Seq(Traffic)
           /\ \A k \in DOMAIN s2c' :
                \/ k \in DOMAIN s2c /\ s2c'[k] = s2c[k]
                \/ k = Len(s2c) + 1 /\ s2c'[k] = Event("global", o)
                \/ s2c'[k] = Event("geometry", o)
<1> DEFINE a == Event("global", o)
           b == Event("geometry", o)
<1>1. s2c \in Seq(Traffic) /\ a \in Traffic /\ b \in Traffic
  BY DEF IInv, Typed, Traffic, Event
<1> HIDE DEF a, b
<1>2. <<a, b>> \in Seq(Traffic) /\ Len(<<a, b>>) = 2 /\ <<a, b>>[1] = a /\ <<a, b>>[2] = b
  BY <1>1
<1>3. /\ s2c' \in Seq(Traffic) /\ Len(s2c') = Len(s2c) + 2
      /\ \A k \in 1..(Len(s2c) + 2) :
           s2c'[k] = IF k <= Len(s2c) THEN s2c[k] ELSE <<a, b>>[k - Len(s2c)]
  <2> DEFINE t == <<a, b>>
  <2>1. s2c' = s2c \o t /\ t \in Seq(Traffic) /\ Len(t) = 2
    BY <1>2 DEF a, b
  <2> HIDE DEF t
  <2>2. /\ s2c' \in Seq(Traffic) /\ Len(s2c') = Len(s2c) + 2
        /\ \A k \in 1..(Len(s2c) + 2) : s2c'[k] = IF k <= Len(s2c) THEN s2c[k] ELSE t[k - Len(s2c)]
    BY <1>1, <2>1, ConcatProperties
  <2> QED
    BY <2>2 DEF t
<1>4. Len(s2c) \in Nat /\ DOMAIN s2c = 1..Len(s2c) /\ DOMAIN s2c' = 1..Len(s2c')
  BY <1>1, <1>3, LenProperties
<1>5. ASSUME NEW k \in DOMAIN s2c'
      PROVE  (k \in DOMAIN s2c /\ s2c'[k] = s2c[k]) \/ (k = Len(s2c) + 1 /\ s2c'[k] = a) \/ s2c'[k] = b
  <2>0. k \in 1..(Len(s2c) + 2)
    BY <1>3, <1>4
  <2>1. CASE k <= Len(s2c)
    BY <1>3, <1>4, <2>0, <2>1
  <2>2. CASE k = Len(s2c) + 1
    <3>1. s2c'[k] = <<a, b>>[k - Len(s2c)] /\ k - Len(s2c) = 1
      BY <1>3, <1>4, <2>0, <2>2
    <3> QED
      BY <1>2, <2>2, <3>1
  <2>3. CASE k = Len(s2c) + 2
    <3>1. s2c'[k] = <<a, b>>[k - Len(s2c)] /\ k - Len(s2c) = 2
      BY <1>3, <1>4, <2>0, <2>3
    <3> QED
      BY <1>2, <3>1
  <2> QED
    BY <1>4, <2>0, <2>1, <2>2, <2>3
<1> QED
  BY <1>3, <1>5 DEF a, b

LEMMA PlugInPreserves ==
    ASSUME IInv, NEW o \in Outputs, PlugIn(o), UNCHANGED lockVars
    PROVE  IInv'
<1>1. /\ Walking /\ o \notin plug /\ plug' = plug \cup {o}
      /\ s2c' = s2c \o <<Event("global", o), Event("geometry", o)>>
      /\ UNCHANGED <<pc, outputs_, it, last, capture, frame, alive, dangling, shots, sync, link, stage, copied, heard,
                     skipped, fdVars>>
  BY CapturingWalks DEF PlugIn, walkVars
<1>2. /\ s2c' \in Seq(Traffic)
      /\ \A k \in DOMAIN s2c' :
           \/ k \in DOMAIN s2c /\ s2c'[k] = s2c[k]
           \/ k = Len(s2c) + 1 /\ s2c'[k] = Event("global", o)
           \/ s2c'[k] = Event("geometry", o)
  BY <1>1, PluggedIn
<1>3. /\ Event("global", o).ev = "global" /\ Event("global", o).output = o
      /\ Event("geometry", o).ev = "geometry"
  BY DEF Event
<1>4. BoundOnce'
  <2>1. \A i, j \in DOMAIN outputs_' : outputs_'[i].output = outputs_'[j].output => i = j
    BY <1>1 DEF IInv, BoundOnce
  <2>2. \A i \in DOMAIN outputs_ : outputs_[i].output \in plug
    BY DEF IInv, BoundOnce
  <2>3. ASSUME NEW k \in DOMAIN s2c', s2c'[k].ev = "global"
        PROVE  /\ s2c'[k].output \in plug'
               /\ \A i \in DOMAIN outputs_' : outputs_'[i].output # s2c'[k].output
               /\ \A l \in DOMAIN s2c' : s2c'[l] = s2c'[k] => l = k
    <3>1. CASE k \in DOMAIN s2c /\ s2c'[k] = s2c[k]
      <4>1. /\ s2c[k].output \in plug
            /\ \A i \in DOMAIN outputs_ : outputs_[i].output # s2c[k].output
            /\ \A l \in DOMAIN s2c : s2c[l] = s2c[k] => l = k
        BY <2>3, <3>1 DEF IInv, BoundOnce
      <4>2. s2c[k] # Event("global", o) /\ s2c[k] # Event("geometry", o)
        BY <1>1, <1>3, <2>3, <3>1, <4>1
      <4>3. \A l \in DOMAIN s2c' : s2c'[l] = s2c'[k] => l = k
        BY <1>2, <3>1, <4>1, <4>2
      <4> QED
        BY <1>1, <3>1, <4>1, <4>3
    <3>2. CASE k = Len(s2c) + 1 /\ s2c'[k] = Event("global", o)
      <4>1. ASSUME NEW l \in DOMAIN s2c', s2c'[l] = s2c'[k] PROVE l = k
        <5>1. s2c'[l].ev = "global" /\ s2c'[l].output = o
          BY <1>3, <3>2, <4>1
        <5>2. ~(l \in DOMAIN s2c /\ s2c'[l] = s2c[l])
          BY <1>1, <5>1 DEF IInv, BoundOnce
        <5>3. s2c'[l] # Event("geometry", o)
          BY <1>3, <5>1
        <5> QED
          BY <1>2, <3>2, <5>2, <5>3
      <4>2. s2c'[k].output = o
        BY <1>3, <3>2
      <4> QED
        BY <1>1, <2>2, <4>1, <4>2
    <3>3. s2c'[k] # Event("geometry", o)
      BY <1>3, <2>3
    <3> QED
      BY <1>2, <3>1, <3>2, <3>3
  <2>4. \A i \in DOMAIN outputs_' : outputs_'[i].output \in plug'
    BY <1>1, <2>2
  <2> QED
    BY <2>1, <2>3, <2>4 DEF BoundOnce
<1>5. (Walking' <=> Walking) /\ (Taking' <=> Taking) /\ (Copying' <=> Copying) /\ Begun' = Begun
  BY <1>1 DEF Walking, Taking, Copying, Begun
<1>6. Pictures'
  <2>1. capture'.ready => copied' = frame'
    BY <1>1 DEF IInv, Pictures
  <2>2. ASSUME NEW k \in DOMAIN s2c', s2c'[k].ev = "ready"
        PROVE  /\ \E i \in Begun' : outputs_'[i].output = s2c'[k].output
               /\ s2c'[k].output = frame' => copied' = frame'
    <3>1. k \in DOMAIN s2c /\ s2c'[k] = s2c[k]
      BY <1>2, <1>3, <2>2
    <3> QED
      BY <1>1, <1>5, <2>2, <3>1 DEF IInv, Pictures
  <2> QED
    BY <2>1, <2>2 DEF Pictures
<1>7. Typed /\ OneFrame
  BY DEF IInv
<1>8. \A i \in DOMAIN outputs_ : i \in DOMAIN outputs_' /\ outputs_'[i].output = outputs_[i].output
  BY <1>1
<1>9. plug' \subseteq Outputs
  BY <1>1, <1>7 DEF Typed
<1> QED
  BY <1>1, <1>2, <1>4, <1>5, <1>6, <1>7, <1>8, <1>9, WalkStands DEF Typed, OneFrame

LEMMA CutOffPreserves ==
    ASSUME IInv, CutOff, UNCHANGED lockVars
    PROVE  IInv'
<1>1. pc' = pc /\ pc \in Places /\ link' = "lost" /\ sync' = sync /\ sync \in BOOLEAN
  BY DEF CutOff, IInv, Typed
<1>2. (Walking' <=> Walking) /\ (Taking' <=> Taking) /\ (Copying' <=> Copying)
  BY <1>1 DEF Walking, Taking, Copying
<1> QED
  BY <1>1, <1>2, OnlyThePlace DEF CutOff

LEMMA StutteringPreserves == ASSUME IInv, UNCHANGED vars PROVE IInv'
<1>1. pc' = pc /\ pc \in Places /\ link' = link /\ link \in {"up", "lost"} /\ sync' = sync /\ sync \in BOOLEAN
  BY DEF vars, captureVars, IInv, Typed
<1>2. (Walking' <=> Walking) /\ (Taking' <=> Taking) /\ (Copying' <=> Copying)
  BY <1>1 DEF Walking, Taking, Copying
<1> QED
  BY <1>1, <1>2, OnlyThePlace DEF vars, captureVars

-----------------------------------------------------------------------------
(* The walk *)

\* Where an iteration may end or begin, and what nothing in it disturbs
LEMMA InTheWalk ==
    ASSUME IInv, Walking, it <= last
    PROVE  /\ it \in DOMAIN outputs_ /\ it \in Nat /\ it >= 1 /\ last \in Nat
           /\ outputs_[it].output \in Outputs /\ last <= Len(outputs_) /\ Len(outputs_) \in Nat
           /\ (Taking => frame = outputs_[it].output)
           /\ Begun \subseteq 1..it
<1>1. Len(outputs_) \in Nat /\ DOMAIN outputs_ = 1..Len(outputs_)
      /\ \A i \in DOMAIN outputs_ : outputs_[i].output \in Outputs
  BY Listed DEF IInv
<1>2. last \in 0..Len(outputs_) /\ it \in 1..(last + 1) /\ (Taking => frame = outputs_[it].output)
  BY DEF IInv, InStep
<1>3. it \in DOMAIN outputs_ /\ it \in Nat /\ it >= 1 /\ last \in Nat /\ last <= Len(outputs_)
  BY <1>1, <1>2
<1>4. Begun \subseteq 1..it
  BY <1>3 DEF Begun
<1> QED
  BY <1>1, <1>2, <1>3, <1>4

\* An iteration ends, with the screenshot of its output or without one.
LEMMA IterationEnds ==
    ASSUME IInv, Walking, it <= last, EndIteration, DestroyFrame,
           \/ shots' = shots /\ skipped' = skipped \cup {it}
           \/ Taking /\ shots' = Append(shots, frame) /\ skipped' = skipped,
           FdsTypeOK', ~harmed', \A f \in Fds : owner'[f] # "client", UNCHANGED lockVars
    PROVE  IInv'
<1>1. /\ it' = it + 1 /\ pc' = "outputs" /\ capture' = NoCapture /\ frame' = None /\ copied' = None /\ heard' = {}
      /\ UNCHANGED <<outputs_, last, dangling, sync, s2c, link, plug>>
      /\ alive' = alive \ {frame} /\ stage' = [o \in Outputs |-> IF o = frame THEN "none" ELSE stage[o]]
  BY DEF EndIteration, DestroyFrame
<1>2. /\ it \in DOMAIN outputs_ /\ it \in Nat /\ it >= 1 /\ last \in Nat
      /\ outputs_[it].output \in Outputs /\ last <= Len(outputs_) /\ Len(outputs_) \in Nat
      /\ (Taking => frame = outputs_[it].output) /\ Begun \subseteq 1..it
  BY InTheWalk
<1>3. ~Taking' /\ ~Copying' /\ Walking' /\ Begun' = 1..it
  BY <1>1, <1>2 DEF Taking, Copying, Walking, Begun
<1>4. Typed /\ OneFrame /\ shots \in Seq(Outputs)
  BY DEF IInv, Typed
<1>5. Len(shots) \in Nat /\ DOMAIN shots = 1..Len(shots)
  BY <1>4, Places1ToLen
<1>6. Taking => /\ Append(shots, frame) \in Seq(Outputs)
                /\ DOMAIN Append(shots, frame) = 1..(Len(shots) + 1)
                /\ Len(Append(shots, frame)) = Len(shots) + 1
                /\ \A i \in DOMAIN shots : Append(shots, frame)[i] = shots[i]
                /\ Append(shots, frame)[Len(shots) + 1] = frame
  BY <1>2, <1>4, OneMore
<1>7. Typed'
  <2>1. capture' \in Captures
    BY <1>1 DEF Captures, NoCapture, NoBuffer, Buffers
  <2>2. shots' \in Seq(Outputs) /\ skipped' \subseteq Nat
    BY <1>2, <1>4, <1>6 DEF Typed
  <2>3. alive' \subseteq Outputs /\ stage' \in [Outputs -> {"none", "asked", "offered", "copying", "over"}]
    BY <1>1, <1>4 DEF Typed
  <2>4. heard' \subseteq Outputs /\ frame' \in Outputs \cup {None} /\ copied' \in Outputs \cup {None}
        /\ pc' \in Places
    BY <1>1 DEF Places
  <2> QED
    BY <1>1, <1>4, <2>1, <2>2, <2>3, <2>4 DEF Typed
<1>8. InStep'
  BY <1>1, <1>2, <1>3 DEF InStep
<1>9. BufferHeld'
  BY <1>1, <1>3 DEF BufferHeld, NoCapture
<1>10. OneFrame'
  BY <1>1, <1>4 DEF OneFrame
<1>11. BoundOnce'
  BY <1>1 DEF IInv, BoundOnce
<1>12. Pictures'
  <2>1. ~capture'.ready
    BY <1>1 DEF NoCapture
  <2>2. \A k \in DOMAIN s2c : s2c[k] \in Traffic
    BY Listed DEF IInv
  <2>3. ASSUME NEW k \in DOMAIN s2c', s2c'[k].ev = "ready"
        PROVE  /\ \E i \in Begun' : outputs_'[i].output = s2c'[k].output
               /\ s2c'[k].output # frame'
    <3>1. \E i \in Begun : outputs_[i].output = s2c[k].output
      BY <1>1, <2>3 DEF IInv, Pictures
    <3>2. s2c[k].output \in Outputs
      BY <1>1, <2>2, <2>3 DEF Traffic, Event
    <3> QED
      BY <1>1, <1>2, <1>3, <3>1, <3>2, CaptureAssumption
  <2> QED
    BY <2>1, <2>3 DEF Pictures
<1>13. ShotsAlign'
  <2> PICK n \in Nat : n = it
    BY <1>2
  <2>1. \A i : Unbroken(i)' => Unbroken(i)
    BY DEF Unbroken
  <2>2. /\ Unbroken(n - 1) => Len(shots) = n - 1
        /\ \A i \in 1..(n - 1) : Unbroken(i) => i \in DOMAIN shots /\ shots[i] = outputs_[i].output
    BY DEF IInv, ShotsAlign
  <2>3. ASSUME NEW i \in 1..(n - 1), Unbroken(i)'
        PROVE  i \in DOMAIN shots' /\ shots'[i] = outputs_[i].output
    <3>1. Unbroken(i)
      BY <2>1, <2>3
    <3>2. i \in DOMAIN shots /\ shots[i] = outputs_[i].output
      BY <2>2, <3>1
    <3> QED
      BY <1>5, <1>6, <3>2
  <2>4. ASSUME Unbroken(n)'
        PROVE  Len(shots') = n /\ n \in DOMAIN shots' /\ shots'[n] = outputs_[n].output
    <3>1. n \in 1..n /\ \A j \in 1..n : j \notin skipped'
      BY <1>2, <2>4 DEF Unbroken
    <3>2. n \notin skipped' /\ Unbroken(n - 1)
      BY <1>2, <3>1 DEF Unbroken
    <3>3. Taking /\ shots' = Append(shots, frame)
      BY <3>2
    <3>4. Len(shots) + 1 = n
      BY <1>2, <2>2, <3>2
    <3>5. /\ DOMAIN shots' = 1..(Len(shots) + 1) /\ Len(shots') = Len(shots) + 1
          /\ shots'[Len(shots) + 1] = frame
      BY <1>6, <3>3, Zenon
    <3>6. frame = outputs_[n].output
      BY <1>2, <3>3
    <3> HIDE <1>6
    <3> QED
      BY <3>1, <3>4, <3>5, <3>6
  <2>5. it' - 1 = n
    BY <1>1, <1>2
  <2>6. \A i \in 1..n : Unbroken(i)' => i \in DOMAIN shots' /\ shots'[i] = outputs_[i].output
    BY <1>2, <2>3, <2>4
  <2> QED
    BY <1>1, <2>4, <2>5, <2>6 DEF ShotsAlign
<1>14. Drawn'
  <2>1. pc # "locked"
    BY DEF Walking, Taking, Copying
  <2> QED
    BY <1>1, <2>1 DEF IInv, Drawn, lockVars
<1> QED
  BY <1>7, <1>8, <1>9, <1>10, <1>11, <1>12, <1>13, <1>14, PartsAfter

\* continue, with no descriptor of the client's open
LEMMA SkipPreserves ==
    ASSUME IInv, Walking, ~Copying, it <= last, SkipOutput,
           owner' = owner, harmed' = harmed, unmapped' \in BOOLEAN, UNCHANGED lockVars
    PROVE  IInv'
<1>1. FdsTypeOK' /\ ~harmed' /\ \A f \in Fds : owner'[f] # "client"
  BY DEF IInv, BufferHeld, FdsTypeOK
<1> QED
  BY <1>1, IterationEnds DEF SkipOutput

LEMMA AskForFramePreserves ==
    ASSUME IInv, pc = "outputs", it <= last, AskForFrame(outputs_[it].output), UNCHANGED <<fdVars, lockVars>>
    PROVE  IInv'
<1> DEFINE o == outputs_[it].output
<1>1. /\ capture' = NoCapture /\ frame' = o /\ alive' = alive \cup {o} /\ pc' = "await_buffer"
      /\ stage' = [stage EXCEPT ![o] = "asked"]
      /\ UNCHANGED <<outputs_, it, last, dangling, shots, sync, s2c, link, plug, copied, heard, skipped>>
  BY DEF AskForFrame
<1>2. ~Taking /\ ~Copying /\ Walking /\ Taking' /\ ~Copying' /\ Walking'
  BY <1>1 DEF Taking, Copying, Walking
<1>3. /\ it \in DOMAIN outputs_ /\ it \in Nat /\ it >= 1 /\ last \in Nat /\ o \in Outputs
      /\ last <= Len(outputs_) /\ Len(outputs_) \in Nat /\ Begun = 1..(it - 1) /\ Begun' = 1..it
  BY <1>1, <1>2, InTheWalk DEF Begun
<1>4. Typed /\ OneFrame /\ frame = None /\ copied = None /\ heard = {}
  BY <1>2 DEF IInv, InStep
<1>5. DOMAIN outputs_ = 1..Len(outputs_)
  BY Listed DEF IInv
<1> HIDE DEF o
<1>6. alive = {} /\ \A p \in Outputs : stage[p] = "none"
  BY <1>4, CaptureAssumption DEF Typed, OneFrame
<1>7. Typed'
  <2>1. capture' \in Captures
    BY <1>1 DEF Captures, NoCapture, NoBuffer, Buffers
  <2>2. FdsTypeOK'
    BY DEF IInv, BufferHeld, FdsTypeOK, fdVars
  <2>3. alive' \subseteq Outputs /\ stage' \in [Outputs -> {"none", "asked", "offered", "copying", "over"}]
    BY <1>1, <1>3, <1>4 DEF Typed
  <2> QED
    BY <1>1, <1>3, <1>4, <2>1, <2>2, <2>3 DEF Typed, Places
<1>8. InStep'
  BY <1>1, <1>2, <1>3 DEF InStep, o
<1>9. BufferHeld'
  BY <1>1, <1>2 DEF IInv, BufferHeld, FdsTypeOK, fdVars, NoCapture
<1>10. OneFrame'
  BY <1>1, <1>4, <1>6 DEF OneFrame, Typed
<1>11. BoundOnce'
  BY <1>1 DEF IInv, BoundOnce
<1>12. Pictures'
  <2>1. ~capture'.ready
    BY <1>1 DEF NoCapture
  <2>2. ASSUME NEW k \in DOMAIN s2c, s2c[k].ev = "ready"
        PROVE  /\ \E i \in Begun' : outputs_[i].output = s2c[k].output
               /\ s2c[k].output # o
    <3>1. PICK i \in Begun : outputs_[i].output = s2c[k].output
      BY <1>2, <2>2 DEF IInv, Pictures
    <3>2. i \in DOMAIN outputs_ /\ i # it /\ i \in Begun'
      BY <1>3, <1>5
    <3>3. outputs_[i].output # outputs_[it].output
      BY <1>3, <3>2 DEF IInv, BoundOnce
    <3> QED
      BY <3>1, <3>2, <3>3 DEF o
  <2> QED
    BY <1>1, <2>1, <2>2 DEF Pictures
<1>13. ShotsAlign'
  BY <1>1, <1>2 DEF IInv, ShotsAlign, Unbroken
<1>14. Drawn'
  BY <1>1 DEF IInv, Drawn, lockVars
<1> QED
  BY <1>7, <1>8, <1>9, <1>10, <1>11, <1>12, <1>13, <1>14, PartsAfter

\* The walk's end: outputs appended meanwhile have no screenshot.
LEMMA WalkEnds ==
    ASSUME IInv, pc = "outputs", it > last, pc' = "captured", it' = 1, last' = 0, dangling' = FALSE,
           skipped' = skipped \cup ((last + 1)..Len(outputs_)),
           UNCHANGED <<outputs_, capture, frame, alive, shots, sync, s2c, link, compVars, copied, heard, fdVars, lockVars>>
    PROVE  IInv'
<1>1. UNCHANGED <<plug, stage, owner, unmapped, harmed, surfaces, backgrounds>>
  BY DEF compVars, fdVars, lockVars
<1>2. Walking /\ ~Taking /\ ~Copying /\ ~Walking' /\ ~Taking' /\ ~Copying'
  BY DEF Walking, Taking, Copying
<1>3. Len(outputs_) \in Nat /\ DOMAIN outputs_ = 1..Len(outputs_)
  BY Listed DEF IInv
<1>4. last \in 0..Len(outputs_) /\ it = last + 1
  BY <1>3 DEF IInv, InStep
<1>5. Typed'
  <2>1. (last + 1)..Len(outputs_) \subseteq Nat
    BY <1>3, <1>4
  <2>2. skipped' \subseteq Nat
    BY <2>1 DEF IInv, Typed
  <2> QED
    BY <1>1, <2>2 DEF IInv, Typed, Places, FdsTypeOK
<1>6. InStep'
  BY <1>2, <1>3 DEF IInv, InStep
<1>7. BufferHeld'
  BY <1>1, <1>2 DEF IInv, BufferHeld, FdsTypeOK
<1>8. OneFrame' /\ BoundOnce'
  BY <1>1 DEF IInv, OneFrame, BoundOnce
<1>9. Pictures'
  BY <1>2 DEF IInv, Pictures
<1>10. ShotsAlign'
  <2>1. ASSUME NEW i \in DOMAIN outputs_, \A j \in 1..i : j \notin skipped'
        PROVE  i \in DOMAIN shots /\ shots[i] = outputs_[i].output
    <3>1. i \in 1..i /\ i \notin (last + 1)..Len(outputs_)
      BY <1>3, <2>1
    <3>2. i \in 1..(it - 1)
      BY <1>3, <1>4, <3>1
    <3> QED
      BY <1>2, <2>1, <3>2 DEF IInv, ShotsAlign, Unbroken
  <2> QED
    BY <1>2, <2>1 DEF ShotsAlign, Unbroken
<1>11. Drawn'
  BY <1>1 DEF IInv, Drawn
<1> QED
  BY <1>5, <1>6, <1>7, <1>8, <1>9, <1>10, <1>11, PartsAfter

LEMMA CrashPreserves ==
    ASSUME IInv, pc = "outputs", pc' = "crashed", UNCHANGED <<captureVars, lockVars, fdVars>>
    PROVE  IInv'
<1>1. UNCHANGED <<outputs_, it, last, capture, frame, alive, dangling, shots, sync, s2c, link, plug, stage, copied,
                  heard, skipped, owner, unmapped, harmed, surfaces, backgrounds>>
  BY DEF captureVars, walkVars, compVars, fdVars, lockVars
<1>2. ~Taking /\ ~Copying /\ ~Walking' /\ ~Taking' /\ ~Copying'
  BY DEF Walking, Taking, Copying
<1>3. Typed' /\ InStep'
  BY <1>1, <1>2 DEF IInv, Typed, InStep, Places
<1>4. BufferHeld' /\ OneFrame' /\ BoundOnce'
  BY <1>1, <1>2 DEF IInv, BufferHeld, FdsTypeOK, OneFrame, BoundOnce
<1>5. Pictures' /\ ShotsAlign'
  BY <1>1, <1>2 DEF IInv, Pictures, ShotsAlign
<1>6. Drawn'
  BY <1>1 DEF IInv, Drawn
<1> QED
  BY <1>3, <1>4, <1>5, <1>6, PartsAfter

LEMMA NextOutputPreserves ==
    ASSUME IInv, NextOutput, UNCHANGED lockVars
    PROVE  IInv'
<1>1. pc = "outputs" /\ UNCHANGED fdVars /\ Walking /\ ~Copying
  BY DEF NextOutput, Walking, Copying
<1>2. CASE /\ it > last /\ pc' = "captured" /\ it' = 1 /\ last' = 0 /\ dangling' = FALSE
           /\ skipped' = skipped \cup ((last + 1)..Len(outputs_))
           /\ UNCHANGED <<outputs_, capture, frame, alive, shots, sync, s2c, link, compVars, copied, heard>>
  BY <1>1, <1>2, WalkEnds
<1>3. CASE it <= last /\ outputs_[it].sized /\ AskForFrame(outputs_[it].output)
  BY <1>1, <1>3, AskForFramePreserves
<1>4. CASE it <= last /\ (dangling \/ ~outputs_[it].sized) /\ SkipOutput
  <2>1. owner' = owner /\ harmed' = harmed /\ unmapped' \in BOOLEAN
    BY <1>1 DEF IInv, BufferHeld, FdsTypeOK, fdVars
  <2> QED
    BY <1>1, <1>4, <2>1, SkipPreserves
<1>5. CASE it <= last /\ dangling /\ pc' = "crashed" /\ UNCHANGED captureVars
  BY <1>1, <1>5, CrashPreserves
<1> QED
  BY <1>2, <1>3, <1>4, <1>5 DEF NextOutput

LEMMA NoScreenshotsPreserves ==
    ASSUME IInv, NoScreenshots, UNCHANGED lockVars
    PROVE  IInv'
<1>1. /\ pc = "connected" /\ pc' = "captured" /\ skipped' = DOMAIN outputs_
      /\ UNCHANGED <<outputs_, it, last, capture, frame, alive, dangling, shots, sync, s2c, link, plug, stage, copied,
                     heard, owner, unmapped, harmed, surfaces, backgrounds>>
  BY DEF NoScreenshots, walkVars, compVars, fdVars, lockVars
<1>2. ~Walking /\ ~Taking /\ ~Copying /\ ~Walking' /\ ~Taking' /\ ~Copying'
  BY <1>1 DEF Walking, Taking, Copying
<1>3. Len(outputs_) \in Nat /\ DOMAIN outputs_ = 1..Len(outputs_)
  BY Listed DEF IInv
<1>4. Typed' /\ InStep'
  BY <1>1, <1>2, <1>3 DEF IInv, Typed, InStep, Places
<1>5. BufferHeld' /\ OneFrame' /\ BoundOnce' /\ Pictures'
  BY <1>1, <1>2 DEF IInv, BufferHeld, FdsTypeOK, OneFrame, BoundOnce, Pictures
<1>6. ShotsAlign'
  <2>1. \A i \in DOMAIN outputs_ : i \in 1..i /\ i \in skipped'
    BY <1>1, <1>3
  <2> QED
    BY <1>1, <1>2, <2>1 DEF ShotsAlign, Unbroken
<1>7. Drawn'
  BY <1>1 DEF IInv, Drawn
<1> QED
  BY <1>4, <1>5, <1>6, <1>7, PartsAfter

LEMMA StartCapturePreserves ==
    ASSUME IInv, StartCapture, UNCHANGED lockVars
    PROVE  IInv'
<1>1. /\ pc = "connected" /\ pc' = "outputs" /\ it' = 1 /\ last' = Len(outputs_)
      /\ UNCHANGED <<outputs_, capture, frame, alive, dangling, shots, sync, s2c, link, plug, stage, copied, heard,
                     skipped, owner, unmapped, harmed, surfaces, backgrounds>>
  BY DEF StartCapture, walkVars, compVars, fdVars, lockVars
<1>2. ~Walking /\ ~Taking /\ ~Copying /\ Walking' /\ ~Taking' /\ ~Copying'
  BY <1>1 DEF Walking, Taking, Copying
<1>3. Len(outputs_) \in Nat
  BY Listed DEF IInv
<1>4. Typed' /\ InStep'
  BY <1>1, <1>2, <1>3 DEF IInv, Typed, InStep, Places
<1>5. BufferHeld' /\ OneFrame' /\ BoundOnce'
  BY <1>1, <1>2 DEF IInv, BufferHeld, FdsTypeOK, OneFrame, BoundOnce
<1>6. Pictures'
  <2>1. DOMAIN s2c' = {} /\ ~capture'.ready
    BY <1>1, <1>2 DEF IInv, InStep, NoCapture
  <2> QED
    BY <2>1 DEF Pictures
<1>7. ShotsAlign'
  <2>1. shots' = <<>> /\ Len(<<>>) = 0 /\ it' - 1 = 0
    BY <1>1 DEF IInv, ShotsAlign
  <2> QED
    BY <1>1, <2>1 DEF ShotsAlign
<1>8. Drawn'
  BY <1>1 DEF IInv, Drawn
<1> QED
  BY <1>4, <1>5, <1>6, <1>7, <1>8, PartsAfter

-----------------------------------------------------------------------------
(* The buffer, from its making to its closing *)

\* A roundtrip begins where the loop waits.
LEMMA RoundtripPreserves ==
    ASSUME IInv, NEW place, Roundtrip(place), UNCHANGED lockVars,
           \/ pc = "await_buffer" /\ place = "roundtrip_buffer"
           \/ pc = "await_ready" /\ place = "roundtrip_ready"
    PROVE  IInv'
<1>1. pc' = place /\ sync' = TRUE /\ link' = link /\ link \in {"up", "lost"}
  BY DEF Roundtrip, IInv, Typed
<1>2. /\ Walking /\ Walking' /\ Taking /\ Taking' /\ (Copying' <=> Copying)
      /\ pc' \in Places
  BY <1>1 DEF Walking, Taking, Copying, Places
<1> QED
  BY <1>1, <1>2, OnlyThePlace DEF Roundtrip

\* The buffer is made and the copy asked for.
LEMMA CopyBegins ==
    ASSUME IInv, pc = "await_buffer", pc' = "await_ready", NEW made \in create_shm_buffer(frame, owner),
           made.buf.data, owner' = made.own, unmapped' \in BOOLEAN, harmed' = harmed,
           capture' = [capture EXCEPT !.buf = made.buf],
           stage' = [stage EXCEPT ![frame] = IF @ = "offered" THEN "copying" ELSE @],
           UNCHANGED <<outputs_, it, last, frame, alive, dangling, shots, sync, s2c, link, plug, copied, heard,
                       skipped, lockVars>>
    PROVE  IInv'
<1>1. Taking /\ ~Copying /\ Walking /\ Taking' /\ Copying' /\ Walking' /\ Begun' = Begun
  BY DEF Taking, Copying, Walking, Begun
<1>2. it <= last
  BY <1>1 DEF IInv, InStep
<1>3. frame \in Outputs /\ owner \in Tables /\ capture \in Captures
  BY <1>1, <1>2, InTheWalk DEF IInv, BufferHeld, FdsTypeOK, Tables, Typed
<1>4. /\ made.buf \in Buffers(Outputs) /\ made.own \in Tables
      /\ made.buf.fd \in Fds /\ made.own = [owner EXCEPT ![made.buf.fd] = "client"]
  BY <1>3, WhatIsMade
<1>5. /\ capture' \in Captures /\ capture'.buf = made.buf /\ capture'.ready = capture.ready
  BY <1>3, <1>4 DEF Captures
<1>6. Typed'
  BY <1>5 DEF IInv, Typed, Places
<1>7. InStep'
  BY <1>1 DEF IInv, InStep
<1>8. BufferHeld'
  <2>1. FdsTypeOK' /\ ~harmed'
    BY <1>4 DEF IInv, BufferHeld, FdsTypeOK, Tables
  <2>2. \A f \in Fds : owner[f] # "client"
    BY <1>1 DEF IInv, BufferHeld
  <2>3. \A f \in Fds : owner'[f] = "client" <=> f = made.buf.fd
    BY <1>3, <1>4, <2>2 DEF Tables
  <2> QED
    BY <1>1, <1>5, <2>1, <2>3 DEF BufferHeld
<1>9. OneFrame' /\ BoundOnce'
  BY <1>3 DEF IInv, Typed, OneFrame, BoundOnce
<1>10. Pictures'
  BY <1>1, <1>5 DEF IInv, Pictures
<1>11. ShotsAlign'
  BY <1>1 DEF IInv, ShotsAlign, Unbroken
<1>12. Drawn'
  BY DEF IInv, Drawn, lockVars
<1> QED
  BY <1>6, <1>7, <1>8, <1>9, <1>10, <1>11, <1>12, PartsAfter

LEMMA AwaitBufferPreserves ==
    ASSUME IInv, AwaitBuffer, UNCHANGED lockVars
    PROVE  IInv'
<1>1. pc = "await_buffer" /\ Taking /\ ~Copying /\ Walking
  BY DEF AwaitBuffer, Taking, Copying, Walking
<1>2. it <= last
  BY <1>1 DEF IInv, InStep
<1>3. FdsTypeOK
  BY DEF IInv, BufferHeld
<1>4. CASE BufferAwaited /\ Roundtrip("roundtrip_buffer")
  BY <1>1, <1>4, RoundtripPreserves
<1>5. CASE SkipOutput /\ UNCHANGED fdVars
  BY <1>1, <1>2, <1>3, <1>5, SkipPreserves DEF fdVars, FdsTypeOK
<1>6. ASSUME NEW made \in create_shm_buffer(frame, owner),
             owner' = made.own, unmapped' = (unmapped \/ made.unmapped), harmed' = harmed,
             IF ~Usable(made.buf) THEN SkipOutput
             ELSE /\ capture' = [capture EXCEPT !.buf = made.buf]
                  /\ stage' = [stage EXCEPT ![frame] = IF @ = "offered" THEN "copying" ELSE @]
                  /\ pc' = "await_ready"
                  /\ UNCHANGED <<outputs_, it, last, frame, alive, dangling, shots, sync, s2c, link,
                                 plug, copied, heard, skipped>>
      PROVE  IInv'
  <2>1. frame \in Outputs /\ owner \in Tables
    BY <1>1, <1>2, <1>3, InTheWalk DEF FdsTypeOK, Tables
  <2>2. made.unmapped \in BOOLEAN /\ (made.buf.data \/ made.own = owner)
    BY <2>1, WhatIsMade
  <2>3. unmapped' \in BOOLEAN
    BY <1>3, <1>6, <2>2 DEF FdsTypeOK
  <2>4. CASE made.buf.data
    BY <1>1, <1>6, <2>3, <2>4, CopyBegins DEF Usable
  <2>5. CASE ~made.buf.data
    BY <1>1, <1>2, <1>6, <2>2, <2>3, <2>5, SkipPreserves DEF Usable
  <2> QED
    BY <2>4, <2>5
<1> QED
  BY <1>4, <1>5, <1>6 DEF AwaitBuffer

\* The buffer is closed, and it was the client's: what has been copied into it
\* is the frame's picture when the copy is ready.
LEMMA TakeShotPreserves ==
    ASSUME IInv, pc = "await_ready", TakeShot, UNCHANGED lockVars
    PROVE  IInv'
<1>1. Copying /\ Taking /\ Walking
  BY DEF Copying, Taking, Walking
<1>2. it <= last /\ capture \in Captures /\ FdsTypeOK /\ owner \in Tables
  BY <1>1 DEF IInv, InStep, BufferHeld, FdsTypeOK, Typed, Tables
<1>3. capture.buf.fd \in Fds \cup {-1} /\ \A f \in Fds : owner[f] = "client" <=> f = capture.buf.fd
  BY <1>1, <1>2 DEF IInv, BufferHeld, Captures, Buffers
<1>4. /\ owner' = Closed(owner, capture.buf.fd)
      /\ harmed' = (harmed \/ Harms(owner, capture.buf.fd)) /\ unmapped' = unmapped
  BY DEF TakeShot, CloseBuffer
<1>5. /\ owner' \in Tables
      /\ \A f \in Fds : owner'[f] = IF f = capture.buf.fd THEN "free" ELSE owner[f]
  BY <1>2, <1>3, <1>4, ClosedIsFree
<1>6. ~Harms(owner, capture.buf.fd)
  BY <1>3 DEF Harms
<1>7. FdsTypeOK' /\ ~harmed' /\ \A f \in Fds : owner'[f] # "client"
  BY <1>2, <1>3, <1>4, <1>5, <1>6 DEF IInv, BufferHeld, FdsTypeOK, Tables
<1>8. capture.ready => copied = frame
  BY DEF IInv, Pictures
<1>9. EndIteration /\ DestroyFrame
  BY DEF TakeShot
<1>10. \/ shots' = shots /\ skipped' = skipped \cup {it}
       \/ shots' = Append(shots, frame) /\ skipped' = skipped
  BY <1>8 DEF TakeShot
<1> QED
  BY <1>1, <1>2, <1>7, <1>9, <1>10, IterationEnds

LEMMA AwaitReadyPreserves ==
    ASSUME IInv, AwaitReady, UNCHANGED lockVars
    PROVE  IInv'
BY RoundtripPreserves, TakeShotPreserves DEF AwaitReady

\* Other parts of the process open and close descriptors, never the client's.
LEMMA OtherPreserves == ASSUME IInv, Other PROVE IInv'
<1>1. /\ UNCHANGED <<pc, outputs_, it, last, capture, frame, alive, dangling, shots, sync, s2c, link, plug, stage,
                     copied, heard, skipped, surfaces, backgrounds, harmed, unmapped>>
      /\ OtherOpens \/ OtherCloses
  BY DEF Other, OtherOpens, OtherCloses, captureVars, walkVars, compVars, lockVars
<1>2. (Taking' <=> Taking) /\ (Copying' <=> Copying) /\ (Walking' <=> Walking)
  BY <1>1 DEF Taking, Copying, Walking
<1>3. FdsTypeOK
  BY DEF IInv, BufferHeld
<1>4. owner' \in [Fds -> {"free", "client", "other"}] /\ \A f \in Fds : owner'[f] = "client" <=> owner[f] = "client"
  <2>1. CASE OtherOpens
    <3>1. Lowest(owner) \in Fds /\ owner[Lowest(owner)] = "free"
      BY <2>1, LowestIsFree DEF OtherOpens
    <3> QED
      BY <1>3, <2>1, <3>1 DEF OtherOpens, FdsTypeOK
  <2>2. CASE OtherCloses
    <3>1. PICK f \in Fds : owner[f] = "other" /\ owner' = [owner EXCEPT ![f] = "free"]
      BY <2>2 DEF OtherCloses
    <3> QED
      BY <1>3, <3>1 DEF FdsTypeOK
  <2> QED
    BY <1>1, <2>1, <2>2
<1>5. BufferHeld'
  BY <1>1, <1>2, <1>3, <1>4 DEF IInv, BufferHeld, FdsTypeOK
<1>6. Typed' /\ InStep'
  BY <1>1, <1>2, <1>5 DEF IInv, Typed, InStep, BufferHeld
<1>7. OneFrame' /\ BoundOnce' /\ Drawn'
  BY <1>1 DEF IInv, OneFrame, BoundOnce, Drawn
<1>8. Pictures'
  BY <1>1, <1>2 DEF IInv, Pictures, Begun
<1>9. ShotsAlign'
  BY <1>1, <1>2 DEF IInv, ShotsAlign, Unbroken
<1> QED
  BY <1>5, <1>6, <1>7, <1>8, <1>9, PartsAfter

-----------------------------------------------------------------------------
LEMMA LockSessionPreserves == ASSUME IInv, lock_session PROVE IInv'
<1>1. /\ pc = "captured" /\ pc' = "locked" /\ backgrounds' = shots
      /\ surfaces' = [i \in DOMAIN outputs_ |-> outputs_[i].output]
      /\ UNCHANGED <<outputs_, it, last, capture, frame, alive, dangling, shots, sync, s2c, link, plug, stage, copied,
                     heard, skipped, owner, unmapped, harmed>>
  BY DEF lock_session, set_backgrounds, captureVars, walkVars, compVars, fdVars
<1>2. ~Walking /\ ~Taking /\ ~Copying /\ ~Walking' /\ ~Taking' /\ ~Copying'
  BY <1>1 DEF Walking, Taking, Copying
<1>3. Typed' /\ InStep'
  BY <1>1, <1>2 DEF IInv, Typed, InStep, Places, FdsTypeOK
<1>4. BufferHeld' /\ OneFrame' /\ BoundOnce'
  BY <1>1, <1>2 DEF IInv, BufferHeld, FdsTypeOK, OneFrame, BoundOnce
<1>5. Pictures'
  BY <1>1, <1>2 DEF IInv, Pictures
<1>6. ShotsAlign'
  BY <1>1, <1>2 DEF IInv, ShotsAlign, Unbroken
<1>7. Drawn'
  BY <1>1 DEF Drawn
<1> QED
  BY <1>3, <1>4, <1>5, <1>6, <1>7, PartsAfter

LEMMA NextPreserves == IInv /\ [Next]_vars => IInv'
<1> SUFFICES ASSUME IInv, [Next]_vars PROVE IInv'
  OBVIOUS
<1>1. CASE CaptureStep
  BY <1>1, StartCapturePreserves, NoScreenshotsPreserves, NextOutputPreserves, AwaitBufferPreserves,
     AwaitReadyPreserves, DispatchEventPreserves, RoundtripFailsPreserves DEF CaptureStep
<1>2. CASE lock_session
  BY <1>2, LockSessionPreserves
<1>3. CASE Compositor
  BY <1>3, SendDonePreserves, ServeFramePreserves DEF Compositor
<1>4. CASE Other
  BY <1>4, OtherPreserves
<1>5. CASE UNCHANGED vars
  BY <1>5, StutteringPreserves
<1>6. CASE UNCHANGED lockVars /\ (CutOff \/ \E o \in Outputs : PlugIn(o))
  BY <1>6, CutOffPreserves, PlugInPreserves
<1> QED
  BY <1>1, <1>2, <1>3, <1>4, <1>5, <1>6 DEF Next, Ended

\* The walk over outputs_, the frame being taken, its buffer and the events under
\* way stay in step whatever the compositor does meanwhile (client.cpp:355-436).
THEOREM Invariance == Spec => []IInv
<1>1. Init => IInv
  BY InitEstablishes
<1>2. IInv /\ [Next]_vars => IInv'
  BY NextPreserves
<1> QED
  BY <1>1, <1>2, PTL DEF Spec

\* Every variable of the capture keeps its type.
THEOREM TypesHold == Spec => []TypeOK
<1>1. IInv => TypeOK
  <2> SUFFICES ASSUME IInv PROVE TypeOK
    OBVIOUS
  <2>1. Typed /\ InStep /\ BufferHeld /\ Drawn
    BY DEF IInv
  <2>2. capture.width \in BOOLEAN /\ capture.ready \in BOOLEAN /\ capture.failed \in BOOLEAN
        /\ capture.buf \in Buffers(Outputs)
    BY <2>1 DEF Typed, Captures
  <2>3. Len(outputs_) \in Nat /\ DOMAIN outputs_ = 1..Len(outputs_)
        /\ \A i \in DOMAIN outputs_ : outputs_[i].output \in Outputs
    BY <2>1, Listed
  <2>4. Len(shots) \in Nat /\ DOMAIN shots = 1..Len(shots) /\ \A i \in DOMAIN shots : shots[i] \in Outputs
    BY <2>1, Listed
  <2>5. shots \in Seq(Outputs \cup {None})
    <3>1. shots \in Seq(Outputs)
      BY <2>1 DEF Typed
    <3>2. shots \in [1..Len(shots) -> Outputs]
      BY <3>1, LenProperties
    <3>3. shots \in [1..Len(shots) -> Outputs \cup {None}]
      BY <3>2
    <3> QED
      BY <2>4, <3>3, SeqDef
  <2>6. <<>> \in Seq(Outputs) /\ <<>> \in Seq(Outputs \cup {None})
    BY EmptySeq
  <2>7. surfaces \in Seq(Outputs)
    <3>1. CASE pc = "locked"
      <4>1. surfaces \in [1..Len(outputs_) -> Outputs]
        BY <2>1, <2>3, <3>1 DEF Drawn
      <4> QED
        BY <2>3, <4>1, SeqDef
    <3> QED
      BY <2>1, <2>6, <3>1 DEF Drawn
  <2>8. backgrounds \in Seq(Outputs \cup {None})
    BY <2>1, <2>5, <2>6 DEF Drawn
  <2> QED
    BY <2>1, <2>2, <2>5, <2>7, <2>8 DEF TypeOK, Typed, InStep, BufferHeld
<1> QED
  BY <1>1, Invariance, PTL

\* One record serves the listeners of all frames, and they do not look at the
\* frame: yet what they note is always of the frame being taken
\* (client.cpp:385-436, 597-615).
THEOREM NoStrangersFrame == Spec => []HearsOwnFrame
<1>1. IInv => HearsOwnFrame
  BY DEF IInv, OneFrame, HearsOwnFrame
<1> QED
  BY <1>1, Invariance, PTL

\* The backgrounds are drawn each on its own output's surface, up to the first
\* output that has none (client.cpp:355, renderer.cpp:123-127).
THEOREM PicturesOnTheirScreens == Spec => []BackgroundsAlign
<1>1. IInv => BackgroundsAlign
  <2> SUFFICES ASSUME IInv PROVE BackgroundsAlign
    OBVIOUS
  <2>1. \A i \in DOMAIN shots : shots[i] \in Outputs
    BY Listed DEF IInv
  <2>2. None \notin Range(shots)
    BY <2>1, CaptureAssumption DEF Range
  <2>3. ASSUME NEW i \in DOMAIN surfaces, Background(i) # surfaces[i]
        PROVE  \E j \in 1..i : j \in skipped
    <3>1. pc = "locked"
      BY DEF IInv, Drawn
    <3>2. i \in DOMAIN outputs_ /\ surfaces[i] = outputs_[i].output /\ backgrounds = shots
      BY <3>1 DEF IInv, Drawn
    <3>3. Unbroken(i) => i \in DOMAIN shots /\ shots[i] = outputs_[i].output
      BY <3>1, <3>2 DEF IInv, ShotsAlign
    <3>4. ~Unbroken(i)
      BY <2>3, <3>2, <3>3 DEF Background
    <3> QED
      BY <3>4 DEF Unbroken
  <2> QED
    BY <2>2, <2>3 DEF BackgroundsAlign
<1> QED
  BY <1>1, Invariance, PTL

\* Whatever fails, the client holds no descriptor but its buffer's, and closes
\* nobody else's (client.cpp:319-352, 380-384, 425).
THEOREM NoDescriptorLeaks == Spec => []DescriptorsAccounted
<1>1. IInv => DescriptorsAccounted
  <2> SUFFICES ASSUME IInv PROVE DescriptorsAccounted
    OBVIOUS
  <2>1. Copying => capture.buf.data /\ \A f \in Fds : owner[f] = "client" => f = capture.buf.fd
    BY DEF IInv, BufferHeld
  <2>2. ~Copying => \A f \in Fds : owner[f] # "client"
    BY DEF IInv, BufferHeld
  <2>3. ~harmed
    BY DEF IInv, BufferHeld
  <2> QED
    BY <2>1, <2>2, <2>3 DEF DescriptorsAccounted
<1> QED
  BY <1>1, Invariance, PTL
=============================================================================
