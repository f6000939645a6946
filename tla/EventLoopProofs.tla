--------------------------- MODULE EventLoopProofs ---------------------------
(***************************************************************************)
(* Proofs about EventLoop for every character set, password and bound.     *)
(***************************************************************************)
EXTENDS EventLoop, TLAPS

-----------------------------------------------------------------------------
(* dispatch *)

Editable == {"Idle", "Typing", "AuthError"}

\* What the last element's removal leaves is a password again.
LEMMA ErasedIsPassword ==
    ASSUME NEW b \in Passwords, Len(b) > 1
    PROVE  SubSeq(b, 1, Len(b) - 1) \in Passwords
BY DEF Passwords

\* A key extends a password to a password (machine.hpp:180-182).
LEMMA AppendedIsPassword ==
    ASSUME NEW b \in Passwords, NEW c \in Codepoints
    PROVE  Appended(b, c) \in Passwords
BY DEF Passwords, Appended, Codepoints

\* The whole of dispatch as six outcomes (machine.hpp:176-311, 473-485).
LEMMA DispatchCases ==
    ASSUME NEW s \in States, NEW e \in Events
    PROVE  \/ /\ s.kind = "Authenticating" => e.type \notin {"AuthSuccess", "AuthFail"}
              /\ Dispatch(s, e) = Result(s, NoEffect)
           \/ /\ s.kind \in Editable
              /\ \E t \in States : /\ t.kind \in Editable
                                   /\ Dispatch(s, e) = Result(t, NoEffect)
           \/ /\ s.kind = "Typing" /\ e.type = "Submit" /\ s.buffer \in Passwords
              /\ Dispatch(s, e) = Result(Authenticating(s.buffer), StartAuth(s.buffer))
           \/ /\ s.kind = "Authenticating" /\ e.type = "AuthSuccess"
              /\ Dispatch(s, e) = Result(Unlocked, ExitProgram)
           \/ /\ s.kind = "Authenticating" /\ e.type = "AuthFail"
              /\ Dispatch(s, e) = Result(AuthError("pam"), NoEffect)
           \/ /\ s.kind \in Editable /\ e.type = "FingerprintMatch"
              /\ Dispatch(s, e) = Result(Unlocked, ExitProgram)
<1>1. CASE ~ValidTransition(s, e)
  BY <1>1 DEF Dispatch, ValidTransition, Specializations
<1>2. CASE ValidTransition(s, e)
  <2>0. Dispatch(s, e) = Transition(s, e)
    BY <1>2 DEF Dispatch
  <2>1. CASE e.type = "KeyPress"
    <3>1. s.kind \in Editable /\ e.codepoint \in Codepoints
      BY <1>2, <2>1 DEF ValidTransition, Specializations, Editable, Events, PlainEvents
    <3> DEFINE b == IF s.kind = "Typing" THEN s.buffer ELSE <<>>
    <3>2. b \in Passwords
      BY <3>1 DEF States, Passwords, Idle, Unlocked, Editable
    <3>3. Appended(b, e.codepoint) \in Passwords
      BY <3>1, <3>2, AppendedIsPassword
    <3>4. Typing(Appended(b, e.codepoint)) \in States
      BY <3>3 DEF States, Typing
    <3>5. Dispatch(s, e) = Result(Typing(Appended(b, e.codepoint)), NoEffect)
      BY <2>0, <2>1 DEF Transition, TypeKey
    <3> QED
      BY <3>1, <3>4, <3>5 DEF Typing, Editable
  <2>2. CASE e.type = "Backspace"
    <3>1. s.kind = "Typing" /\ s.buffer \in Passwords
      BY <1>2, <2>2 DEF ValidTransition, Specializations, States, Idle, Unlocked
    <3>2. Dispatch(s, e) = Erase(s)
      BY <2>0, <2>2 DEF Transition
    <3>3. CASE Len(s.buffer) <= 1
      BY <3>1, <3>2, <3>3 DEF Erase, Idle, States, Editable
    <3>4. CASE Len(s.buffer) > 1
      <4> DEFINE t == Typing(SubSeq(s.buffer, 1, Len(s.buffer) - 1))
      <4>1. t \in States
        BY <3>1, <3>4, ErasedIsPassword DEF States, Typing
      <4>2. Dispatch(s, e) = Result(t, NoEffect)
        BY <3>1, <3>2, <3>4 DEF Erase, Passwords
      <4> QED
        BY <3>1, <4>1, <4>2 DEF Typing, Editable
    <3> QED
      BY <3>1, <3>3, <3>4 DEF Passwords
  <2>3. CASE e.type = "Submit"
    BY <1>2, <2>0, <2>3 DEF ValidTransition, Specializations, States, Idle, Unlocked,
                            Transition, SubmitBuffer
  <2>4. CASE e.type = "AuthSuccess"
    BY <1>2, <2>0, <2>4 DEF ValidTransition, Specializations, Transition, Unlock
  <2>5. CASE e.type = "AuthFail"
    BY <1>2, <2>0, <2>5 DEF ValidTransition, Specializations, Transition, ShowError
  <2>6. CASE e.type = "Timeout"
    BY <1>2, <2>0, <2>6 DEF ValidTransition, Specializations, Transition, ClearError,
                            States, Idle, Editable
  <2>7. CASE e.type = "FingerprintMatch"
    BY <1>2, <2>0, <2>7 DEF ValidTransition, Specializations, Transition, Unlock, Editable
  <2>8. CASE e.type = "FingerprintNoMatch"
    BY <1>2, <2>0, <2>8 DEF ValidTransition, Specializations, Transition, ShowError,
                            States, AuthError, Messages, Editable
  <2> QED
    BY <2>1, <2>2, <2>3, <2>4, <2>5, <2>6, <2>7, <2>8 DEF Events, PlainEvents
<1> QED
  BY <1>1, <1>2

\* dispatch moves along the declared table only, except that Backspace may empty
\* the buffer (machine.hpp:331-345, 440).
LEMMA DispatchFollowsTable ==
    ASSUME NEW s \in States, NEW e \in Events
    PROVE  LET t == Dispatch(s, e).state IN
             \/ t = s
             \/ \E r \in TransitionTable : r[1] = s.kind /\ r[3] = t.kind
             \/ s.kind = "Typing" /\ Len(s.buffer) <= 1 /\ t = Idle
<1> DEFINE t == Dispatch(s, e).state
           Row(a, ev, b) == <<a, ev, b>> \in TransitionTable /\ s.kind = a /\ t.kind = b
<1>0. \A a, ev, b : Row(a, ev, b)
                       => \E r \in TransitionTable : r[1] = s.kind /\ r[3] = t.kind
  OBVIOUS
<1>1. CASE ~ValidTransition(s, e)
  BY <1>1 DEF Dispatch, Result
<1>2. CASE ValidTransition(s, e)
  <2>0. t = Transition(s, e).state
    BY <1>2 DEF Dispatch
  <2>1. CASE e.type = "KeyPress"
    <3>1. t.kind = "Typing" /\ s.kind \in {"Idle", "Typing", "AuthError"}
      BY <1>2, <2>0, <2>1
         DEF Transition, TypeKey, Result, Typing, ValidTransition, Specializations
    <3>2. Row(s.kind, "KeyPress", "Typing")
      BY <3>1 DEF TransitionTable
    <3> QED
      BY <1>0, <3>2
  <2>2. CASE e.type = "Backspace"
    <3>1. s.kind = "Typing" /\ t = Erase(s).state
      BY <1>2, <2>0, <2>2 DEF Transition, ValidTransition, Specializations
    <3>2. CASE Len(s.buffer) <= 1
      BY <3>1, <3>2 DEF Erase, Result
    <3>3. CASE ~(Len(s.buffer) <= 1)
      <4>1. t.kind = "Typing"
        BY <3>1, <3>3 DEF Erase, Result, Typing
      <4>2. Row("Typing", "Backspace", "Typing")
        BY <3>1, <4>1 DEF TransitionTable
      <4> QED
        BY <1>0, <4>2
    <3> QED
      BY <3>2, <3>3
  <2>3. CASE e.type = "Submit"
    <3>1. Row("Typing", "Submit", "Authenticating")
      BY <1>2, <2>0, <2>3 DEF Transition, SubmitBuffer, Result, Authenticating,
                              ValidTransition, Specializations, TransitionTable
    <3> QED
      BY <1>0, <3>1
  <2>4. CASE e.type = "AuthSuccess"
    <3>1. Row("Authenticating", "AuthSuccess", "Unlocked")
      BY <1>2, <2>0, <2>4 DEF Transition, Unlock, Result, Unlocked,
                              ValidTransition, Specializations, TransitionTable
    <3> QED
      BY <1>0, <3>1
  <2>5. CASE e.type = "AuthFail"
    <3>1. Row("Authenticating", "AuthFail", "AuthError")
      BY <1>2, <2>0, <2>5 DEF Transition, ShowError, Result, AuthError,
                              ValidTransition, Specializations, TransitionTable
    <3> QED
      BY <1>0, <3>1
  <2>6. CASE e.type = "Timeout"
    <3>1. Row("AuthError", "Timeout", "Idle")
      BY <1>2, <2>0, <2>6 DEF Transition, ClearError, Result, Idle,
                              ValidTransition, Specializations, TransitionTable
    <3> QED
      BY <1>0, <3>1
  <2>7. CASE e.type = "FingerprintMatch"
    <3>1. t.kind = "Unlocked" /\ s.kind \in {"Idle", "Typing", "AuthError"}
      BY <1>2, <2>0, <2>7
         DEF Transition, Unlock, Result, Unlocked, ValidTransition, Specializations
    <3>2. Row(s.kind, "FingerprintMatch", "Unlocked")
      BY <3>1 DEF TransitionTable
    <3> QED
      BY <1>0, <3>2
  <2>8. CASE e.type = "FingerprintNoMatch"
    <3>1. t.kind = "AuthError" /\ s.kind \in {"Idle", "AuthError"}
      BY <1>2, <2>0, <2>8
         DEF Transition, ShowError, Result, AuthError, ValidTransition, Specializations
    <3>2. Row(s.kind, "FingerprintNoMatch", "AuthError")
      BY <3>1 DEF TransitionTable
    <3> QED
      BY <1>0, <3>2
  <2> QED
    BY <2>1, <2>2, <2>3, <2>4, <2>5, <2>6, <2>7, <2>8 DEF Events, PlainEvents
<1> QED
  BY <1>1, <1>2

-----------------------------------------------------------------------------
(* The queue *)

\* An empty queue holds no answer.
LEMMA AnswersOfEmpty == Answers(<<>>) = {}
BY DEF Answers

\* Pushing a report adds an answer at the end, if it is one.
LEMMA AnswersOfPush ==
    ASSUME NEW q \in Seq(Reports), NEW e \in Reports
    PROVE  /\ Append(q, e) \in Seq(Reports)
           /\ Answers(Append(q, e)) =
                IF e.type \in AnswerTypes THEN Answers(q) \cup {Len(q) + 1} ELSE Answers(q)
           /\ \A i \in Answers(q) : Append(q, e)[i] = q[i]
           /\ Append(q, e)[Len(q) + 1] = e
<1>1. /\ Append(q, e) \in Seq(Reports)
      /\ DOMAIN Append(q, e) = DOMAIN q \cup {Len(q) + 1}
      /\ Len(q) + 1 \notin DOMAIN q
      /\ \A i \in DOMAIN q : Append(q, e)[i] = q[i]
      /\ Append(q, e)[Len(q) + 1] = e
  OBVIOUS
<1> QED
  BY <1>1 DEF Answers

\* Handling the head moves the other answers up by one.
LEMMA AnswersOfTail ==
    ASSUME NEW q \in Seq(Reports), q # <<>>
    PROVE  /\ Tail(q) \in Seq(Reports)
           /\ Head(q) \in Reports /\ Head(q) = q[1] /\ 1 \in DOMAIN q
           /\ Answers(Tail(q)) = {i \in DOMAIN Tail(q) : i + 1 \in Answers(q)}
           /\ \A i \in Answers(Tail(q)) : i + 1 \in Answers(q) /\ Tail(q)[i] = q[i + 1]
           /\ \A i \in Answers(q) : i # 1 => i - 1 \in Answers(Tail(q))
<1>1. /\ Tail(q) \in Seq(Reports)
      /\ Head(q) \in Reports /\ Head(q) = q[1] /\ 1 \in DOMAIN q
      /\ \A i \in DOMAIN Tail(q) : i + 1 \in DOMAIN q /\ Tail(q)[i] = q[i + 1]
      /\ \A i \in DOMAIN q : i # 1 => i - 1 \in DOMAIN Tail(q) /\ Tail(q)[i - 1] = q[i]
  OBVIOUS
<1>2. \A i \in DOMAIN q : i \in Nat /\ (i - 1) + 1 = i
  OBVIOUS
<1>3. \A i \in DOMAIN Tail(q) : q[i + 1] = Tail(q)[i]
  BY <1>1
<1> QED
  BY <1>1, <1>2, <1>3 DEF Answers

-----------------------------------------------------------------------------
(* What a call of dispatch does to the main thread's variables *)

Edits(e) ==
    /\ state.kind \in Editable /\ state' \in States /\ state'.kind \in Editable
    /\ UNCHANGED <<starting, unlock_requested>>

Submits(e) ==
    /\ state.kind = "Typing" /\ e.type = "Submit" /\ state.buffer \in Passwords
    /\ state' = Authenticating(state.buffer) /\ starting' = state.buffer
    /\ UNCHANGED unlock_requested

Ignores(e) ==
    /\ Checking => e.type \notin AnswerTypes
    /\ UNCHANGED <<state, starting, unlock_requested>>

Accepts(e) ==
    /\ Checking /\ e.type = "AuthSuccess"
    /\ state' = Unlocked /\ unlock_requested' = TRUE /\ UNCHANGED starting

Rejects(e) ==
    /\ Checking /\ e.type = "AuthFail"
    /\ state' = AuthError("pam") /\ UNCHANGED <<starting, unlock_requested>>

Matches(e) ==
    /\ state.kind \in Editable /\ e.type = "FingerprintMatch"
    /\ state' = Unlocked /\ unlock_requested' = TRUE /\ UNCHANGED starting

\* dispatch and execute_effect together, for any event (main.cpp:52-73, 314-323).
LEMMA ApplyCases ==
    ASSUME TypeOK, NEW e \in Events, Apply(e)
    PROVE  Ignores(e) \/ Edits(e) \/ Submits(e) \/ Accepts(e) \/ Rejects(e) \/ Matches(e)
<1> DEFINE r == Dispatch(state, e)
<1>1. /\ state' = r.state
      /\ starting' = IF r.effect.type = "StartAuth" THEN r.effect.password ELSE starting
      /\ unlock_requested' = (unlock_requested \/ r.effect.type = "ExitProgram")
  BY DEF Apply, execute_effect
<1>2. state \in States /\ unlock_requested \in BOOLEAN
  BY DEF TypeOK
<1>3. \A s : LET x == Result(s, NoEffect)
             IN  x.state = s /\ x.effect.type = "NoEffect"
  BY DEF Result, NoEffect
<1>4. \A s : LET x == Result(s, ExitProgram)
             IN  x.state = s /\ x.effect.type = "ExitProgram"
  BY DEF Result, ExitProgram
<1>5. \A s, p : LET x == Result(s, StartAuth(p))
                IN  x.state = s /\ x.effect.type = "StartAuth" /\ x.effect.password = p
  BY DEF Result, StartAuth
<1> HIDE DEF r
<1>6. ASSUME NEW t, r = Result(t, NoEffect)
      PROVE  state' = t /\ UNCHANGED <<starting, unlock_requested>>
  BY <1>1, <1>2, <1>3, <1>6
<1>7. ASSUME NEW t, r = Result(t, ExitProgram)
      PROVE  state' = t /\ unlock_requested' = TRUE /\ UNCHANGED starting
  BY <1>1, <1>4, <1>7
<1>8. ASSUME NEW t, NEW p, r = Result(t, StartAuth(p))
      PROVE  state' = t /\ starting' = p /\ UNCHANGED unlock_requested
  BY <1>1, <1>2, <1>5, <1>8
<1>9. \/ (Checking => e.type \notin AnswerTypes) /\ r = Result(state, NoEffect)
      \/ /\ state.kind \in Editable
         /\ \E t \in States : t.kind \in Editable /\ r = Result(t, NoEffect)
      \/ /\ state.kind = "Typing" /\ e.type = "Submit" /\ state.buffer \in Passwords
         /\ r = Result(Authenticating(state.buffer), StartAuth(state.buffer))
      \/ Checking /\ e.type = "AuthSuccess" /\ r = Result(Unlocked, ExitProgram)
      \/ Checking /\ e.type = "AuthFail" /\ r = Result(AuthError("pam"), NoEffect)
      \/ /\ state.kind \in Editable /\ e.type = "FingerprintMatch"
         /\ r = Result(Unlocked, ExitProgram)
  BY <1>2, DispatchCases DEF r, Checking, AnswerTypes
<1> QED
  BY <1>6, <1>7, <1>8, <1>9 DEF Ignores, Edits, Submits, Accepts, Rejects, Matches

\* What the key callback dispatches is never a report from another thread.
KeyEvents == [type : {"KeyPress"}, codepoint : Codepoints]
               \cup [type : {"Backspace", "Submit", "Timeout"}]

\* The three kinds of key event dispatch sees are events.
LEMMA KeyEventFacts ==
    /\ KeyEvents \subseteq Events
    /\ Reports \subseteq Events
    /\ \A e \in KeyEvents : e.type \notin AnswerTypes \cup {"FingerprintMatch"}
    /\ \A t \in {"Backspace", "Submit", "Timeout"} : Plain(t) \in KeyEvents
    /\ \A c \in Codepoints : KeyPress(c) \in KeyEvents
BY DEF KeyEvents, Events, PlainEvents, Reports, AnswerTypes, Plain, KeyPress

\* What a run of the key callback does (main.cpp:247-301): one event is
\* dispatched between two turns of the loop, and its effect executed.
LEMMA KeyCallbackCases ==
    ASSUME TypeOK, KeyCallback
    PROVE  \E e \in KeyEvents :
             /\ CallbacksRun
             /\ repeat' \in {KeyPress(c) : c \in Codepoints} \cup {Plain("Backspace"), None}
             /\ Apply(e)
             /\ UNCHANGED <<pc, running, batch, fingerprint_active, stop_requested,
                            pending_events, pamVars, fp>>
<1>1. CASE PressReturn
  BY <1>1, KeyEventFacts DEF PressReturn
<1>2. CASE PressEscape
  BY <1>2, KeyEventFacts DEF PressEscape
<1>3. CASE PressRepeatable(Plain("Backspace"))
  BY <1>3, KeyEventFacts DEF PressRepeatable
<1>4. ASSUME NEW c \in Codepoints, PressRepeatable(KeyPress(c))
      PROVE  \E e \in KeyEvents :
             /\ CallbacksRun
             /\ repeat' \in {KeyPress(d) : d \in Codepoints} \cup {Plain("Backspace"), None}
             /\ Apply(e)
             /\ UNCHANGED <<pc, running, batch, fingerprint_active, stop_requested,
                            pending_events, pamVars, fp>>
  BY <1>4, KeyEventFacts DEF PressRepeatable
<1> QED
  BY <1>1, <1>2, <1>3, <1>4 DEF KeyCallback

\* The same for the key repeat, which never submits.
LEMMA RepeatCases ==
    ASSUME TypeOK, RepeatKey
    PROVE  repeat \in KeyEvents /\ repeat.type # "Submit"
<1>1. repeat \in {KeyPress(c) : c \in Codepoints} \cup {Plain("Backspace")}
  BY DEF TypeOK, RepeatKey
<1>2. \A c \in Codepoints : KeyPress(c).type = "KeyPress"
  BY DEF KeyPress
<1>3. Plain("Backspace").type = "Backspace"
  BY DEF Plain
<1> QED
  BY <1>1, <1>2, <1>3, KeyEventFacts

-----------------------------------------------------------------------------
(* Type correctness *)

\* dispatch and execute_effect keep the types of what they write.
LEMMA ApplyTypes ==
    ASSUME TypeOK, NEW e \in Events, Apply(e)
    PROVE  /\ state' \in States
           /\ starting' \in Passwords \cup {None}
           /\ unlock_requested' \in BOOLEAN
<1>1. /\ state \in States /\ starting \in Passwords \cup {None}
      /\ unlock_requested \in BOOLEAN
  BY DEF TypeOK
<1>2. /\ Unlocked \in States /\ AuthError("pam") \in States
      /\ \A p \in Passwords : Authenticating(p) \in States
  BY DEF States, Unlocked, AuthError, Messages, Authenticating
<1> QED
  BY <1>1, <1>2, ApplyCases DEF Ignores, Edits, Submits, Accepts, Rejects, Matches

\* The variables start with their types.
LEMMA TypeInit == Init => TypeOK
<1> SUFFICES ASSUME Init PROVE TypeOK
  OBVIOUS
<1>1. <<>> \in Passwords /\ <<>> \in Seq(Reports)
  BY DEF Passwords
<1>2. Idle \in States
  BY DEF States
<1>3. fingerprint_active \in BOOLEAN /\ fp \in {"off", "listening", "finished"}
  BY DEF Init
<1>4. /\ state \in States /\ batch \in Seq(Reports) /\ pending_events \in Seq(Reports)
      /\ pam_password \in Passwords
  BY <1>1, <1>2 DEF Init
<1>5. /\ pc \in Places /\ running \in BOOLEAN /\ unlock_requested \in BOOLEAN
      /\ stop_requested \in BOOLEAN /\ pam \in PamPlaces /\ verdict \in Verdicts
  BY DEF Init, Places, PamPlaces, Verdicts
<1>6. /\ repeat \in {KeyPress(c) : c \in Codepoints} \cup {Plain("Backspace"), None}
      /\ starting \in Passwords \cup {None}
  BY DEF Init
<1> QED
  BY <1>3, <1>4, <1>5, <1>6 DEF TypeOK

\* No step gives a variable a value outside its type.
LEMMA TypeStep == TypeOK /\ [Next]_vars => TypeOK'
<1> SUFFICES ASSUME TypeOK, [Next]_vars PROVE TypeOK'
  OBVIOUS
<1>1. CASE KeyCallback
  <2>1. PICK e \in KeyEvents :
           /\ repeat' \in {KeyPress(c) : c \in Codepoints} \cup {Plain("Backspace"), None}
           /\ Apply(e)
           /\ UNCHANGED <<pc, running, batch, fingerprint_active, stop_requested,
                          pending_events, pamVars, fp>>
    BY <1>1, KeyCallbackCases
  <2>2. /\ state' \in States /\ starting' \in Passwords \cup {None}
        /\ unlock_requested' \in BOOLEAN
    BY <2>1, ApplyTypes, KeyEventFacts
  <2> QED
    BY <2>1, <2>2 DEF TypeOK, pamVars
<1>2. CASE HandleEvent
  <2>1. Head(batch) \in Events /\ Apply(Head(batch)) /\ Tail(batch) \in Seq(Reports)
    BY <1>2, AnswersOfTail, KeyEventFacts DEF HandleEvent, TypeOK
  <2>2. /\ state' \in States /\ starting' \in Passwords \cup {None}
        /\ unlock_requested' \in BOOLEAN
    BY <2>1, ApplyTypes
  <2>3. batch' \in Seq(Reports) /\ running' \in BOOLEAN /\ pc' \in Places
    <3>1. \/ running' = FALSE /\ batch' = <<>> /\ pc' = "stop"
          \/ batch' = Tail(batch) /\ running' = running /\ pc' = pc
      BY <1>2 DEF HandleEvent
    <3> QED
      <4>1. /\ running \in BOOLEAN /\ pc \in Places /\ "stop" \in Places
            /\ <<>> \in Seq(Reports) /\ FALSE \in BOOLEAN
        BY DEF TypeOK, Places
      <4> QED
        BY <2>1, <3>1, <4>1, Zenon
  <2> QED
    BY <1>2, <2>2, <2>3 DEF HandleEvent, TypeOK, pamVars
<1>3. CASE RepeatKey
  <2>1. /\ state' \in States /\ starting' \in Passwords \cup {None}
        /\ unlock_requested' \in BOOLEAN
    BY <1>3, RepeatCases, ApplyTypes, KeyEventFacts DEF RepeatKey
  <2> QED
    BY <1>3, <2>1 DEF RepeatKey, TypeOK, pamVars, Places
<1>4. CASE Post
  <2>1. Plain(IF verdict = "Success" THEN "AuthSuccess" ELSE "AuthFail") \in Reports
    BY DEF Plain, Reports
  <2>2. pending_events' \in Seq(Reports)
    BY <1>4, <2>1, AnswersOfPush DEF Post, push_event, TypeOK
  <2> QED
    BY <1>4, <2>2 DEF Post, TypeOK, mainVars, PamPlaces
<1>5. ASSUME NEW t \in {"FingerprintMatch", "FingerprintNoMatch"}, Report(t)
      PROVE  TypeOK'
  <2>1. Plain(t) \in Reports
    BY DEF Plain, Reports
  <2>2. pending_events' \in Seq(Reports)
    BY <1>5, <2>1, AnswersOfPush DEF Report, push_event, TypeOK
  <2> QED
    BY <1>5, <2>2 DEF Report, TypeOK, mainVars, pamVars
<1>6. CASE drain_events
  BY <1>6 DEF drain_events, TypeOK, pamVars, Places
<1>7. CASE SpawnPam
  BY <1>7 DEF SpawnPam, TypeOK, pamVars, PamPlaces
<1>8. CASE Verify \/ ThreadReturns
  BY <1>8 DEF Verify, ThreadReturns, TypeOK, mainVars, PamPlaces, Verdicts
<1>9. CASE ListenerReturns
  BY <1>9 DEF ListenerReturns, TypeOK, mainVars, pamVars
<1>10. CASE FirstEvent \/ EnterLoop \/ BatchDone \/ NoRepeat \/ PollReturns \/ ConnectionLost
  BY <1>10 DEF FirstEvent, EnterLoop, BatchDone, NoRepeat, PollReturns, ConnectionLost, TypeOK,
               pamVars, Places
<1>11. CASE StopFingerprint \/ JoinFingerprint \/ JoinPam
  BY <1>11 DEF StopFingerprint, JoinFingerprint, JoinPam, TypeOK, pamVars, Places
<1>12. CASE UNCHANGED vars
  BY <1>12 DEF vars, mainVars, pamVars, TypeOK
<1> QED
  BY <1>1, <1>2, <1>3, <1>4, <1>5, <1>6, <1>7, <1>8, <1>9, <1>10, <1>11, <1>12
     DEF Next, MainStep, PamStep, Terminated

\* Every variable has its type in every reachable state.
THEOREM TypeCorrect == Spec => []TypeOK
BY TypeInit, TypeStep, PTL DEF Spec

-----------------------------------------------------------------------------
(* Where the main thread is *)

\* The shape of the loop holds when main reaches its first dispatch.
LEMMA ShapeInit == Init => LoopShape /\ UnlockedIsFinal
BY DEF Init, LoopShape, UnlockedIsFinal, Idle, Unlocked

\* A key event that reaches dispatch outside Unlocked does not unlock.
LEMMA KeyKeepsLocked ==
    ASSUME TypeOK, NEW e \in KeyEvents, Apply(e), state # Unlocked
    PROVE  /\ state' # Unlocked /\ unlock_requested' = unlock_requested
           /\ e.type # "Submit" => starting' = starting
<1>1. Ignores(e) \/ Edits(e) \/ Submits(e)
  BY ApplyCases, KeyEventFacts DEF Accepts, Rejects, Matches, AnswerTypes
<1> QED
  BY <1>1 DEF Ignores, Edits, Submits, Editable, Unlocked, Authenticating

\* Every step keeps the shape of the loop, and what Unlocked means for it.
LEMMA ShapeStep == TypeOK /\ LoopShape /\ UnlockedIsFinal /\ [Next]_vars
                     => LoopShape' /\ UnlockedIsFinal'
<1> SUFFICES ASSUME TypeOK, LoopShape, UnlockedIsFinal, [Next]_vars
             PROVE  LoopShape' /\ UnlockedIsFinal'
  OBVIOUS
<1> USE DEF LoopShape, UnlockedIsFinal
<1>1. CASE KeyCallback
  <2>1. PICK e \in KeyEvents :
           /\ CallbacksRun /\ Apply(e)
           /\ UNCHANGED <<pc, running, batch>>
    BY <1>1, KeyCallbackCases
  <2>2. state # Unlocked
    BY <2>1 DEF CallbacksRun
  <2>3. state' # Unlocked /\ unlock_requested' = unlock_requested
    BY <2>1, <2>2, KeyKeepsLocked
  <2> QED
    BY <2>1, <2>2, <2>3 DEF CallbacksRun
<1>2. CASE HandleEvent
  <2>1. pc = "handle" /\ Head(batch) \in Reports /\ Apply(Head(batch))
    BY <1>2, AnswersOfTail DEF HandleEvent, TypeOK
  <2>2. state # Unlocked /\ running /\ starting = None /\ ~unlock_requested
    BY <2>1
  <2>3. \/ Ignores(Head(batch)) \/ Edits(Head(batch))
        \/ Accepts(Head(batch)) \/ Rejects(Head(batch)) \/ Matches(Head(batch))
    BY <2>1, ApplyCases, KeyEventFacts DEF Submits, Reports
  <2>4. starting' = None /\ (unlock_requested' <=> state' = Unlocked)
    BY <2>2, <2>3
       DEF Ignores, Edits, Accepts, Rejects, Matches, Editable, Unlocked, AuthError
  <2>5. state' \in States
    BY <2>1, ApplyTypes, KeyEventFacts
  <2>6. state'.kind = "Unlocked" <=> state' = Unlocked
    BY <2>5 DEF States, Unlocked, Idle
  <2>7. \/ state' = Unlocked /\ running' = FALSE /\ batch' = <<>> /\ pc' = "stop"
        \/ state' # Unlocked /\ running' = running /\ pc' = pc
    BY <1>2, <2>6 DEF HandleEvent
  <2> QED
    BY <2>1, <2>2, <2>4, <2>7
<1>3. CASE RepeatKey
  <2>1. repeat \in KeyEvents /\ repeat.type # "Submit" /\ Apply(repeat)
    BY <1>3, RepeatCases DEF RepeatKey
  <2>2. pc = "repeat" /\ state # Unlocked /\ starting = None
    BY <1>3 DEF RepeatKey
  <2>3. state' # Unlocked /\ unlock_requested' = unlock_requested /\ starting' = starting
    BY <2>1, <2>2, KeyKeepsLocked
  <2> QED
    BY <1>3, <2>2, <2>3 DEF RepeatKey
<1>4. CASE FirstEvent \/ EnterLoop \/ drain_events \/ BatchDone \/ NoRepeat \/ PollReturns \/ ConnectionLost
  BY <1>4 DEF FirstEvent, EnterLoop, drain_events, BatchDone, NoRepeat, PollReturns, ConnectionLost
<1>5. CASE StopFingerprint \/ JoinFingerprint \/ JoinPam
  BY <1>5 DEF StopFingerprint, JoinFingerprint, JoinPam
<1>6. CASE SpawnPam
  BY <1>6 DEF SpawnPam
<1>7. CASE PamStep \/ ListenerReturns
  BY <1>7 DEF PamStep, Verify, Post, ThreadReturns, ListenerReturns, mainVars
<1>8. CASE \E t \in {"FingerprintMatch", "FingerprintNoMatch"} : Report(t)
  BY <1>8 DEF Report, mainVars
<1>9. CASE UNCHANGED vars
  BY <1>9 DEF vars, mainVars
<1> QED
  BY <1>1, <1>2, <1>3, <1>4, <1>5, <1>6, <1>7, <1>8, <1>9 DEF Next, MainStep, Terminated

-----------------------------------------------------------------------------
(* Every attempt has its one answer, and no answer has another attempt *)

\* At the start no answer is due.
LEMMA AccountingInit == Init => Accounting
BY AnswersOfEmpty DEF Init, Accounting, AnswersMatchAttempt, OneAnswerPerAttempt,
   CleanStart, VerdictSound, Checking, Owed, Idle

\* Nothing is on its way.
Quiet == ~Owed /\ Answers(pending_events) = {} /\ Answers(batch) = {}

\* Outside Authenticating no verdict is owed, queued or drained.
LEMMA QuietUnlessChecking ==
    ASSUME Accounting, ~Checking \/ starting # None
    PROVE  Quiet
BY DEF Accounting, AnswersMatchAttempt, CleanStart, Quiet

\* Typing, erasing, escaping and submitting keep the accounts.
LEMMA KeyAccounts ==
    ASSUME TypeOK, Accounting, NEW e \in KeyEvents, Apply(e), starting = None,
           UNCHANGED <<pending_events, batch, pamVars>>
    PROVE  Accounting'
<1>1. VerdictSound'
  BY DEF Accounting, VerdictSound, pamVars
<1>2. Quiet => Quiet'
  BY DEF Quiet, Owed, pamVars, Answers
<1>3. Ignores(e) \/ Edits(e) \/ Submits(e) \/ Matches(e) \/ Accepts(e) \/ Rejects(e)
  BY ApplyCases, KeyEventFacts
<1>4. CASE Ignores(e)
  BY <1>4 DEF Ignores, Accounting, AnswersMatchAttempt, OneAnswerPerAttempt, CleanStart,
              VerdictSound, Checking, Owed, Answers, pamVars
<1>5. CASE Edits(e)
  <2>1. ~Checking /\ ~Checking' /\ starting' = None
    BY <1>5 DEF Edits, Editable, Checking
  <2>2. Quiet'
    BY <1>2, <2>1, QuietUnlessChecking
  <2> QED
    BY <1>1, <2>1, <2>2 DEF Accounting, AnswersMatchAttempt, OneAnswerPerAttempt,
                            CleanStart, Quiet
<1>6. CASE Submits(e)
  <2>1. ~Checking
    BY <1>6 DEF Submits, Checking
  <2>2. Quiet'
    BY <1>2, <2>1, QuietUnlessChecking
  <2>3. starting' # None /\ state' = Authenticating(starting')
    BY <1>6, NoneAssumption DEF Submits
  <2> QED
    BY <1>1, <2>2, <2>3 DEF Accounting, AnswersMatchAttempt, OneAnswerPerAttempt,
                            CleanStart, Quiet
<1> QED
  BY <1>3, <1>4, <1>5, <1>6, KeyEventFacts DEF Matches, Accepts, Rejects, AnswerTypes

\* A step that leaves the attempt, the thread and the queues alone.
LEMMA IdleAccounts ==
    ASSUME Accounting,
           UNCHANGED <<state, starting, pending_events, batch, pamVars>>
    PROVE  Accounting'
BY DEF Accounting, AnswersMatchAttempt, OneAnswerPerAttempt, CleanStart, VerdictSound,
       Checking, Owed, Answers, pamVars

Verdict == Plain(IF verdict = "Success" THEN "AuthSuccess" ELSE "AuthFail")

\* Dispatching a drained event uses up the answer it was, if it was one.
LEMMA HandleAccounts ==
    ASSUME TypeOK, LoopShape, Accounting, HandleEvent
    PROVE  Accounting'
<1> DEFINE e == Head(batch)
<1>1. /\ Tail(batch) \in Seq(Reports) /\ e \in Reports /\ e = batch[1] /\ 1 \in DOMAIN batch
      /\ \A i \in Answers(Tail(batch)) : i + 1 \in Answers(batch) /\ Tail(batch)[i] = batch[i + 1]
      /\ \A i \in Answers(batch) : i # 1 => i - 1 \in Answers(Tail(batch))
      /\ Answers(Tail(batch)) = {i \in DOMAIN Tail(batch) : i + 1 \in Answers(batch)}
  BY AnswersOfTail DEF HandleEvent, TypeOK
<1>2. /\ pc = "handle" /\ Apply(e) /\ UNCHANGED <<pending_events, pamVars>>
      /\ \/ state'.kind = "Unlocked" /\ batch' = <<>>
         \/ state'.kind # "Unlocked" /\ batch' = Tail(batch)
  BY DEF HandleEvent
<1>3. starting = None
  BY <1>2 DEF LoopShape
<1>4. VerdictSound'
  BY <1>2 DEF Accounting, VerdictSound, pamVars
<1>5. \/ Ignores(e) \/ Edits(e) \/ Accepts(e) \/ Rejects(e) \/ Matches(e)
  BY <1>1, <1>2, ApplyCases, KeyEventFacts DEF Submits, Reports
<1>6. e.type \in AnswerTypes <=> 1 \in Answers(batch)
  BY <1>1 DEF Answers
<1> HIDE DEF e
<1>7. CASE ~Checking
  <2>1. Quiet
    BY <1>7, QuietUnlessChecking
  <2>2. Answers(Tail(batch)) = {} /\ Answers(<<>>) = {}
    BY <1>1, <2>1, AnswersOfEmpty DEF Quiet
  <2>3. Quiet'
    BY <1>2, <2>1, <2>2 DEF Quiet, Owed, Answers, pamVars
  <2>4. ~Checking' /\ starting' = None
    BY <1>3, <1>5, <1>7
       DEF Ignores, Edits, Accepts, Rejects, Matches, Checking, Editable, Unlocked
  <2> QED
    BY <1>4, <2>3, <2>4 DEF Accounting, AnswersMatchAttempt, OneAnswerPerAttempt,
                            CleanStart, Quiet
<1>8. CASE Checking /\ Ignores(e)
  <2>1. UNCHANGED <<state, starting>> /\ batch' = Tail(batch) /\ 1 \notin Answers(batch)
    BY <1>2, <1>6, <1>8 DEF Ignores, Checking
  <2>2. \A i \in DOMAIN batch : Answers(batch) = {i} => Answers(batch') = {i - 1} /\ i - 1 \in DOMAIN batch'
    <3> SUFFICES ASSUME NEW i \in DOMAIN batch, Answers(batch) = {i}
                 PROVE  Answers(batch') = {i - 1} /\ i - 1 \in DOMAIN batch'
      OBVIOUS
    <3>1. i # 1 /\ i - 1 \in Answers(Tail(batch))
      BY <1>1, <2>1
    <3>2. \A j \in Answers(Tail(batch)) : j \in Nat /\ j + 1 = i
      BY <1>1 DEF Answers
    <3> QED
      BY <2>1, <3>1, <3>2 DEF Answers
  <2>3. Answers(batch) = {} => Answers(batch') = {}
    BY <1>1, <2>1
  <2>4. \A i \in Answers(batch') : i + 1 \in Answers(batch) /\ batch'[i] = batch[i + 1]
    BY <1>1, <2>1
  <2>5. AnswersMatchAttempt'
    BY <1>2, <2>1, <2>4 DEF Accounting, AnswersMatchAttempt, Checking, Owed, Answers, pamVars
  <2>6. OneAnswerPerAttempt'
    <3>1. /\ Owed' = Owed /\ Answers(pending_events)' = Answers(pending_events)
          /\ pending_events' = pending_events
      BY <1>2 DEF Owed, Answers, pamVars
    <3>2. OneAnswerPerAttempt
      BY DEF Accounting
    <3> QED
      BY <1>3, <1>8, <2>2, <2>3, <3>1, <3>2 DEF OneAnswerPerAttempt
  <2> QED
    BY <1>3, <1>4, <2>1, <2>5, <2>6 DEF Accounting, CleanStart
<1>9. CASE Checking /\ (Accepts(e) \/ Rejects(e))
  <2>1. 1 \in Answers(batch) /\ e.type \in AnswerTypes
    BY <1>6, <1>9 DEF Accepts, Rejects, AnswerTypes
  <2>2. Answers(batch) = {1} /\ ~Owed /\ Answers(pending_events) = {}
    BY <1>3, <1>9, <2>1 DEF Accounting, OneAnswerPerAttempt
  <2>3. Answers(Tail(batch)) = {}
    <3>1. \A i \in Answers(Tail(batch)) : i \in Nat /\ i # 0 /\ i + 1 = 1
      BY <1>1, <2>2 DEF Answers
    <3> QED
      BY <3>1
  <2>4. Quiet'
    BY <1>2, <2>2, <2>3, AnswersOfEmpty DEF Quiet, Owed, Answers, pamVars
  <2>5. ~Checking' /\ starting' = None
    BY <1>3, <1>9 DEF Accepts, Rejects, Checking, Unlocked, AuthError
  <2> QED
    BY <1>4, <2>4, <2>5 DEF Accounting, AnswersMatchAttempt, OneAnswerPerAttempt,
                            CleanStart, Quiet
<1> QED
  BY <1>5, <1>7, <1>8, <1>9 DEF Edits, Matches, Checking, Editable

\* Posting turns the answer owed into one in the queue.
LEMMA PostAccounts ==
    ASSUME TypeOK, Accounting, Post
    PROVE  Accounting'
<1>1. Owed /\ Checking /\ starting = None
  BY DEF Post, Owed, Accounting, AnswersMatchAttempt, CleanStart
<1>2. Answers(pending_events) = {} /\ Answers(batch) = {}
  BY <1>1 DEF Accounting, OneAnswerPerAttempt
<1>3. Verdict \in Reports /\ Verdict.type \in AnswerTypes
  BY DEF Verdict, Plain, Reports, AnswerTypes
<1> DEFINE n == Len(pending_events) + 1
<1>4. /\ pending_events' = Append(pending_events, Verdict)
      /\ Answers(pending_events') = {n} /\ pending_events'[n] = Verdict
      /\ n \in DOMAIN pending_events'
  <2>1. pending_events' = Append(pending_events, Verdict)
    BY DEF Post, push_event, Verdict
  <2>2. Answers(pending_events') = {n} /\ pending_events'[n] = Verdict
    BY <1>2, <1>3, <2>1, AnswersOfPush DEF TypeOK
  <2> QED
    BY <2>1, <2>2 DEF Answers
<1>5. ~Owed' /\ Answers(batch') = {} /\ UNCHANGED <<state, starting, pam_password, verdict>>
  BY <1>2 DEF Post, Owed, mainVars, Answers
<1> HIDE DEF n
<1>6. AnswersMatchAttempt'
  BY <1>1, <1>4, <1>5 DEF Accounting, AnswersMatchAttempt, Checking, Verdict, Owed
<1>7. OneAnswerPerAttempt'
  BY <1>4, <1>5 DEF OneAnswerPerAttempt
<1>8. CleanStart' /\ VerdictSound'
  BY <1>1, <1>5 DEF CleanStart, VerdictSound, Accounting, Post
<1> QED
  BY <1>6, <1>7, <1>8 DEF Accounting

\* A fingerprint report is not an answer.
LEMMA ReportAccounts ==
    ASSUME TypeOK, Accounting,
           NEW t \in {"FingerprintMatch", "FingerprintNoMatch"}, Report(t)
    PROVE  Accounting'
<1>1. Plain(t) \in Reports /\ Plain(t).type \notin AnswerTypes
  BY DEF Plain, Reports, AnswerTypes
<1>2. pending_events' = Append(pending_events, Plain(t))
  BY DEF Report, push_event
<1>3. /\ Answers(pending_events') = Answers(pending_events)
      /\ \A i \in Answers(pending_events) : pending_events'[i] = pending_events[i]
  <2> DEFINE q == Append(pending_events, Plain(t))
  <2>1. pending_events \in Seq(Reports)
    BY DEF TypeOK
  <2>2. Answers(q) = Answers(pending_events) /\ \A i \in Answers(pending_events) : q[i] = pending_events[i]
    BY <1>1, <2>1, AnswersOfPush
  <2>3. pending_events' = q
    BY <1>2
  <2> HIDE DEF q
  <2> QED
    BY <2>2, <2>3
<1>4. \A i : Answers(pending_events) = {i} => i \in DOMAIN pending_events'
  <2>1. Answers(pending_events') \subseteq DOMAIN pending_events'
    BY DEF Answers
  <2> QED
    BY <1>3, <2>1
<1>5. UNCHANGED <<state, starting, batch, pam, pam_password, verdict>>
  BY DEF Report, mainVars, pamVars
<1>6. Answers(batch') = Answers(batch) /\ Owed' = Owed /\ Checking' = Checking
  BY <1>5 DEF Answers, Owed, Checking
<1>7. AnswersMatchAttempt'
  BY <1>3, <1>5, <1>6 DEF Accounting, AnswersMatchAttempt
<1>8. OneAnswerPerAttempt'
  BY <1>3, <1>4, <1>5, <1>6 DEF Accounting, OneAnswerPerAttempt
<1>9. CleanStart' /\ VerdictSound'
  BY <1>3, <1>5, <1>6 DEF Accounting, CleanStart, VerdictSound
<1> QED
  BY <1>7, <1>8, <1>9 DEF Accounting

\* Draining moves the queue into the batch, which was empty.
LEMMA DrainAccounts ==
    ASSUME LoopShape, Accounting, drain_events
    PROVE  Accounting'
<1>1. /\ batch = <<>> /\ batch' = pending_events /\ pending_events' = <<>>
      /\ UNCHANGED <<state, starting, pam, pam_password, verdict>>
  BY DEF drain_events, LoopShape, pamVars
<1>2. Answers(batch) = {} /\ Answers(pending_events') = {}
  BY <1>1, AnswersOfEmpty
<1>3. AnswersMatchAttempt'
  BY <1>1, <1>2 DEF Accounting, AnswersMatchAttempt, Owed, Checking
<1>4. OneAnswerPerAttempt'
  BY <1>1, <1>2 DEF Accounting, OneAnswerPerAttempt, Owed, Checking
<1>5. CleanStart' /\ VerdictSound'
  BY <1>1, <1>2 DEF Accounting, CleanStart, VerdictSound, Owed
<1> QED
  BY <1>3, <1>4, <1>5 DEF Accounting

\* The thread spawned for an attempt owes its answer, and verifies its password.
LEMMA SpawnAccounts ==
    ASSUME Accounting, SpawnPam
    PROVE  Accounting'
<1>1. Quiet /\ state = Authenticating(starting)
  BY QuietUnlessChecking DEF SpawnPam, Accounting, CleanStart
<1>2. /\ pam' = "verifying" /\ pam_password' = starting /\ starting' = None
      /\ UNCHANGED <<state, pending_events, batch>>
  BY DEF SpawnPam
<1>3. Checking /\ state.password = starting
  BY <1>1 DEF Checking, Authenticating
<1>4. Answers(pending_events') = {} /\ Answers(batch') = {} /\ Owed' /\ Checking'
  BY <1>1, <1>2, <1>3 DEF Quiet, Answers, Owed, Checking
<1> QED
  BY <1>2, <1>3, <1>4 DEF Accounting, AnswersMatchAttempt, OneAnswerPerAttempt,
                          CleanStart, VerdictSound

\* PAM's answer, and the end of its thread, change no account.
LEMMA PamAccounts ==
    ASSUME Accounting, Verify \/ ThreadReturns
    PROVE  Accounting'
<1>1. UNCHANGED <<state, starting, pending_events, batch, pam_password>>
  BY DEF Verify, ThreadReturns, mainVars
<1>2. /\ Answers(pending_events') = Answers(pending_events)
      /\ Answers(batch') = Answers(batch) /\ Checking' = Checking
  BY <1>1 DEF Answers, Checking
<1>3. CASE Verify
  <2>1. Owed /\ Owed' /\ Checking /\ starting = None
    BY <1>3 DEF Verify, Owed, Accounting, AnswersMatchAttempt, CleanStart
  <2>2. Answers(pending_events) = {} /\ Answers(batch) = {}
    BY <2>1 DEF Accounting, OneAnswerPerAttempt
  <2>3. VerdictSound'
    BY <1>1, <1>3 DEF Verify, VerdictSound
  <2> QED
    BY <1>1, <1>2, <2>1, <2>2, <2>3
       DEF Accounting, AnswersMatchAttempt, OneAnswerPerAttempt, CleanStart
<1>4. CASE ThreadReturns
  <2>1. ~Owed /\ ~Owed' /\ pam # "verifying" /\ verdict' = verdict
    BY <1>4 DEF ThreadReturns, Owed
  <2> QED
    BY <1>1, <1>2, <2>1
       DEF Accounting, AnswersMatchAttempt, OneAnswerPerAttempt, CleanStart, VerdictSound
<1> QED
  BY <1>3, <1>4

\* Every step keeps the accounts of attempts and answers.
LEMMA AccountingStep == TypeOK /\ LoopShape /\ UnlockedIsFinal /\ Accounting /\ [Next]_vars
                          => Accounting'
<1> SUFFICES ASSUME TypeOK, LoopShape, UnlockedIsFinal, Accounting, [Next]_vars
             PROVE  Accounting'
  OBVIOUS
<1>1. CASE KeyCallback
  BY <1>1, KeyCallbackCases, KeyAccounts DEF CallbacksRun
<1>2. CASE RepeatKey
  <2>1. starting = None /\ Apply(repeat) /\ UNCHANGED <<pending_events, batch, pamVars>>
    BY <1>2 DEF RepeatKey, LoopShape
  <2> QED
    BY <1>2, <2>1, RepeatCases, KeyAccounts
<1>3. CASE HandleEvent
  BY <1>3, HandleAccounts
<1>4. CASE Post
  BY <1>4, PostAccounts
<1>5. CASE \E t \in {"FingerprintMatch", "FingerprintNoMatch"} : Report(t)
  BY <1>5, ReportAccounts
<1>6. CASE drain_events
  BY <1>6, DrainAccounts
<1>7. CASE SpawnPam
  BY <1>7, SpawnAccounts
<1>8. CASE Verify \/ ThreadReturns
  BY <1>8, PamAccounts
<1>9. CASE FirstEvent \/ EnterLoop \/ BatchDone \/ NoRepeat \/ PollReturns \/ ConnectionLost
  BY <1>9, IdleAccounts
     DEF FirstEvent, EnterLoop, BatchDone, NoRepeat, PollReturns, ConnectionLost
<1>10. CASE StopFingerprint \/ JoinFingerprint \/ JoinPam
  BY <1>10, IdleAccounts DEF StopFingerprint, JoinFingerprint, JoinPam
<1>11. CASE ListenerReturns \/ UNCHANGED vars
  BY <1>11, IdleAccounts DEF ListenerReturns, vars, mainVars
<1> QED
  BY <1>1, <1>2, <1>3, <1>4, <1>5, <1>6, <1>7, <1>8, <1>9, <1>10, <1>11
     DEF Next, MainStep, PamStep, Terminated

-----------------------------------------------------------------------------
(* The invariants *)

\* The inductive invariant: types, the loop's shape, and the accounts.
THEOREM Invariance == Spec => []IInv
<1>1. Init => IInv
  BY TypeInit, ShapeInit, AccountingInit DEF IInv
<1>2. IInv /\ [Next]_vars => IInv'
  BY TypeStep, ShapeStep, AccountingStep DEF IInv
<1> QED
  BY <1>1, <1>2, PTL DEF Spec

\* No verdict is ever taken for a password other than the one it is about.
THEOREM AnswersAreForTheAttempt == Spec => []AnswersMatchAttempt
<1>1. IInv => AnswersMatchAttempt
  BY DEF IInv, Accounting
<1> QED
  BY <1>1, Invariance, PTL

\* Every attempt has exactly one answer to come.
THEOREM AttemptsHaveOneAnswer == Spec => []OneAnswerPerAttempt
<1>1. IInv => OneAnswerPerAttempt
  BY DEF IInv, Accounting
<1> QED
  BY <1>1, Invariance, PTL

\* Submitting a password never makes the main thread wait for PAM.
THEOREM SubmitDoesNotBlock == Spec => []SubmitNeverWaitsForPam
<1>1. IInv => SubmitNeverWaitsForPam
  BY DEF IInv, Accounting, CleanStart, SubmitNeverWaitsForPam
<1> QED
  BY <1>1, Invariance, PTL

\* The session is unlocked exactly when the machine is, and for good.
THEOREM UnlockIsFinal == Spec => []UnlockedIsFinal
<1>1. IInv => UnlockedIsFinal
  BY DEF IInv
<1> QED
  BY <1>1, Invariance, PTL

\* No background thread takes the typed text away, except to unlock.
THEOREM TypingIsKept == Spec => TypedTextSurvives
<1>1. IInv /\ [Next]_vars
        => [state.kind = "Typing" /\ pc = "handle" => state' \in {state, Unlocked}]_vars
  <2> SUFFICES ASSUME IInv, Next, state.kind = "Typing", pc = "handle"
               PROVE  state' \in {state, Unlocked}
    OBVIOUS
  <2>1. CASE HandleEvent
    <3>1. Head(batch) \in Reports /\ Apply(Head(batch)) /\ TypeOK
      BY <2>1, AnswersOfTail DEF HandleEvent, IInv, TypeOK
    <3>2. Dispatch(state, Head(batch)) = Result(state, NoEffect) \/ state' = Unlocked
      BY <3>1 DEF Apply, Dispatch, Reports, ValidTransition, Specializations, Transition,
                  Unlock, Result
    <3> QED
      BY <3>1, <3>2 DEF Apply, Result
  <2>2. CASE KeyCallback
    <3>1. CallbacksRun
      BY <2>2, KeyCallbackCases DEF IInv
    <3> QED
      BY <3>1 DEF CallbacksRun
  <2>3. CASE RepeatKey
    BY <2>3 DEF RepeatKey
  <2> QED
    BY <2>1, <2>2, <2>3
       DEF Next, MainStep, PamStep, Terminated, SpawnPam, FirstEvent, EnterLoop, drain_events, BatchDone,
           NoRepeat, PollReturns, ConnectionLost, StopFingerprint, JoinFingerprint, JoinPam,
           Verify, Post, ThreadReturns, Report, ListenerReturns, mainVars, vars
<1> QED
  BY <1>1, Invariance, PTL DEF Spec, TypedTextSurvives

\* Whoever dispatches, the key callback, the repeat or the drained queue, every
\* change of state is one of the declared table.
THEOREM TableIsFollowed == Spec => StepsFollowTable
<1> DEFINE Follows ==
      \/ \E r \in TransitionTable : r[1] = state.kind /\ r[3] = state'.kind
      \/ state.kind = "Typing" /\ Len(state.buffer) <= 1 /\ state' = Idle
<1>1. TypeOK /\ [Next]_vars => [state' # state => Follows]_vars
  <2> SUFFICES ASSUME TypeOK, Next, state' # state PROVE Follows
    OBVIOUS
  <2>0. ASSUME NEW e \in Events, Apply(e) PROVE Follows
    BY <2>0, DispatchFollowsTable DEF TypeOK, Apply
  <2>1. CASE HandleEvent
    <3>1. Head(batch) \in Events /\ Apply(Head(batch))
      BY <2>1, AnswersOfTail, KeyEventFacts DEF HandleEvent, TypeOK
    <3> QED
      BY <2>0, <3>1
  <2>2. CASE KeyCallback
    BY <2>0, <2>2, KeyCallbackCases, KeyEventFacts
  <2>3. CASE RepeatKey
    <3>1. repeat \in Events /\ Apply(repeat)
      BY <2>3, RepeatCases, KeyEventFacts DEF RepeatKey
    <3> QED
      BY <2>0, <3>1
  <2> QED
    BY <2>1, <2>2, <2>3
       DEF Next, MainStep, PamStep, Terminated, SpawnPam, FirstEvent, EnterLoop, drain_events, BatchDone,
           NoRepeat, PollReturns, ConnectionLost, StopFingerprint, JoinFingerprint, JoinPam,
           Verify, Post, ThreadReturns, Report, ListenerReturns, mainVars, vars
<1> QED
  BY <1>1, TypeCorrect, PTL DEF Spec, StepsFollowTable

-----------------------------------------------------------------------------
(* The loop implements ScreenLock *)

\* A push adds a match to the queue only if it is one.
LEMMA MatchInPush ==
    ASSUME NEW q \in Seq(Reports), NEW e \in Reports
    PROVE  HasMatch(Append(q, e)) <=> HasMatch(q) \/ e.type = "FingerprintMatch"
<1>1. /\ DOMAIN Append(q, e) = DOMAIN q \cup {Len(q) + 1}
      /\ \A i \in DOMAIN q : Append(q, e)[i] = q[i]
      /\ Append(q, e)[Len(q) + 1] = e
  OBVIOUS
<1> QED
  BY <1>1 DEF HasMatch

\* A match in a batch is its head or is in the rest.
LEMMA MatchInTail ==
    ASSUME NEW q \in Seq(Reports), q # <<>>
    PROVE  HasMatch(q) <=> HasMatch(Tail(q)) \/ Head(q).type = "FingerprintMatch"
<1>1. /\ Head(q) = q[1] /\ 1 \in DOMAIN q
      /\ \A i \in DOMAIN Tail(q) : i + 1 \in DOMAIN q /\ Tail(q)[i] = q[i + 1]
      /\ \A i \in DOMAIN q : i # 1 => i - 1 \in DOMAIN Tail(q) /\ Tail(q)[i - 1] = q[i]
  OBVIOUS
<1>2. ASSUME HasMatch(q) PROVE HasMatch(Tail(q)) \/ Head(q).type = "FingerprintMatch"
  <2>1. PICK i \in DOMAIN q : q[i].type = "FingerprintMatch"
    BY <1>2 DEF HasMatch
  <2> QED
    BY <1>1, <2>1 DEF HasMatch
<1>3. ASSUME HasMatch(Tail(q)) PROVE HasMatch(q)
  <2>1. PICK i \in DOMAIN Tail(q) : Tail(q)[i].type = "FingerprintMatch"
    BY <1>3 DEF HasMatch
  <2>2. i + 1 \in DOMAIN q /\ q[i + 1].type = "FingerprintMatch"
    BY <1>1, <2>1
  <2> QED
    BY <2>2 DEF HasMatch
<1>4. ASSUME Head(q).type = "FingerprintMatch" PROVE HasMatch(q)
  BY <1>1, <1>4 DEF HasMatch
<1> QED
  BY <1>2, <1>3, <1>4

\* An empty queue holds no match.
LEMMA MatchInEmpty == ~HasMatch(<<>>)
BY DEF HasMatch

\* Screen and Attempt see only the lock state and how the loop stands.
LEMMA SameView ==
    ASSUME UNCHANGED <<state, running, unlock_requested>>
    PROVE  Screen' = Screen /\ Attempt' = Attempt
BY DEF Screen, Attempt, Checking

\* A change of the queues alone is ScreenLock's Touch, or nothing.
LEMMA TouchOrStutter ==
    ASSUME UNCHANGED <<Screen, Attempt>>
    PROVE  [Lock!Next]_Lock!vars
<1>1. Touched \in BOOLEAN /\ Touched' \in BOOLEAN
  BY DEF Touched, HasMatch
<1>2. CASE Touched' = Touched
  BY <1>2 DEF Lock!vars
<1>3. CASE Touched' # Touched
  <2>1. Touched' = ~Touched
    BY <1>1, <1>3
  <2>2. Lock!Touch
    BY <2>1 DEF Lock!Touch
  <2> QED
    BY <2>2 DEF Lock!Next
<1> QED
  BY <1>2, <1>3

\* The loop starts in an initial state of ScreenLock.
LEMMA RefinesInit == Init => Lock!Init
<1> SUFFICES ASSUME Init PROVE Lock!Init
  OBVIOUS
<1>1. Screen = "locked" /\ Attempt = None
  BY DEF Init, Screen, Attempt, Checking, Idle
<1>2. Touched = FALSE
  BY MatchInEmpty DEF Init, Touched
<1> QED
  BY <1>1, <1>2 DEF Lock!Init

\* A key event is a submission, or nothing the abstract lock sees.
LEMMA RefinesKey ==
    ASSUME IInv, NEW e \in KeyEvents, Apply(e), running, starting = None,
           UNCHANGED <<running, pending_events, batch>>
    PROVE  [Lock!Next]_Lock!vars
<1>0. TypeOK /\ UnlockedIsFinal
  BY DEF IInv
<1>1. Ignores(e) \/ Edits(e) \/ Submits(e)
  BY <1>0, ApplyCases, KeyEventFacts DEF Accepts, Rejects, Matches, AnswerTypes
<1>2. CASE Ignores(e)
  BY <1>2, SameView, TouchOrStutter DEF Ignores
<1>3. CASE Edits(e)
  BY <1>3, TouchOrStutter DEF Edits, Editable, Screen, Attempt, Checking
<1>4. CASE Submits(e)
  <2>1. ~unlock_requested /\ ~unlock_requested'
    BY <1>0, <1>4 DEF UnlockedIsFinal, Submits
  <2>2. Screen = "locked" /\ Screen' = Screen
    BY <2>1 DEF Screen
  <2>3. Attempt = None /\ Attempt' \in Passwords
    BY <1>4 DEF Submits, Attempt, Checking, Authenticating
  <2>4. Touched' = Touched
    BY DEF Touched, HasMatch
  <2> QED
    BY <2>2, <2>3, <2>4 DEF Lock!Next, Lock!Submit
<1> QED
  BY <1>1, <1>2, <1>3, <1>4

\* A drained event is an answer, a match, or nothing but a used-up report.
LEMMA RefinesHandle ==
    ASSUME IInv, HandleEvent
    PROVE  [Lock!Next]_Lock!vars
<1> DEFINE e == Head(batch)
<1>0. TypeOK /\ UnlockedIsFinal /\ LoopShape /\ Accounting
  BY DEF IInv
<1>1. pc = "handle" /\ batch # <<>> /\ batch \in Seq(Reports) /\ e \in Reports /\ Apply(e)
  BY <1>0, AnswersOfTail DEF HandleEvent, TypeOK
<1>2. /\ running /\ ~unlock_requested /\ starting = None
      /\ UNCHANGED pending_events
      /\ state'.kind # "Unlocked" => running' = running /\ batch' = Tail(batch)
  BY <1>0, <1>1 DEF UnlockedIsFinal, LoopShape, HandleEvent
<1>3. Screen = "locked"
  BY <1>2 DEF Screen
<1>4. \/ Ignores(e) \/ Edits(e) \/ Accepts(e) \/ Rejects(e) \/ Matches(e)
  BY <1>0, <1>1, ApplyCases, KeyEventFacts DEF Submits, Reports
<1>5. Touched' \in BOOLEAN
  BY DEF Touched, HasMatch
<1> HIDE DEF e
<1>6. CASE Ignores(e)
  <2>1. state'.kind # "Unlocked"
    BY <1>0, <1>2, <1>6 DEF Ignores, UnlockedIsFinal, TypeOK, States, Unlocked, Idle
  <2> QED
    BY <1>2, <1>6, <2>1, SameView, TouchOrStutter DEF Ignores
<1>7. CASE Edits(e)
  <2>1. running' = running
    BY <1>2, <1>7 DEF Edits, Editable
  <2> QED
    BY <1>7, <2>1, TouchOrStutter DEF Edits, Editable, Screen, Attempt, Checking
<1>8. CASE Accepts(e)
  <2>1. 1 \in Answers(batch) /\ batch[1] = e
    BY <1>1, <1>8, AnswersOfTail DEF e, Accepts, Answers, AnswerTypes
  <2>2. Checking /\ pam_password = state.password /\ e = Verdict
    BY <1>0, <2>1 DEF Accounting, AnswersMatchAttempt, Verdict
  <2>3. verdict = "Success" /\ ~Owed
    BY <1>0, <1>2, <1>8, <2>1, <2>2
       DEF Accepts, Verdict, Plain, Accounting, OneAnswerPerAttempt
  <2>4. Attempt = Secret
    BY <1>0, <2>2, <2>3 DEF Accounting, VerdictSound, Owed, Attempt
  <2>5. Screen' = "released" /\ Attempt' = None
    BY <1>8 DEF Accepts, Screen, Attempt, Checking, Unlocked
  <2> QED
    BY <1>3, <1>5, <2>4, <2>5 DEF Lock!Next, Lock!Accept
<1>9. CASE Rejects(e)
  <2>1. running' = running /\ batch' = Tail(batch)
    BY <1>2, <1>9 DEF Rejects, AuthError
  <2>2. Screen' = "locked" /\ Attempt' = None
    BY <1>2, <1>9, <2>1 DEF Rejects, Screen, Attempt, Checking, AuthError
  <2>3. Attempt # None
    BY <1>0, <1>9, NoneAssumption
       DEF Rejects, Attempt, Checking, TypeOK, States, Idle, Unlocked
  <2>4. Touched' = Touched
    <3>1. HasMatch(batch) <=> HasMatch(Tail(batch))
      BY <1>1, <1>9, MatchInTail DEF e, Rejects
    <3> QED
      BY <1>2, <2>1, <3>1 DEF Touched, HasMatch
  <2> QED
    BY <1>3, <2>2, <2>3, <2>4 DEF Lock!Next, Lock!Reject
<1>10. CASE Matches(e)
  <2>1. Touched
    BY <1>1, <1>10, MatchInTail DEF e, Matches, Touched
  <2>2. Screen' = "released" /\ Attempt = None /\ Attempt' = None
    BY <1>10 DEF Matches, Editable, Screen, Attempt, Checking, Unlocked
  <2> QED
    BY <1>3, <1>5, <2>1, <2>2 DEF Lock!Next, Lock!AcceptFinger
<1> QED
  BY <1>4, <1>6, <1>7, <1>8, <1>9, <1>10

\* For every character set, password and bound: the event loop, its queue and
\* its threads open the screen only as ScreenLock allows.
THEOREM Refinement == Spec => ImplementsScreenLock
<1>1. Init => Lock!Init
  BY RefinesInit
<1>2. IInv /\ [Next]_vars => [Lock!Next]_Lock!vars
  <2> SUFFICES ASSUME IInv, [Next]_vars PROVE [Lock!Next]_Lock!vars
    OBVIOUS
  <2>1. TypeOK /\ LoopShape /\ UnlockedIsFinal
    BY DEF IInv
  <2>2. CASE KeyCallback
    <3>1. PICK e \in KeyEvents : CallbacksRun /\ Apply(e)
                                 /\ UNCHANGED <<running, pending_events, batch>>
      BY <2>1, <2>2, KeyCallbackCases
    <3> QED
      BY <2>1, <3>1, RefinesKey DEF CallbacksRun, LoopShape
  <2>3. CASE RepeatKey
    <3>1. repeat \in KeyEvents /\ Apply(repeat) /\ running /\ starting = None
          /\ UNCHANGED <<running, pending_events, batch>>
      BY <2>1, <2>3, RepeatCases DEF RepeatKey, LoopShape
    <3> QED
      BY <3>1, RefinesKey
  <2>4. CASE HandleEvent
    BY <2>4, RefinesHandle
  <2>5. CASE ConnectionLost
    <3>1. Screen = "locked" /\ Screen' = "abandoned"
      BY <2>1, <2>5 DEF ConnectionLost, LoopShape, UnlockedIsFinal, Screen
    <3>2. Attempt' = Attempt /\ Touched' = Touched
      BY <2>5 DEF ConnectionLost, Attempt, Checking, Touched, HasMatch
    <3> QED
      BY <3>1, <3>2 DEF Lock!Next, Lock!Abandon
  <2>6. CASE SpawnPam \/ FirstEvent \/ EnterLoop \/ drain_events \/ BatchDone \/ NoRepeat \/ PollReturns
    <3>1. UNCHANGED <<state, running, unlock_requested>>
      BY <2>6 DEF SpawnPam, FirstEvent, EnterLoop, drain_events, BatchDone, NoRepeat, PollReturns
    <3> QED
      BY <3>1, SameView, TouchOrStutter
  <2>7. CASE StopFingerprint \/ JoinFingerprint \/ JoinPam
    <3>1. UNCHANGED <<state, running, unlock_requested>>
      BY <2>7 DEF StopFingerprint, JoinFingerprint, JoinPam
    <3> QED
      BY <3>1, SameView, TouchOrStutter
  <2>8. CASE PamStep \/ ListenerReturns \/ UNCHANGED vars
           \/ \E t \in {"FingerprintMatch", "FingerprintNoMatch"} : Report(t)
    <3>1. UNCHANGED <<state, running, unlock_requested>>
      BY <2>8 DEF PamStep, Verify, Post, ThreadReturns, ListenerReturns, Report, vars, mainVars
    <3> QED
      BY <3>1, SameView, TouchOrStutter
  <2> QED
    BY <2>2, <2>3, <2>4, <2>5, <2>6, <2>7, <2>8 DEF Next, MainStep, Terminated
<1> QED
  BY <1>1, <1>2, Invariance, PTL DEF Spec, ImplementsScreenLock, Lock!Safety
=============================================================================
