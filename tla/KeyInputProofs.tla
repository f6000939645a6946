---------------------------- MODULE KeyInputProofs ----------------------------
(***************************************************************************)
(* The safety properties of KeyInput, for any texts, repeat rates, delays  *)
(* (zero included), idle timeout, outputs and keymaps.                     *)
(***************************************************************************)
EXTENDS KeyInput, TLAPS, WellFoundedInduction

\* MinDelay is the least delay the compositor may announce.
LEMMA LeastDelay == MinDelay \in Nat /\ \A i \in Infos : MinDelay <= i.delay
<1>1. Delays \subseteq Nat /\ Delays # {}
  BY KeyInputAssumption DEF Delays
<1>2. PICK d \in Delays : \A e \in Delays : ~(<<e, d>> \in OpToRel(<, Nat))
  BY <1>1, WFMin, NatLessThanWellFounded, Zenon
<1>3. \A e \in Delays : d <= e
  <2> SUFFICES ASSUME NEW e \in Delays PROVE d <= e
    OBVIOUS
  <2>1. ~(e < d)
    BY <1>1, <1>2 DEF OpToRel
  <2> QED
    BY <1>1, <2>1
<1>4. MinDelay \in Delays /\ \A e \in Delays : MinDelay <= e
  BY <1>3 DEF MinDelay
<1> QED
  BY <1>1, <1>4 DEF Delays

\* A stopwatch goes on or stands.
LEMMA CountIsLater ==
    ASSUME NEW t \in Nat
    PROVE  Count(t) \in Nat /\ Count(t) \in {t, t + 1}
BY DEF Count

\* What set_dpms leaves of each output (client.cpp:305-312).
LEMMA PowerAfterSet ==
    ASSUME NEW on \in BOOLEAN, set_dpms(on), IInv
    PROVE  /\ power' \in [Outputs -> {"absent", "bare", "on", "off"}]
           /\ \A o \in Outputs : power'[o] \in {"on", "off"} => (power'[o] = "off" <=> ~on)
BY DEF set_dpms, IInv

\* Before the loop nothing is held, off or pressed.
LEMMA InitEstablishes == Init => IInv
<1> SUFFICES ASSUME Init PROVE IInv
  OBVIOUS
<1>1. power \in [Outputs -> {"absent", "bare", "on", "off"}] /\ DisplaysFollowFlag
  BY DEF Init, DisplaysFollowFlag
<1>2. references \in [Keymaps -> Int] /\ MapsAccounted
  BY KeyInputAssumption DEF Init, MapsAccounted, Held
<1>3. ClocksAgree /\ NothingDue /\ BriskTypingIsExact /\ OffOnlyWhenIdle
  BY DEF Init, ClocksAgree, NothingDue, BriskTypingIsExact, OffOnlyWhenIdle
<1> QED
  BY <1>1, <1>2, <1>3 DEF Init, IInv

\* The parts of the invariant that each step disturbs are these two: what was
\* typed against what was meant, and the displays against the flag and the clock.
TypingPart ==
    /\ since_start \in Nat /\ since_last \in Nat
    /\ IF repeating THEN left = since_start ELSE left = None
    /\ repeating \in BOOLEAN /\ brisk \in BOOLEAN
    /\ NothingDue /\ BriskTypingIsExact

DisplayPart ==
    /\ since_key \in Nat /\ idle_time = since_key /\ dpms_off \in BOOLEAN
    /\ power \in [Outputs -> {"absent", "bare", "on", "off"}]
    /\ DisplaysFollowFlag /\ OffOnlyWhenIdle

MapPart ==
    /\ xkb_keymap_ \in Keymaps \cup {None} /\ xkb_state_ \in Keymaps \cup {None}
    /\ references \in [Keymaps -> Int] /\ MapsAccounted

LEMMA Parts == IInv <=> info \in Infos /\ TypingPart /\ DisplayPart /\ MapPart
BY DEF IInv, ClocksAgree, TypingPart, DisplayPart, MapPart

LEMMA PartsAfter == info' \in Infos /\ TypingPart' /\ DisplayPart' /\ MapPart' => IInv'
BY DEF IInv, ClocksAgree, TypingPart, DisplayPart, MapPart

LEMMA TypingStands ==
    ASSUME TypingPart, UNCHANGED <<state, repeatVars, typedVars>>
    PROVE  TypingPart'
BY DEF TypingPart, NothingDue, BriskTypingIsExact, repeatVars, typedVars

LEMMA DisplayStands ==
    ASSUME DisplayPart, UNCHANGED <<timeVars, power>>
    PROVE  DisplayPart'
BY DEF DisplayPart, DisplaysFollowFlag, OffOnlyWhenIdle, timeVars

LEMMA MapStands ==
    ASSUME MapPart, UNCHANGED xkbVars
    PROVE  MapPart'
BY DEF MapPart, MapsAccounted, xkbVars

\* The wake-up of the key callback (main.cpp:248-253)
LEMMA WakeKeeps ==
    ASSUME IInv, WakeDisplays
    PROVE  DisplayPart'
<1>1. power' \in [Outputs -> {"absent", "bare", "on", "off"}] /\ DisplaysFollowFlag'
  <2>1. CASE dpms_off
    <3>1. set_dpms(TRUE) /\ dpms_off' = FALSE
      BY <2>1 DEF WakeDisplays
    <3> QED
      BY <3>1, PowerAfterSet DEF DisplaysFollowFlag
  <2>2. CASE ~dpms_off
    BY <2>2 DEF WakeDisplays, powerVars, IInv, DisplaysFollowFlag
  <2> QED
    BY <2>1, <2>2
<1>2. since_key' = 0 /\ idle_time' = 0 /\ dpms_off' = FALSE
  BY DEF WakeDisplays
<1> QED
  BY <1>1, <1>2 DEF DisplayPart, OffOnlyWhenIdle

LEMMA PressKeepsTyping ==
    ASSUME IInv, Press
    PROVE  TypingPart' /\ WakeDisplays /\ UNCHANGED <<info, xkbVars>>
<1>0. TypingPart
  BY Parts
<1>1. CASE PressReturn
  BY <1>0, <1>1 DEF PressReturn, TypingPart, NothingDue, BriskTypingIsExact
<1>2. CASE PressEscape
  <2>1. brisk => state' = meant'
    BY <1>0, <1>2 DEF PressEscape, Apply, TypingPart, BriskTypingIsExact
  <2> QED
    BY <1>0, <1>2, <2>1 DEF PressEscape, TypingPart, NothingDue, BriskTypingIsExact
<1>3. ASSUME NEW e, PressRepeatable(e)
      PROVE  TypingPart' /\ WakeDisplays /\ UNCHANGED <<info, xkbVars>>
  <2>1. brisk => state' = meant'
    BY <1>0, <1>3 DEF PressRepeatable, Apply, TypingPart, BriskTypingIsExact
  <2> QED
    BY <1>0, <1>3, <2>1 DEF PressRepeatable, Arm, TypingPart, NothingDue, BriskTypingIsExact
<1>4. CASE PressOther
  BY <1>0, <1>4, TypingStands DEF PressOther
<1> QED
  BY <1>1, <1>2, <1>3, <1>4 DEF Press

\* Pressing a key
LEMMA PressPreserves == IInv /\ Press => IInv'
BY Parts, PartsAfter, PressKeepsTyping, WakeKeeps, MapStands

\* A repeat that is due belongs to a key that was left alone for MinDelay.
LEMMA DueIsSlow ==
    ASSUME IInv, Due
    PROVE  ~brisk
<1>1. repeating /\ left = since_start /\ since_start \in Nat /\ since_last \in Nat
  BY DEF Due, IInv, ClocksAgree
<1>2. since_start >= info.delay /\ since_last > 0
  <2>1. RateInterval \in Int
    BY KeyInputAssumption DEF RateInterval, IInv
  <2> QED
    BY <1>1, <2>1 DEF Due
<1>3. MinDelay <= info.delay /\ info.delay \in Nat /\ MinDelay \in Nat
  BY LeastDelay, KeyInputAssumption DEF IInv
<1>4. left # None /\ ~(left < MinDelay) /\ since_last # 0
  BY <1>1, <1>2, <1>3, KeyInputAssumption
<1> QED
  BY <1>4 DEF IInv, NothingDue

\* main.cpp:340-352
LEMMA RepeatPreserves ==
    ASSUME IInv, RepeatStep
    PROVE  IInv'
<1>1. TypingPart'
  <2>1. CASE Due /\ FitsIn(state, repeat_event)
    BY <2>1, DueIsSlow
       DEF RepeatStep, IInv, ClocksAgree, TypingPart, typedVars, NothingDue, BriskTypingIsExact
  <2>2. CASE ~(Due /\ FitsIn(state, repeat_event))
    <3>1. UNCHANGED <<state, repeatVars, typedVars>>
      BY <2>2 DEF RepeatStep, repeatVars
    <3> QED
      BY <3>1, Parts, TypingStands
  <2> QED
    BY <2>1, <2>2
<1> QED
  BY <1>1, Parts, PartsAfter, DisplayStands, MapStands DEF RepeatStep, powerVars

\* main.cpp:366-374
LEMMA DpmsPreserves ==
    ASSUME IInv, DpmsStep
    PROVE  IInv'
<1>1. DisplayPart'
  <2>1. CASE has_dpms /\ ~dpms_off /\ DpmsTimeout > 0 /\ idle_time >= DpmsTimeout
    <3>1. set_dpms(FALSE) /\ dpms_off' = TRUE /\ UNCHANGED <<idle_time, since_key>>
      BY <2>1 DEF DpmsStep
    <3> QED
      BY <2>1, <3>1, PowerAfterSet
         DEF DisplayPart, IInv, ClocksAgree, DisplaysFollowFlag, OffOnlyWhenIdle
  <2>2. CASE ~(has_dpms /\ ~dpms_off /\ DpmsTimeout > 0 /\ idle_time >= DpmsTimeout)
    <3>1. UNCHANGED <<timeVars, power>>
      BY <2>2 DEF DpmsStep, powerVars, timeVars
    <3> QED
      BY <3>1, Parts, DisplayStands
  <2> QED
    BY <2>1, <2>2
<1> QED
  BY <1>1, Parts, PartsAfter, TypingStands, MapStands DEF DpmsStep

\* client.cpp:533-559
LEMMA KeymapPreserves ==
    ASSUME IInv, Keymap
    PROVE  IInv'
<1>1. PICK new \in Keymaps \cup {None} : handle_keyboard_keymap(new)
  BY DEF Keymap
<1>2. MapPart
  BY Parts
<1>3. MapPart'
  <2>1. references' \in [Keymaps -> Int]
    BY <1>1, <1>2 DEF handle_keyboard_keymap, Referenced, MapPart
  <2>2. ASSUME NEW m \in Keymaps
        PROVE  references'[m] = Held(m, xkb_keymap_, xkb_state_)'
    <3>1. references[m] = Held(m, xkb_keymap_, xkb_state_) /\ m # None
      BY <1>2, KeyInputAssumption DEF MapPart, MapsAccounted
    <3>2. references'[m] = references[m]
            + ((IF m = xkb_keymap_ THEN -1 ELSE 0) + (IF m = new THEN 1 ELSE 0)
                + (IF new # None /\ m = xkb_state_ THEN -1 ELSE 0) + (IF m = new THEN 1 ELSE 0))
      BY <1>1 DEF handle_keyboard_keymap, Referenced
    <3> QED
      BY <1>1, <3>1, <3>2 DEF handle_keyboard_keymap, Held
  <2> QED
    BY <1>1, <1>2, <2>1, <2>2 DEF handle_keyboard_keymap, MapPart, MapsAccounted
<1> QED
  BY <1>3, Parts, PartsAfter, TypingStands, DisplayStands DEF Keymap, powerVars

\* ~Client
LEMMA TerminatePreserves ==
    ASSUME IInv, Terminate
    PROVE  IInv'
<1>1. MapPart
  BY Parts
<1>2. MapPart'
  BY <1>1, KeyInputAssumption DEF Terminate, Referenced, MapPart, MapsAccounted, Held
<1> QED
  BY <1>2, Parts, PartsAfter, TypingStands, DisplayStands DEF Terminate, powerVars

\* A report changes both states alike.
LEMMA ReportPreserves ==
    ASSUME IInv, NEW type, Report(type)
    PROVE  IInv'
<1>1. brisk => state' = meant'
  BY DEF Report, Apply, IInv, BriskTypingIsExact
<1>2. TypingPart'
  BY <1>1 DEF Report, repeatVars, IInv, ClocksAgree, TypingPart, NothingDue, BriskTypingIsExact
<1> QED
  BY <1>2, Parts, PartsAfter, DisplayStands, MapStands DEF Report, powerVars

\* An output without a power object is added.
LEMMA PlugInPreserves ==
    ASSUME IInv, NEW o \in Outputs, PlugIn(o)
    PROVE  IInv'
<1>1. power' = [power EXCEPT ![o] = "bare"] /\ UNCHANGED timeVars
  BY DEF PlugIn
<1>2. DisplayPart'
  BY <1>1, Parts DEF DisplayPart, timeVars, DisplaysFollowFlag, OffOnlyWhenIdle
<1> QED
  BY <1>2, Parts, PartsAfter, TypingStands, MapStands DEF PlugIn

\* Time passes.
LEMMA TickPreserves ==
    ASSUME IInv, Tick
    PROVE  IInv'
<1>1. DisplayPart'
  <2>1. since_key' \in Nat /\ idle_time' = since_key' /\ since_key' >= since_key
    BY CountIsLater DEF Tick, IInv, ClocksAgree
  <2>2. DpmsTimeout \in Nat /\ since_key \in Nat
    BY KeyInputAssumption DEF IInv, ClocksAgree
  <2> QED
    BY <2>1, <2>2 DEF Tick, powerVars, IInv, DisplayPart, DisplaysFollowFlag, OffOnlyWhenIdle
<1>2. TypingPart'
  <2>1. since_start' \in Nat /\ since_last' \in Nat /\ UNCHANGED <<state, meant, repeating>>
    BY CountIsLater DEF Tick, IInv, ClocksAgree
  <2>2. IF repeating THEN left' = since_start' ELSE left' = None
    BY KeyInputAssumption DEF Tick, IInv, ClocksAgree
  <2>3. brisk' \in BOOLEAN /\ (brisk' => brisk /\ (left' = None \/ left' < MinDelay))
    BY DEF Tick, IInv
  <2> QED
    BY <2>1, <2>2, <2>3 DEF IInv, TypingPart, NothingDue, BriskTypingIsExact
<1> QED
  BY <1>1, <1>2, Parts, PartsAfter, MapStands DEF Tick

LEMMA StepPreserves == IInv /\ [Next]_vars => IInv'
<1> SUFFICES ASSUME IInv, [Next]_vars PROVE IInv'
  OBVIOUS
<1>1. CASE handle_keyboard_repeat_info
  BY <1>1, Parts, PartsAfter, TypingStands, DisplayStands, MapStands
     DEF handle_keyboard_repeat_info, powerVars
<1>2. CASE FirstEvent \/ EnterLoop \/ PollReturns \/ Drained \/ ConnectionLost
  BY <1>2, Parts, PartsAfter, TypingStands, DisplayStands, MapStands
     DEF FirstEvent, EnterLoop, PollReturns, Drained, ConnectionLost, powerVars, IInv
<1>3. CASE UNCHANGED vars
  BY <1>3, Parts, PartsAfter, TypingStands, DisplayStands, MapStands DEF vars, powerVars, IInv
<1> QED
  BY <1>1, <1>2, <1>3, PressPreserves, KeymapPreserves, PlugInPreserves, RepeatPreserves,
     DpmsPreserves, TerminatePreserves, ReportPreserves, TickPreserves
     DEF Next, LoopStep, Terminated

\* The clocks agree, and the four properties below, together.
THEOREM Invariance == Spec => []IInv
<1> QED
  BY InitEstablishes, StepPreserves, PTL DEF Spec

\* Keys that follow each other within the least delay give what was typed.
THEOREM BriskIsExact == Spec => []BriskTypingIsExact
<1>1. IInv => BriskTypingIsExact
  BY DEF IInv
<1> QED
  BY <1>1, Invariance, PTL

\* The compositor was told what the flag says, for every output with power.
THEOREM FlagIsFollowed == Spec => []DisplaysFollowFlag
<1>1. IInv => DisplaysFollowFlag
  BY DEF IInv
<1> QED
  BY <1>1, Invariance, PTL

\* The displays are off only after DpmsTimeout without a key.
THEOREM OffWhenIdle == Spec => []OffOnlyWhenIdle
<1>1. IInv => OffOnlyWhenIdle
  BY DEF IInv
<1> QED
  BY <1>1, Invariance, PTL

\* Keymaps are referenced exactly as often as the client holds them.
THEOREM MapsAreAccounted == Spec => []MapsAccounted
<1>1. IInv => MapsAccounted
  BY DEF IInv
<1> QED
  BY <1>1, Invariance, PTL

-----------------------------------------------------------------------------
(* The decoder *)

\* Six bits taken off a number and put back
LEMMA SixBits ==
    ASSUME NEW c \in Nat
    PROVE  c \div 64 \in Nat /\ (c % 64) \in 0..63 /\ c = (c \div 64) * 64 + (c % 64)
OBVIOUS

\* A continuation byte carries its six bits.
LEMMA Continuation ==
    ASSUME NEW d \in 0..63
    PROVE  Low6(128 + d) = d
BY DEF Low6

\* Six bits and six bits are twelve, and six more eighteen.
LEMMA TwiceSixBits ==
    ASSUME NEW c \in Nat
    PROVE  c \div 4096 = (c \div 64) \div 64 /\ c \div 262144 = (c \div 4096) \div 64
OBVIOUS

\* The three forms of more than one byte
LEMMA TwoBytes ==
    ASSUME NEW a \in Nat, NEW b \in Nat, a >= 128, a < 224
    PROVE  Codepoint(<<a, b>>) = (a % 32) * 64 + Low6(b)
BY DEF Codepoint, Decode

LEMMA ThreeBytes ==
    ASSUME NEW a \in Nat, NEW b \in Nat, NEW d \in Nat, a >= 224, a < 240
    PROVE  Codepoint(<<a, b, d>>) = (a % 16) * 4096 + Low6(b) * 64 + Low6(d)
BY DEF Codepoint, Decode

LEMMA FourBytes ==
    ASSUME NEW a \in Nat, NEW b \in Nat, NEW d \in Nat, NEW e \in Nat, a >= 240
    PROVE  Codepoint(<<a, b, d, e>>) = (a % 8) * (4096 * 64) + Low6(b) * 4096 + Low6(d) * 64 + Low6(e)
BY SMT DEF Codepoint, Decode

Unicode == {c \in Nat : c <= 1114111}

\* Whatever character a key stands for, of all Unicode has, the decoder gives it
\* back from its UTF-8 (client.cpp:566-587).
LEMMA DecodedIsEncoded ==
    ASSUME NEW c \in Unicode
    PROVE  Codepoint(Encode(c)) = c
<1> DEFINE q == c \div 64
           p == c \div 4096
           o == c \div 262144
<1>0. c \in Nat
  BY DEF Unicode
<1>1. q \in Nat /\ (c % 64) \in 0..63 /\ c = q * 64 + (c % 64)
  BY <1>0, SixBits
<1>2. p \in Nat /\ (q % 64) \in 0..63 /\ q = p * 64 + (q % 64)
  BY <1>0, <1>1, SixBits, TwiceSixBits
<1>3. o \in Nat /\ (p % 64) \in 0..63 /\ p = o * 64 + (p % 64)
  BY <1>0, <1>2, SixBits, TwiceSixBits
<1> HIDE DEF q, p, o
<1>4. Low6(128 + (c % 64)) = (c % 64) /\ Low6(128 + (q % 64)) = (q % 64) /\ Low6(128 + (p % 64)) = (p % 64)
  BY <1>0, <1>1, <1>2, <1>3, Continuation
<1>9. 128 + (c % 64) \in Nat /\ 128 + (q % 64) \in Nat /\ 128 + (p % 64) \in Nat
      /\ 192 + q \in Nat /\ 224 + p \in Nat /\ 240 + o \in Nat
  BY <1>0, <1>1, <1>2, <1>3
<1>5. CASE c < 128
  <2>1. Encode(c) = <<c>>
    BY <1>0, <1>5 DEF Encode
  <2> QED
    BY <1>0, <1>5, <2>1 DEF Codepoint, Decode
<1>6. CASE c >= 128 /\ c < 2048
  <2>1. Encode(c) = <<192 + q, 128 + (c % 64)>>
    BY <1>0, <1>6 DEF Encode, q
  <2>2. q \in 2..31
    BY <1>0, <1>1, <1>6
  <2>3. (192 + q) % 32 = q /\ 192 + q >= 128 /\ 192 + q < 224
    BY <2>2
  <2>4. Codepoint(Encode(c)) = q * 64 + (c % 64)
    <3> DEFINE a == 192 + q
               b == 128 + (c % 64)
    <3>1. a \in Nat /\ b \in Nat
      BY <1>9
    <3>2. Encode(c) = <<a, b>> /\ a % 32 = q
      BY <2>1, <2>3
    <3>3. a >= 128 /\ a < 224
      BY <2>3
    <3>4. Low6(b) = (c % 64)
      BY <1>4
    <3> HIDE DEF a, b
    <3> QED
      BY <3>1, <3>2, <3>3, <3>4, TwoBytes
  <2> QED
    BY <1>0, <1>1, <2>4
<1>7. CASE c >= 2048 /\ c < 65536
  <2>1. Encode(c) = <<224 + p, 128 + (q % 64), 128 + (c % 64)>>
    BY <1>0, <1>7 DEF Encode, p, q
  <2>2. p \in 0..15
    BY <1>0, <1>1, <1>2, <1>7
  <2>3. (224 + p) % 16 = p /\ 224 + p >= 224 /\ 224 + p < 240
    BY <2>2
  <2>4. Codepoint(Encode(c)) = p * 4096 + (q % 64) * 64 + (c % 64)
    <3> DEFINE a == 224 + p
               b == 128 + (q % 64)
               d == 128 + (c % 64)
    <3>1. a \in Nat /\ b \in Nat /\ d \in Nat
      BY <1>9
    <3>2. Encode(c) = <<a, b, d>> /\ a % 16 = p
      BY <2>1, <2>3
    <3>3. a >= 224 /\ a < 240
      BY <2>3
    <3>4. Low6(b) = (q % 64) /\ Low6(d) = (c % 64)
      BY <1>4
    <3> HIDE DEF a, b, d
    <3> QED
      BY <3>1, <3>2, <3>3, <3>4, ThreeBytes
  <2> QED
    BY <1>0, <1>1, <1>2, <2>4
<1>8. CASE c >= 65536
  <2>1. Encode(c) = <<240 + o, 128 + (p % 64), 128 + (q % 64), 128 + (c % 64)>>
    BY <1>0, <1>8 DEF Encode, o, p, q
  <2>2. o \in 0..4
    BY <1>0, <1>1, <1>2, <1>3 DEF Unicode
  <2>3. (240 + o) % 8 = o /\ 240 + o >= 240
    BY <2>2
  <2>4. Codepoint(Encode(c)) = o * (4096 * 64) + (p % 64) * 4096 + (q % 64) * 64 + (c % 64)
    <3> DEFINE a == 240 + o
               b == 128 + (p % 64)
               d == 128 + (q % 64)
               e == 128 + (c % 64)
    <3>1. a \in Nat /\ b \in Nat /\ d \in Nat /\ e \in Nat
      BY <1>9
    <3>2. Encode(c) = <<a, b, d, e>> /\ a % 8 = o
      BY <2>1, <2>3
    <3>3. a >= 240
      BY <2>3
    <3>4. Low6(b) = (p % 64) /\ Low6(d) = (q % 64) /\ Low6(e) = (c % 64)
      BY <1>4
    <3> HIDE DEF a, b, d, e
    <3> QED
      BY <3>1, <3>2, <3>3, <3>4, FourBytes
  <2> QED
    BY <1>0, <1>1, <1>2, <1>3, <2>4
<1> QED
  BY <1>0, <1>5, <1>6, <1>7, <1>8

\* What a key press adds to the password is the character its text says.
THEOREM CharactersAreDecoded == Spec => []DecodeInvertsEncode
<1>1. DecodeInvertsEncode
  BY DecodedIsEncoded, KeyInputAssumption DEF DecodeInvertsEncode, Unicode
<1> QED
  BY <1>1, PTL
=============================================================================
