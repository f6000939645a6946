-------------------------------- MODULE Capture --------------------------------
(***************************************************************************)
(* Taking the screenshots before the lock: capture_outputs and the frame   *)
(* listeners of wl::Client (src/wayland/client.cpp), against a compositor  *)
(* that plugs displays in, refuses frames or dies meanwhile; and what main *)
(* does with them, one background after the other for the lock surfaces.   *)
(*                                                                         *)
(* capture_outputs walks outputs_ and makes roundtrips inside that walk;   *)
(* they dispatch every event, those that append to outputs_ included.      *)
(***************************************************************************)
EXTENDS ShmBuffers, Sequences, SequencesExt

CONSTANTS
    Outputs,        \* every display that may ever be plugged in
    FirstOutputs    \* sequences of the ones connect() may have found

ASSUME CaptureAssumption ==
    /\ IsFiniteSet(Outputs) /\ None \notin Outputs
    /\ \A s \in FirstOutputs : s \in Seq(Outputs) /\ IsInjective(s)

VARIABLES
    pc,
    outputs_,       \* sequence of [output, sized]: sized, the mode has been told
    it, last,       \* the range-for: index of its element, and its end
    dangling,       \* outputs_ was reallocated under the range-for
    capture,        \* *active_capture_
    frame,          \* the output whose frame is being taken
    alive,          \* the outputs with a frame object that was not destroyed
    shots,          \* sequence of what each screenshot shows
    surfaces,       \* lock_surfaces_: each one's output
    backgrounds,    \* Renderer's
    sync,           \* a roundtrip waits for the compositor's answer
    s2c,            \* events under way
    link,           \* "up" or "lost"
    plug,           \* outputs the compositor has announced
    stage,          \* compositor: how far each output's frame is
    copied,         \* history: whose image capture.buf holds
    heard,          \* history: the frames capture was told of
    skipped         \* history: positions in outputs_ without a screenshot

walkVars == <<it, last, capture, frame, alive>>
compVars == <<plug, stage>>
captureVars == <<outputs_, walkVars, dangling, shots, sync, s2c, link, compVars, copied, heard, skipped>>
lockVars == <<surfaces, backgrounds>>
vars     == <<pc, captureVars, lockVars, fdVars>>

NoCapture == [width |-> FALSE, ready |-> FALSE, failed |-> FALSE, buf |-> NoBuffer]

Event(ev, o) == [ev |-> ev, output |-> o]

Places == {"connected", "outputs", "await_buffer", "roundtrip_buffer", "await_ready",
                  "roundtrip_ready", "captured", "locked", "crashed"}

TypeOK ==
    /\ pc \in Places /\ FdsTypeOK
    /\ outputs_ \in Seq([output : Outputs, sized : BOOLEAN])
    /\ it \in 1..(last + 1) /\ last \in 0..Len(outputs_)
    /\ dangling \in BOOLEAN /\ sync \in BOOLEAN
    /\ capture.width \in BOOLEAN /\ capture.ready \in BOOLEAN /\ capture.failed \in BOOLEAN
    /\ capture.buf \in Buffers(Outputs)
    /\ alive \subseteq Outputs /\ frame \in Outputs \cup {None} /\ copied \in Outputs \cup {None}
    /\ shots \in Seq(Outputs \cup {None}) /\ backgrounds \in Seq(Outputs \cup {None})
    /\ surfaces \in Seq(Outputs)
    /\ link \in {"up", "lost"}
    /\ plug \subseteq Outputs /\ heard \subseteq Outputs /\ skipped \subseteq Nat
    /\ stage \in [Outputs -> {"none", "asked", "offered", "copying", "over"}]

\* connect() has found some outputs, and their modes or not yet.
Init ==
    /\ pc = "connected" /\ FdsInit /\ surfaces = <<>> /\ backgrounds = <<>>
    /\ \E found \in FirstOutputs :
         /\ \E known \in SUBSET Range(found) :
              outputs_ = [i \in DOMAIN found |-> [output |-> found[i], sized |-> found[i] \in known]]
         /\ plug = Range(found)
    /\ it = 1 /\ last = 0 /\ dangling = FALSE
    /\ capture = NoCapture /\ frame = None /\ alive = {}
    /\ shots = <<>>
    /\ sync = FALSE /\ s2c = <<>> /\ link = "up"
    /\ stage = [o \in Outputs |-> "none"]
    /\ copied = None /\ heard = {} /\ skipped = {}

-----------------------------------------------------------------------------
(* capture_outputs *)

\* No screencopy manager, or background.screenshot is off
NoScreenshots ==
    /\ pc = "connected"
    /\ pc' = "captured"
    /\ skipped' = DOMAIN outputs_
    /\ UNCHANGED <<outputs_, walkVars, dangling, shots, sync, s2c, link, compVars, copied, heard, fdVars>>

StartCapture ==
    /\ pc = "connected"
    /\ pc' = "outputs"
    /\ it' = 1 /\ last' = Len(outputs_)
    /\ UNCHANGED <<outputs_, capture, frame, alive, dangling, shots, sync, s2c, link, compVars, copied,
                   heard, skipped, fdVars>>

\* Slip: continue and the loop's head both move on.
EndIteration_Twice ==
    /\ it' = it + 2
    /\ pc' = "outputs"
    /\ capture' = NoCapture /\ frame' = None
    /\ copied' = None /\ heard' = {}
    /\ UNCHANGED <<outputs_, last, dangling, sync, s2c, link, plug>>

\* Leaving an iteration: by then capture.buf has been closed.
EndIteration ==
    /\ it' = it + 1
    /\ pc' = "outputs"
    /\ capture' = NoCapture /\ frame' = None
    /\ copied' = None /\ heard' = {}
    /\ UNCHANGED <<outputs_, last, dangling, sync, s2c, link, plug>>

DestroyFrame ==
    /\ alive' = alive \ {frame}
    /\ stage' = [o \in Outputs |-> IF o = frame THEN "none" ELSE stage[o]]

\* Slip: the iteration is left with its frame alive.
SkipOutput_KeepsFrame ==
    /\ EndIteration
    /\ UNCHANGED <<alive, stage>>
    /\ skipped' = skipped \cup {it} /\ shots' = shots

\* continue, with the frame destroyed
SkipOutput ==
    /\ EndIteration
    /\ DestroyFrame
    /\ skipped' = skipped \cup {it} /\ shots' = shots

AskForFrame(o) ==
    /\ capture' = NoCapture
    /\ frame' = o /\ alive' = alive \cup {o}
    /\ stage' = [stage EXCEPT ![o] = "asked"]
    /\ pc' = "await_buffer"
    /\ UNCHANGED <<outputs_, it, last, dangling, shots, sync, s2c, link, plug, copied, heard, skipped>>

\* The walk's next element.  After a reallocation that is freed memory: what
\* was there, nothing that looks like an output, or the end of the process.
NextOutput ==
    /\ pc = "outputs"
    /\ UNCHANGED fdVars
    /\ \/ /\ it > last
          /\ pc' = "captured"
          /\ it' = 1 /\ last' = 0 /\ dangling' = FALSE
          /\ skipped' = skipped \cup ((last + 1)..Len(outputs_))
          /\ UNCHANGED <<outputs_, capture, frame, alive, shots, sync, s2c, link, compVars, copied, heard>>
       \/ it <= last /\ outputs_[it].sized /\ AskForFrame(outputs_[it].output)
       \/ it <= last /\ (dangling \/ ~outputs_[it].sized) /\ SkipOutput
       \/ it <= last /\ dangling /\ pc' = "crashed" /\ UNCHANGED captureVars

Roundtrip(place) ==
    /\ pc' = place
    /\ sync' = TRUE
    /\ UNCHANGED <<outputs_, walkVars, dangling, shots, s2c, link, compVars, copied, heard, skipped, fdVars>>

\* Slip: the first wait looks for a buffer only.
BufferAwaited_Forever == ~capture.width

BufferAwaited == ~capture.width /\ ~capture.failed

\* Slip: a buffer is usable when it has a descriptor.
Usable_ByNumber(buf) == buf.fd # -1

Usable(buf) == buf.data

\* With the frame's size known, a buffer for it and the copy
AwaitBuffer ==
    /\ pc = "await_buffer"
    /\ \/ BufferAwaited /\ Roundtrip("roundtrip_buffer")
       \/ ~BufferAwaited /\ capture.failed /\ SkipOutput /\ UNCHANGED fdVars
       \/ /\ ~BufferAwaited /\ ~capture.failed
          /\ \E made \in create_shm_buffer(frame, owner) :
               /\ owner' = made.own /\ unmapped' = (unmapped \/ made.unmapped)
               /\ harmed' = harmed
               /\ IF ~Usable(made.buf) THEN SkipOutput
                  ELSE /\ capture' = [capture EXCEPT !.buf = made.buf]
                       /\ stage' = [stage EXCEPT ![frame] = IF @ = "offered" THEN "copying" ELSE @]
                       /\ pc' = "await_ready"
                       /\ UNCHANGED <<outputs_, it, last, frame, alive, dangling, shots, sync, s2c, link,
                                      plug, copied, heard, skipped>>

CloseBuffer ==
    /\ owner' = Closed(owner, capture.buf.fd)
    /\ harmed' = (harmed \/ Harms(owner, capture.buf.fd))
    /\ UNCHANGED unmapped

\* Slip: what is left of a copy that failed is taken for a screenshot.
TakeShot_FailedToo ==
    /\ EndIteration
    /\ DestroyFrame
    /\ shots' = Append(shots, copied) /\ skipped' = skipped
    /\ CloseBuffer

\* The screenshot is copied out of the buffer, if it is ready.
TakeShot ==
    /\ EndIteration
    /\ DestroyFrame
    /\ IF capture.ready
         THEN shots' = Append(shots, copied) /\ skipped' = skipped
         ELSE shots' = shots /\ skipped' = skipped \cup {it}
    /\ CloseBuffer

AwaitReady ==
    /\ pc = "await_ready"
    /\ IF ~capture.ready /\ ~capture.failed
         THEN Roundtrip("roundtrip_ready")
         ELSE TakeShot

-----------------------------------------------------------------------------
(* The listeners, inside a roundtrip *)

\* std::vector grows by doubling: push_back moves the elements when their
\* number is a power of two.
Reallocates(n) == n \in {0, 1, 2, 4, 8, 16, 32}

handle_registry_global(o) ==
    /\ outputs_' = Append(outputs_, [output |-> o, sized |-> FALSE])
    /\ dangling' = (dangling \/ Reallocates(Len(outputs_)))
    /\ UNCHANGED <<capture, heard>>

handle_output_geometry(o) ==
    /\ outputs_' = [i \in DOMAIN outputs_ |->
           IF outputs_[i].output = o THEN [outputs_[i] EXCEPT !.sized = TRUE] ELSE outputs_[i]]
    /\ UNCHANGED <<capture, dangling, heard>>

\* The listeners do not look at the frame: libwayland drops what is sent to an
\* object that was destroyed.
handle_frame(e) ==
    /\ IF e.output \in alive
         THEN /\ capture' = CASE e.ev = "buffer" -> [capture EXCEPT !.width = TRUE]
                              [] e.ev = "ready"  -> [capture EXCEPT !.ready = TRUE]
                              [] e.ev = "failed" -> [capture EXCEPT !.failed = TRUE]
              /\ heard' = heard \cup {e.output}
         ELSE UNCHANGED <<capture, heard>>
    /\ UNCHANGED <<outputs_, dangling>>

InRoundtrip == pc \in {"roundtrip_buffer", "roundtrip_ready"}

Return == pc' = IF pc = "roundtrip_buffer" THEN "await_buffer" ELSE "await_ready"

DispatchEvent ==
    /\ InRoundtrip /\ s2c # <<>>
    /\ LET e == Head(s2c) IN
         CASE e.ev = "global"   -> handle_registry_global(e.output) /\ UNCHANGED <<pc, sync>>
           [] e.ev = "geometry" -> handle_output_geometry(e.output) /\ UNCHANGED <<pc, sync>>
           [] e.ev = "done"     -> Return /\ sync' = FALSE /\ UNCHANGED <<capture, outputs_, dangling, heard>>
           [] OTHER             -> handle_frame(e) /\ UNCHANGED <<pc, sync>>
    /\ s2c' = Tail(s2c)
    /\ UNCHANGED <<it, last, frame, alive, shots, link, compVars, copied, skipped, fdVars>>

\* On a dead connection the roundtrip returns at once.
RoundtripFails ==
    /\ InRoundtrip /\ link = "lost"
    /\ Return /\ sync' = FALSE
    /\ UNCHANGED <<outputs_, walkVars, dangling, shots, s2c, link, compVars, copied, heard, skipped, fdVars>>

-----------------------------------------------------------------------------
(* The compositor *)

Capturing == pc \in Places \ {"connected", "captured", "locked", "crashed"} /\ link = "up"

SendDone ==
    /\ InRoundtrip /\ link = "up"
    /\ sync /\ \A i \in DOMAIN s2c : s2c[i].ev # "done"
    /\ s2c' = Append(s2c, Event("done", None))
    /\ UNCHANGED <<pc, outputs_, walkVars, dangling, shots, sync, link, compVars, copied, heard, skipped, fdVars>>

ServeFrame(o) ==
    /\ Capturing
    /\ \/ stage[o] = "asked" /\ stage' = [stage EXCEPT ![o] = "offered"]
          /\ s2c' = Append(s2c, Event("buffer", o)) /\ copied' = copied
       \/ stage[o] = "copying" /\ stage' = [stage EXCEPT ![o] = "over"]
          /\ s2c' = Append(s2c, Event("ready", o)) /\ copied' = IF frame = o THEN o ELSE copied
       \/ stage[o] \in {"asked", "offered", "copying"} /\ stage' = [stage EXCEPT ![o] = "over"]
          /\ s2c' = Append(s2c, Event("failed", o)) /\ copied' = copied
    /\ UNCHANGED <<pc, outputs_, walkVars, dangling, shots, sync, link, plug, heard, skipped, fdVars>>

\* A display is plugged in: the global, and its mode once the client has bound it.
PlugIn(o) ==
    /\ Capturing /\ o \notin plug
    /\ plug' = plug \cup {o}
    /\ s2c' = s2c \o <<Event("global", o), Event("geometry", o)>>
    /\ UNCHANGED <<pc, outputs_, walkVars, dangling, shots, sync, link, stage, copied, heard, skipped, fdVars>>

CutOff ==
    /\ Capturing
    /\ link' = "lost"
    /\ UNCHANGED <<pc, outputs_, walkVars, dangling, shots, sync, s2c, compVars, copied, heard, skipped, fdVars>>

-----------------------------------------------------------------------------
(* main: lock_session, and the renderer's backgrounds *)

\* One background for each screenshot, in their order
set_backgrounds(pictures) == backgrounds' = pictures

\* A lock surface for every output known
lock_session ==
    /\ pc = "captured"
    /\ surfaces' = [i \in DOMAIN outputs_ |-> outputs_[i].output]
    /\ set_backgrounds(shots)
    /\ pc' = "locked"
    /\ UNCHANGED <<captureVars, fdVars>>

\* draw(): the background with the surface's index, or the plain colour
Background(i) == IF i \in DOMAIN backgrounds THEN backgrounds[i] ELSE None

CaptureStep ==
    /\ UNCHANGED lockVars
    /\ \/ StartCapture \/ NoScreenshots \/ NextOutput \/ AwaitBuffer \/ AwaitReady
       \/ DispatchEvent \/ RoundtripFails

Compositor ==
    /\ UNCHANGED lockVars
    /\ SendDone \/ \E o \in Outputs : ServeFrame(o)

\* The other parts of the process open and close descriptors at any time.
Other == pc \notin {"locked", "crashed"} /\ (OtherOpens \/ OtherCloses) /\ UNCHANGED <<pc, captureVars, lockVars>>

Ended == pc \in {"locked", "crashed"} /\ UNCHANGED vars

Next ==
    \/ CaptureStep \/ lock_session \/ Compositor \/ Other \/ Ended
    \/ UNCHANGED lockVars /\ (CutOff \/ \E o \in Outputs : PlugIn(o))

\* The client runs, and the compositor answers a roundtrip; it need not offer a
\* frame before that, but does not leave one waiting for ever.
Spec ==
    /\ Init /\ [][Next]_vars
    /\ WF_vars(CaptureStep) /\ WF_vars(lock_session)
    /\ WF_vars(UNCHANGED lockVars /\ SendDone)
    /\ \A o \in Outputs : WF_vars(UNCHANGED lockVars /\ ServeFrame(o))

-----------------------------------------------------------------------------
(* Properties *)

\* A capture is told of its own frame only: the listeners ignore which frame an
\* event is for (client.cpp:597-615), and one record serves them all.
HearsOwnFrame == heard \subseteq {frame}

\* Each screenshot is a whole picture of one output, and is drawn on that
\* output's surface, unless an output before it (or itself) has none: then the
\* pictures move up (client.cpp:355, renderer.cpp:123-127).
BackgroundsAlign ==
    /\ None \notin Range(shots)
    /\ \A i \in DOMAIN surfaces :
         Background(i) # surfaces[i] => \E j \in 1..i : j \in skipped

\* Whatever fails, the client has no descriptor open but its buffer's, and none
\* once the captures are over; and it closes nobody else's, although a buffer
\* that could not be mapped remembers a number (client.cpp:323-327, 380-384, 425).
DescriptorsAccounted ==
    /\ {f \in Fds : owner[f] = "client"} \subseteq (IF capture.buf.data THEN {capture.buf.fd} ELSE {})
    /\ ~harmed

\* main comes to lock the session whatever becomes of the screenshots, unless the
\* connection is lost (it then waits for ever) or a display is plugged in when
\* outputs_ is full (client.cpp:354, 366, 390, 463).
CaptureEnds == (pc = "connected") ~> (pc = "locked" \/ link = "lost" \/ dangling)

-----------------------------------------------------------------------------
(* An inductive invariant for HearsOwnFrame, BackgroundsAlign and           *)
(* DescriptorsAccounted                                                    *)

Copying == pc \in {"await_ready", "roundtrip_ready"}
Taking  == pc \in {"await_buffer", "roundtrip_buffer"} \/ Copying
Walking == pc = "outputs" \/ Taking

Captures == [width : BOOLEAN, ready : BOOLEAN, failed : BOOLEAN, buf : Buffers(Outputs)]

Traffic == [ev : {"global", "geometry", "buffer", "ready", "failed"}, output : Outputs]
             \cup {Event("done", None)}

Typed ==
    /\ pc \in Places /\ dangling \in BOOLEAN /\ sync \in BOOLEAN /\ link \in {"up", "lost"}
    /\ outputs_ \in Seq([output : Outputs, sized : BOOLEAN])
    /\ shots \in Seq(Outputs) /\ s2c \in Seq(Traffic)
    /\ alive \subseteq Outputs /\ heard \subseteq Outputs /\ plug \subseteq Outputs
    /\ skipped \subseteq Nat
    /\ capture \in Captures
    /\ frame \in Outputs \cup {None} /\ copied \in Outputs \cup {None}
    /\ stage \in [Outputs -> {"none", "asked", "offered", "copying", "over"}]

\* Inside an iteration there is a frame, its element's; between two, nothing is
\* left of the last one.
InStep ==
    /\ last \in 0..Len(outputs_) /\ it \in 1..(last + 1)
    /\ IF Taking THEN it <= last /\ frame = outputs_[it].output
                 ELSE frame = None /\ copied = None /\ heard = {} /\ capture = NoCapture
    /\ ~Walking /\ pc # "crashed" => it = 1 /\ last = 0
    /\ pc = "connected" => s2c = <<>>

\* The client's one descriptor is the buffer's, from its making to its closing.
BufferHeld ==
    /\ FdsTypeOK /\ ~harmed
    /\ IF Copying THEN /\ capture.buf.data
                       /\ \A f \in Fds : owner[f] = "client" <=> f = capture.buf.fd
                  ELSE /\ capture.buf = NoBuffer
                       /\ \A f \in Fds : owner[f] # "client"

\* Only the frame being taken is alive, and served.
OneFrame ==
    /\ alive \subseteq {frame} /\ heard \subseteq {frame}
    /\ \A o \in Outputs : stage[o] # "none" => o = frame

\* Each output is announced once, and bound once.
BoundOnce ==
    /\ \A i, j \in DOMAIN outputs_ : outputs_[i].output = outputs_[j].output => i = j
    /\ \A i \in DOMAIN outputs_ : outputs_[i].output \in plug
    /\ \A k \in DOMAIN s2c : s2c[k].ev = "global" =>
         /\ s2c[k].output \in plug
         /\ \A i \in DOMAIN outputs_ : outputs_[i].output # s2c[k].output
         /\ \A l \in DOMAIN s2c : s2c[l] = s2c[k] => l = k

\* Elements of outputs_ whose iteration has begun
Begun == IF Taking THEN 1..it ELSE 1..(it - 1)

\* A picture announced is one of an output the walk has come to; and the frame's
\* own is in the buffer.
Pictures ==
    /\ capture.ready => copied = frame
    /\ Walking =>
         \A k \in DOMAIN s2c : s2c[k].ev = "ready" =>
           /\ \E i \in Begun : outputs_[i].output = s2c[k].output
           /\ s2c[k].output = frame => copied = frame

\* No element up to n was left without a screenshot.
Unbroken(n) == \A j \in 1..n : j \notin skipped

\* Up to the first element without one, the screenshots are the elements' in
\* their order.
ShotsAlign ==
    /\ Walking =>
         /\ Unbroken(it - 1) => Len(shots) = it - 1
         /\ \A i \in 1..(it - 1) :
              Unbroken(i) => i \in DOMAIN shots /\ shots[i] = outputs_[i].output
    /\ pc \in {"captured", "locked"} =>
         \A i \in DOMAIN outputs_ :
           Unbroken(i) => i \in DOMAIN shots /\ shots[i] = outputs_[i].output
    /\ pc = "connected" => shots = <<>>

Drawn ==
    IF pc = "locked"
      THEN backgrounds = shots /\ surfaces = [i \in DOMAIN outputs_ |-> outputs_[i].output]
      ELSE backgrounds = <<>> /\ surfaces = <<>>

IInv == Typed /\ InStep /\ BufferHeld /\ OneFrame /\ BoundOnce /\ Pictures /\ ShotsAlign /\ Drawn
=============================================================================
