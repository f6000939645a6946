-------------------------------- MODULE Render --------------------------------
(***************************************************************************)
(* What the lock surfaces show: render_all, the animations and the redraw  *)
(* flags of main (src/main.cpp), the buffers of wl::Client (src/wayland    *)
(* /client.cpp) and what Renderer::draw puts into them (src/render         *)
(* /renderer.cpp).                                                         *)
(*                                                                         *)
(* Time is left out: the fade-in, or the two animations of an error, may   *)
(* be over in any turn.  What PAM and the reader say reaches the lock      *)
(* state as in EventLoop.                                                  *)
(***************************************************************************)
EXTENDS LockMachine, ShmBuffers, SequencesExt

CONSTANTS
    Surfaces,   \* number of lock surfaces lock_session made
    Sizes,      \* sizes the compositor may configure
    MaxLen      \* bound: longest text in the lock state

ASSUME RenderAssumption == None \notin Sizes /\ MaxLen \in Nat /\ Surfaces \in Nat

VARIABLES
    pc,
    state,              \* the lock machine's
    surfaces,           \* lock_surfaces_: [size, needs_redraw], size None while unknown
    buffers,
    shown,              \* history, by surface: "nothing", the view as it is ("view"), or an "old" one
    next,               \* index of the loops over surfaces and buffers
    animating           \* fade_in, shake_anim or error_fade is not done

drawVars   == <<surfaces, buffers, shown, next>>
renderVars == <<state, drawVars, animating>>
vars       == <<pc, renderVars, fdVars>>

\* ViewModel, without its time
View(s) ==
    [status |-> CASE s.kind = "Authenticating" -> "Authenticating..."
                  [] s.kind = "Unlocked" -> ""
                  [] OTHER -> "Enter password",
     dots   |-> IF s.kind = "Typing" THEN Len(s.buffer) ELSE 0,
     error  |-> IF s.kind = "AuthError" THEN s.message ELSE None]

Places == {"start", "first", "drain", "animate", "render", "events", "cleanup", "gone"}

TypeOK ==
    /\ pc \in Places /\ FdsTypeOK
    /\ state \in States
    /\ \A i \in DOMAIN surfaces :
         surfaces[i].size \in Sizes \cup {None} /\ surfaces[i].needs_redraw \in BOOLEAN
    /\ \A i \in DOMAIN buffers : buffers[i] \in Buffers(Sizes)
    /\ Len(buffers) <= Len(surfaces) /\ Len(shown) = Len(surfaces)
    /\ next \in 1..(Len(surfaces) + 1)
    /\ animating \in BOOLEAN

\* lock_session has made the surfaces, main has begun the fade-in.
Init ==
    /\ pc = "start" /\ FdsInit
    /\ state = Idle
    /\ surfaces = [i \in 1..Surfaces |-> [size |-> None, needs_redraw |-> TRUE]]
    /\ shown = [i \in 1..Surfaces |-> "nothing"]
    /\ buffers = <<>> /\ next = 1
    /\ animating = TRUE

-----------------------------------------------------------------------------
(* State changes, and what they ask to be redrawn *)

RedrawAll == surfaces' = [i \in DOMAIN surfaces |-> [surfaces[i] EXCEPT !.needs_redraw = TRUE]]

\* Entering an error starts its animations anew.
BeginOnError ==
    animating' = (animating \/ (state'.kind = "AuthError" /\ state.kind # "AuthError"))

\* Bound: no more than MaxLen characters.
FitsIn(e) == (e.type = "KeyPress" /\ state.kind = "Typing") => Len(state.buffer) < MaxLen

\* What surface i shows is the view no longer.
Age(i) == IF shown[i] = "view" THEN "old" ELSE shown[i]

Apply(e) ==
    /\ FitsIn(e)
    /\ state' = Dispatch(state, e).state
    /\ shown' = [i \in DOMAIN shown |-> IF View(state') = View(state) THEN shown[i] ELSE Age(i)]

KeyEvents == {Plain("Submit"), Plain("Backspace"), Plain("Timeout")}
               \cup {KeyPress(c) : c \in Codepoints}

\* Inside dispatch(): the key callback
Key(e) ==
    /\ pc \in {"first", "events"}
    /\ Apply(e)
    /\ BeginOnError
    /\ RedrawAll
    /\ UNCHANGED <<pc, buffers, next, fdVars>>

\* Slip: the surface is not drawn for its new size.
Configure_NoRedraw(i, size) ==
    /\ pc \in {"start", "first", "events"}
    /\ surfaces' = [surfaces EXCEPT ![i].size = size]
    /\ shown' = [shown EXCEPT ![i] = Age(i)]
    /\ UNCHANGED <<pc, state, buffers, next, animating, fdVars>>

Configure(i, size) ==
    /\ pc \in {"start", "first", "events"}
    /\ surfaces' = [surfaces EXCEPT ![i].size = size, ![i].needs_redraw = TRUE]
    /\ shown' = [shown EXCEPT ![i] = Age(i)]
    /\ UNCHANGED <<pc, state, buffers, next, animating, fdVars>>

\* A report that is drained.  Unlocked leaves the loop: nothing is rendered any more.
Report(type) ==
    /\ pc = "drain"
    /\ Apply(Plain(type))
    /\ BeginOnError
    /\ IF state'.kind = "Unlocked"
         THEN pc' = "cleanup" /\ next' = 1 /\ UNCHANGED surfaces
         ELSE RedrawAll /\ UNCHANGED <<pc, next>>
    /\ UNCHANGED <<buffers, fdVars>>

\* Slip: a repeated key changes the state only.
Repeat_NoRedraw ==
    /\ pc = "drain"
    /\ pc' = "animate"
    /\ \/ UNCHANGED <<state, shown>>
       \/ \E e \in KeyEvents : e.type \in {"KeyPress", "Backspace"} /\ Apply(e)
    /\ UNCHANGED <<surfaces, buffers, next, animating, fdVars>>

\* With all reports drained, a key may be repeated, or none is due.
Repeat ==
    /\ pc = "drain"
    /\ pc' = "animate"
    /\ \/ UNCHANGED <<state, surfaces, shown>>
       \/ \E e \in KeyEvents : e.type \in {"KeyPress", "Backspace"} /\ Apply(e) /\ RedrawAll
    /\ UNCHANGED <<buffers, next, animating, fdVars>>

\* Slip: every turn adds a buffer for each surface.
Animate_Grows ==
    /\ pc = "animate"
    /\ pc' = "render" /\ next' = 1
    /\ animating' \in {animating, FALSE}
    /\ IF animating' THEN RedrawAll ELSE UNCHANGED surfaces
    /\ buffers' = buffers \o [i \in DOMAIN surfaces |-> NoBuffer]
    /\ UNCHANGED <<state, shown, fdVars>>

\* An animation that is not over wants a frame of every surface in this turn.
Animate ==
    /\ pc = "animate"
    /\ pc' = "render" /\ next' = 1
    /\ animating' \in {animating, FALSE}
    /\ IF animating' THEN RedrawAll ELSE UNCHANGED surfaces
    /\ buffers' = buffers \o [i \in 1..(Len(surfaces) - Len(buffers)) |-> NoBuffer]
    /\ UNCHANGED <<state, shown, fdVars>>

-----------------------------------------------------------------------------
(* render_all *)

\* The buffer is given back if its size is not the surface's; a buffer that
\* could not be made has the surface's size all the same, and is kept.
BufferFor(i) ==
    IF buffers[i].size = surfaces[i].size
      THEN {[buf |-> buffers[i], own |-> owner, unmapped |-> FALSE]}
      ELSE create_shm_buffer(surfaces[i].size, Closed(owner, buffers[i].fd))

Visit(i) == pc = "render" /\ next = i /\ i \in DOMAIN surfaces /\ next' = i + 1

Skip(i) ==
    /\ Visit(i)
    /\ ~surfaces[i].needs_redraw \/ surfaces[i].size = None
    /\ UNCHANGED <<pc, state, surfaces, buffers, shown, animating, fdVars>>

Draw(i) ==
    /\ Visit(i)
    /\ surfaces[i].needs_redraw /\ surfaces[i].size # None
    /\ \E made \in BufferFor(i) :
         /\ buffers' = [buffers EXCEPT ![i] = made.buf]
         /\ owner' = made.own /\ unmapped' = (unmapped \/ made.unmapped)
         /\ harmed' = (harmed \/ (buffers[i].size # surfaces[i].size /\ Harms(owner, buffers[i].fd)))
         /\ IF made.buf.data
              THEN /\ shown' = [shown EXCEPT ![i] = "view"]
                   /\ surfaces' = [surfaces EXCEPT ![i].needs_redraw = FALSE]
              ELSE UNCHANGED <<shown, surfaces>>
    /\ UNCHANGED <<pc, state, animating>>

Rendered ==
    /\ pc = "render" /\ next = Len(surfaces) + 1
    /\ pc' = "events" /\ next' = 1
    /\ UNCHANGED <<state, surfaces, buffers, shown, animating, fdVars>>

-----------------------------------------------------------------------------
(* The loop around it *)

\* The configures of lock_session's roundtrip are over, and the first dispatch
\* waits, without a time limit, for one more event of any kind.
FirstEvent ==
    /\ pc = "start"
    /\ pc' = "first"
    /\ UNCHANGED <<renderVars, fdVars>>

\* The events of the first dispatch were handled, or poll() is over.
TurnBegins ==
    /\ pc \in {"first", "events"}
    /\ pc' = "drain"
    /\ UNCHANGED <<renderVars, fdVars>>

ConnectionLost ==
    /\ pc = "events"
    /\ pc' = "cleanup"
    /\ UNCHANGED <<renderVars, fdVars>>

Cleanup ==
    /\ pc = "cleanup"
    /\ IF next \in DOMAIN buffers
         THEN /\ owner' = Closed(owner, buffers[next].fd)
              /\ harmed' = (harmed \/ Harms(owner, buffers[next].fd))
              /\ next' = next + 1 /\ pc' = pc
         ELSE pc' = "gone" /\ UNCHANGED <<owner, harmed, next>>
    /\ UNCHANGED <<state, surfaces, buffers, shown, animating, unmapped>>

\* The other parts of the process open and close descriptors at any time; what
\* matters is whether they do before the next buffer is made or closed.
Other == pc \in {"render", "cleanup"} /\ (OtherOpens \/ OtherCloses) /\ UNCHANGED <<pc, renderVars>>

Gone == pc = "gone" /\ UNCHANGED vars

LoopStep ==
    \/ TurnBegins \/ Repeat \/ Animate \/ Rendered \/ Cleanup
    \/ \E i \in 1..Surfaces : Skip(i) \/ Draw(i)

Next ==
    \/ FirstEvent \/ LoopStep \/ ConnectionLost \/ Other \/ Gone
    \/ \E e \in KeyEvents : Key(e)
    \/ \E i \in 1..Surfaces, size \in Sizes : Configure(i, size)
    \/ \E type \in {"AuthSuccess", "AuthFail", "FingerprintMatch", "FingerprintNoMatch"} :
         Report(type)

\* The loop turns.  Nothing else need happen, not even what the first dispatch
\* waits for.
Spec == Init /\ [][Next]_vars /\ WF_vars(LoopStep)

-----------------------------------------------------------------------------
(* Properties *)

\* The buffers whose descriptor is still to be closed
Unclosed == {i \in DOMAIN buffers : buffers[i].data /\ (pc \in {"cleanup", "gone"} => i >= next)}

NoneLeaks    == {f \in Fds : owner[f] = "client"} \subseteq {buffers[i].fd : i \in Unclosed}
ClosesItsOwn == harmed => unmapped

\* The client's descriptors are those of its buffers: none leaks, whatever fails
\* and however often a surface is resized, and in the end there is none.  And
\* nobody else's is closed, unless an mmap failed before: then its number is
\* remembered and closed again (client.cpp:319-327, main.cpp:139-156, 432-436).
DescriptorsAccounted == NoneLeaks /\ ClosesItsOwn

\* When main waits for events, every surface that could get a buffer shows the
\* view of the state as it is in its present size, whoever changed the state
\* in this turn; until the next key or configure of that wait.
ShownIsCurrent ==
    pc = "events" => \A i \in DOMAIN buffers :
        buffers[i].data /\ ~surfaces[i].needs_redraw => shown[i] = "view"

\* Its buffer could not be made, and is not tried again before the next resize.
Failed(i) == i \in DOMAIN buffers /\ ~buffers[i].data /\ buffers[i].size = surfaces[i].size

\* A surface whose size is known comes to show the view, whatever it showed and
\* however often it is resized, unless its buffer could not be made or main ends:
\* from the event on that ends the first dispatch (main.cpp:304).  Until then
\* nothing is drawn at all.
DrawnUnlessFailed ==
    \A i \in 1..Surfaces :
        (surfaces[i].size # None /\ pc \notin {"start", "cleanup", "gone"})
          ~> (shown[i] = "view" \/ Failed(i) \/ pc \in {"cleanup", "gone"})

-----------------------------------------------------------------------------
(* The inductive invariant behind the safety properties *)

Ended == pc \in {"cleanup", "gone"}

\* There are Surfaces surfaces; buffers are made for all of them at once, before
\* the first is rendered; the loops over them begin with the first.
Shaped ==
    /\ surfaces \in [1..Surfaces -> [size : Sizes \cup {None}, needs_redraw : BOOLEAN]]
    /\ shown \in [1..Surfaces -> {"nothing", "view", "old"}]
    /\ buffers \in Seq(Buffers(Sizes)) /\ Len(buffers) \in {0, Surfaces}
    /\ pc = "render" => Len(buffers) = Surfaces
    /\ next \in 1..(Surfaces + 1)
    /\ pc \in {"start", "first", "drain", "animate", "events"} => next = 1

\* A surface that need not be redrawn shows the view, wherever main is in its turn.
FreshUnlessAsked ==
    ~Ended => \A i \in 1..Surfaces : ~surfaces[i].needs_redraw => shown[i] = "view"

\* While no mapping has failed, a number that is remembered is one's own.
Unreleased(i) == i \in DOMAIN buffers /\ (Ended => i >= next)

RemembersItsOwn ==
    ~unmapped => \A i \in DOMAIN buffers : Unreleased(i) /\ buffers[i].fd # -1 =>
        /\ buffers[i].data /\ owner[buffers[i].fd] = "client"
        /\ \A j \in DOMAIN buffers : Unreleased(j) /\ buffers[j].fd = buffers[i].fd => i = j

IInv ==
    /\ pc \in Places /\ FdsTypeOK /\ state \in States /\ animating \in BOOLEAN
    /\ Shaped /\ FreshUnlessAsked
    /\ NoneLeaks /\ ClosesItsOwn /\ RemembersItsOwn
=============================================================================
