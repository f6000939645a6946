----------------------------- MODULE SessionLock -----------------------------
(***************************************************************************)
(* The ext-session-lock handshake between wl::Client (src/wayland/         *)
(* client.cpp) as main.cpp drives it, and the compositor.                  *)
(*                                                                         *)
(* A request the client makes waits in out until something flushes the     *)
(* connection: wl_display_flush, _roundtrip and a blocking _dispatch do,   *)
(* wl_display_disconnect does not.  The compositor is external; it is the  *)
(* one protocols/ext-session-lock-v1.xml describes.  What the user does    *)
(* about the lock is EventLoop's matter: here the screen may be unlocked,  *)
(* or the display lost, in any turn of the loop.                           *)
(***************************************************************************)
EXTENDS Naturals, Sequences, FiniteSets, SequencesExt

CONSTANTS
    Outputs,        \* every display that may ever be plugged in
    FirstOutputs,   \* what connect() may have found of them
    None,           \* "no output"
    Patient,        \* the compositor sends locked only after every surface is drawn
    MaxUnderWay     \* bound: messages under way before something unasked is added

ASSUME OutputsAssumption ==
    /\ IsFiniteSet(Outputs) /\ FirstOutputs \subseteq SUBSET Outputs /\ None \notin Outputs
    /\ Patient \in BOOLEAN /\ MaxUnderWay \in Nat

VARIABLES
    \* client
    pc,
    outputs_,       \* outputs known
    lock_,          \* lock_ is not null
    locked_, finished_,
    lock_surfaces_, \* outputs with a lock surface
    sized,          \* of these, the ones whose width and height are known
    needs_redraw,   \* of these, the ones to draw
    unlocked,       \* history: unlock_session() was called
    \* connection
    out,            \* requests not flushed
    c2s, s2c,       \* requests and events under way
    link,           \* "up", "closed" by the client, "lost"
    \* compositor
    session,        \* the lock: "none", "pending", "locked", "unlocked", or finished
                    \* by the compositor, before ("refused") or after locked ("ended")
    drawn,          \* each output's surface: "none", "created", "acked", "committed"
    plug,           \* each output: not yet plugged in ("new"), "in" or "out" again
    error           \* the client broke the protocol

objVars    == <<outputs_, lock_, locked_, finished_, lock_surfaces_, sized, needs_redraw>>
clientVars == <<pc, objVars, unlocked>>
compVars   == <<session, drawn, plug, error>>
vars       == <<clientVars, out, c2s, s2c, link, compVars>>

Request(op, o) == [op |-> op, output |-> o]
Event(ev, o)   == [ev |-> ev, output |-> o]

Places == {"connected", "roundtrip", "drain", "firstDispatch", "loop", "poll", "exit", "gone"}

TypeOK ==
    /\ pc \in Places
    /\ lock_ \in BOOLEAN /\ locked_ \in BOOLEAN /\ finished_ \in BOOLEAN
    /\ unlocked \in BOOLEAN /\ error \in BOOLEAN
    /\ outputs_ \subseteq Outputs
    /\ sized \subseteq lock_surfaces_ /\ needs_redraw \subseteq lock_surfaces_
    /\ lock_surfaces_ \subseteq outputs_
    /\ \A r \in Range(out) \cup Range(c2s) : r.output \in Outputs \cup {None}
    /\ \A e \in Range(s2c) : e.output \in Outputs \cup {None}
    /\ link \in {"up", "closed", "lost"}
    /\ session \in {"none", "pending", "locked", "refused", "ended", "unlocked"}
    /\ drawn \in [Outputs -> {"none", "created", "acked", "committed"}]
    /\ plug \in [Outputs -> {"new", "in", "out"}]

\* connect() has bound the globals; screenshots have been taken.
Init ==
    /\ pc = "connected"
    /\ outputs_ \in FirstOutputs
    /\ plug = [o \in Outputs |-> IF o \in outputs_ THEN "in" ELSE "new"]
    /\ lock_ = FALSE /\ locked_ = FALSE /\ finished_ = FALSE /\ unlocked = FALSE
    /\ lock_surfaces_ = {} /\ sized = {} /\ needs_redraw = {}
    /\ out = <<>> /\ c2s = <<>> /\ s2c = <<>> /\ link = "up"
    /\ session = "none" /\ drawn = [o \in Outputs |-> "none"] /\ error = FALSE

-----------------------------------------------------------------------------
(* Client: locking *)

\* One request per output, in the order of the vector; the order is immaterial.
ForEach(op, S) == LET q == SetToSeq(S) IN [i \in DOMAIN q |-> Request(op, q[i])]

\* Bytes reach the compositor only while the connection is up.
Flushed(requests) == IF link = "up" THEN c2s \o requests ELSE c2s

\* lock, a lock surface on every output known, and the roundtrip's sync.
lock_session ==
    /\ pc = "connected"
    /\ lock_' = TRUE
    /\ lock_surfaces_' = outputs_ /\ needs_redraw' = outputs_
    /\ c2s' = Flushed(out \o <<Request("lock", None)>> \o ForEach("get_lock_surface", outputs_)
                          \o <<Request("sync", None)>>)
    /\ out' = <<>>
    /\ pc' = "roundtrip"
    /\ UNCHANGED <<outputs_, locked_, finished_, sized, unlocked, s2c, link, compVars>>

\* A roundtrip on a dead connection returns; lock_session looks at no result.
RoundtripFails ==
    /\ pc = "roundtrip" /\ link = "lost" /\ s2c = <<>>
    /\ pc' = "drain"
    /\ UNCHANGED <<objVars, unlocked, out, c2s, s2c, link, compVars>>

-----------------------------------------------------------------------------
(* Client: the listeners *)

\* Slip: the configure is not acknowledged.
handle_lock_surface_configure_NoAck(o) ==
    /\ sized' = sized \cup ({o} \cap lock_surfaces_)
    /\ needs_redraw' = needs_redraw \cup ({o} \cap lock_surfaces_)
    /\ UNCHANGED <<out, outputs_, locked_, finished_>>

handle_lock_surface_configure(o) ==
    /\ out' = Append(out, Request("ack_configure", o))
    /\ sized' = sized \cup ({o} \cap lock_surfaces_)
    /\ needs_redraw' = needs_redraw \cup ({o} \cap lock_surfaces_)
    /\ UNCHANGED <<outputs_, locked_, finished_>>

handle_lock_locked ==
    /\ locked_' = TRUE
    /\ UNCHANGED <<out, outputs_, finished_, sized, needs_redraw>>

\* Slip: a refused lock counts as locked.
handle_lock_finished_Locks ==
    /\ finished_' = TRUE /\ locked_' = TRUE
    /\ UNCHANGED <<out, outputs_, sized, needs_redraw>>

handle_lock_finished ==
    /\ finished_' = TRUE
    /\ UNCHANGED <<out, outputs_, locked_, sized, needs_redraw>>

\* A display plugged in later joins outputs_, and gets no lock surface.
handle_registry_global(o) ==
    /\ outputs_' = outputs_ \cup {o}
    /\ UNCHANGED <<out, locked_, finished_, sized, needs_redraw>>

\* handle_registry_remove ignores a display that is gone; the sync's done, the
\* keyboard's and the outputs' events change nothing here.
Handle(e) ==
    \/ e.ev = "configure" /\ handle_lock_surface_configure(e.output)
    \/ e.ev = "locked"    /\ handle_lock_locked
    \/ e.ev = "finished"  /\ handle_lock_finished
    \/ e.ev = "global"    /\ handle_registry_global(e.output)
    \/ e.ev \in {"done", "removed", "other"}
         /\ UNCHANGED <<out, outputs_, locked_, finished_, sized, needs_redraw>>

\* Where main is after it has dispatched an event.
AfterEvent(e) ==
    CASE pc = "roundtrip" /\ e.ev = "done" -> "drain"
      [] pc = "firstDispatch"              -> "poll"
      [] OTHER                             -> pc

\* One event is dispatched, wherever main is inside libwayland: lock_session's
\* roundtrip dispatches up to the sync's done and what was read along with it
\* ("drain"), the first dispatch at least one event, the poll what there is.
DispatchEvent ==
    /\ pc \in {"roundtrip", "drain", "firstDispatch", "poll"}
    /\ s2c # <<>>
    /\ s2c' = Tail(s2c)
    /\ Handle(Head(s2c))
    /\ pc' = AfterEvent(Head(s2c))
    /\ UNCHANGED <<lock_, lock_surfaces_, unlocked, c2s, link, compVars>>

RoundtripReturns ==
    /\ pc = "drain"
    /\ pc' = "firstDispatch"
    /\ UNCHANGED <<objVars, unlocked, out, c2s, s2c, link, compVars>>

\* main.cpp:304 blocks, with what was requested so far flushed.
FirstDispatchFlushes ==
    /\ pc = "firstDispatch" /\ out # <<>>
    /\ c2s' = Flushed(out) /\ out' = <<>>
    /\ UNCHANGED <<clientVars, s2c, link, compVars>>

FirstDispatchFails ==
    /\ pc = "firstDispatch" /\ link = "lost" /\ s2c = <<>>
    /\ pc' = "poll"
    /\ UNCHANGED <<objVars, unlocked, out, c2s, s2c, link, compVars>>

-----------------------------------------------------------------------------
(* Client: the loop *)

\* poll() timed out, or what it dispatched is over.
NextTurn ==
    /\ pc = "poll"
    /\ pc' = "loop"
    /\ UNCHANGED <<objVars, unlocked, out, c2s, s2c, link, compVars>>

\* The compositor says nothing unasked, and nobody asks for a redraw, beyond this.
Room == Len(out) + Len(c2s) + Len(s2c) < MaxUnderWay

\* A key, a drained event, a key repeat or an animation wants all surfaces drawn.
RedrawAll ==
    /\ pc \in {"loop", "poll"} /\ Room
    /\ needs_redraw' = lock_surfaces_
    /\ UNCHANGED <<pc, outputs_, lock_, locked_, finished_, lock_surfaces_, sized, unlocked,
                   out, c2s, s2c, link, compVars>>

\* Slip: the turn ends without a flush.
RenderAndPoll_NoFlush ==
    /\ pc = "loop"
    /\ out' = out \o ForEach("commit", needs_redraw \cap sized)
    /\ needs_redraw' = needs_redraw \ sized
    /\ pc' = "poll"
    /\ UNCHANGED <<outputs_, lock_, locked_, finished_, lock_surfaces_, sized, unlocked,
                   c2s, s2c, link, compVars>>

\* render_all attaches and commits what needs it, and client.flush() sends all.
RenderAndPoll ==
    /\ pc = "loop"
    /\ c2s' = Flushed(out \o ForEach("commit", needs_redraw \cap sized)) /\ out' = <<>>
    /\ needs_redraw' = needs_redraw \ sized
    /\ pc' = "poll"
    /\ UNCHANGED <<outputs_, lock_, locked_, finished_, lock_surfaces_, sized, unlocked,
                   s2c, link, compVars>>

\* Slip: unlock without a look at locked_.
unlock_session_Unchecked ==
    /\ out' = out \o ForEach("destroy_surface", lock_surfaces_) \o <<Request("unlock_and_destroy", None)>>
    /\ lock_surfaces_' = {} /\ sized' = {} /\ needs_redraw' = {}
    /\ lock_' = FALSE /\ locked_' = FALSE

\* Slip: the surfaces are gone, what is known of their size is not.
unlock_session_KeepsSizes ==
    IF lock_ /\ locked_
      THEN /\ out' = out \o ForEach("destroy_surface", lock_surfaces_)
                         \o <<Request("unlock_and_destroy", None)>>
           /\ lock_surfaces_' = {} /\ needs_redraw' = {}
           /\ lock_' = FALSE /\ locked_' = FALSE
           /\ UNCHANGED sized
      ELSE UNCHANGED <<out, lock_surfaces_, sized, needs_redraw, lock_, locked_>>

unlock_session ==
    IF lock_ /\ locked_
      THEN /\ out' = out \o ForEach("destroy_surface", lock_surfaces_)
                         \o <<Request("unlock_and_destroy", None)>>
           /\ lock_surfaces_' = {} /\ sized' = {} /\ needs_redraw' = {}
           /\ lock_' = FALSE /\ locked_' = FALSE
      ELSE UNCHANGED <<out, lock_surfaces_, sized, needs_redraw, lock_, locked_>>

\* The lock machine reached Unlocked: ExitProgram, and the loop is left.
ExitProgram ==
    /\ pc = "loop"
    /\ unlock_session
    /\ unlocked' = TRUE
    /\ pc' = "exit"
    /\ UNCHANGED <<outputs_, finished_, c2s, s2c, link, compVars>>

\* Slip: the result of dispatch() is not looked at.
ConnectionLost_Ignored ==
    /\ pc = "poll" /\ link = "lost" /\ s2c = <<>>
    /\ pc' = "loop"
    /\ UNCHANGED <<objVars, unlocked, out, c2s, s2c, link, compVars>>

\* client.dispatch() < 0
ConnectionLost ==
    /\ pc = "poll" /\ link = "lost" /\ s2c = <<>>
    /\ pc' = "exit"
    /\ UNCHANGED <<objVars, unlocked, out, c2s, s2c, link, compVars>>

\* ~Client: what is left is destroyed, and the display disconnected.
Destroy ==
    /\ pc = "exit"
    /\ out' = out \o ForEach("destroy_surface", lock_surfaces_)
                  \o (IF lock_ THEN <<Request("destroy", None)>> ELSE <<>>)
    /\ lock_surfaces_' = {} /\ sized' = {} /\ needs_redraw' = {} /\ lock_' = FALSE
    /\ pc' = "gone"
    /\ link' = IF link = "up" THEN "closed" ELSE link
    /\ UNCHANGED <<outputs_, locked_, finished_, unlocked, c2s, s2c, compVars>>

-----------------------------------------------------------------------------
(* The compositor *)

Send(events) == s2c' = IF link = "up" THEN s2c \o events ELSE s2c

TakeLock == session' = "pending" /\ Send(<<>>)

\* Every output plugged in is covered; an impatient compositor draws the cover.
Covered == ~Patient \/ \A o \in Outputs : plug[o] = "in" => drawn[o] = "committed"

Draw(o, how) == drawn' = [drawn EXCEPT ![o] = how]

\* The locked event was sent, whatever became of the lock.
WasLocked == {"locked", "ended"}

Serve(r) ==
    \/ r.op = "lock" /\ TakeLock /\ UNCHANGED <<drawn, error>>
    \/ r.op = "get_lock_surface" /\ Draw(r.output, "created")
         /\ Send(IF session \notin {"refused", "ended"} /\ plug[r.output] = "in"
                    THEN <<Event("configure", r.output)>> ELSE <<>>)
         /\ UNCHANGED <<session, error>>
    \/ r.op = "ack_configure"
         /\ Draw(r.output, IF drawn[r.output] = "created" THEN "acked" ELSE drawn[r.output])
         /\ Send(<<>>) /\ UNCHANGED <<session, error>>
    \/ r.op = "commit" /\ Draw(r.output, "committed")
         /\ error' = (error \/ drawn[r.output] \notin {"acked", "committed"})
         /\ Send(<<>>) /\ UNCHANGED session
    \/ r.op = "destroy_surface" /\ Draw(r.output, "none")
         /\ Send(<<>>) /\ UNCHANGED <<session, error>>
    \/ r.op = "unlock_and_destroy" /\ error' = (error \/ session \notin WasLocked)
         /\ session' = (IF session = "locked" THEN "unlocked" ELSE session)
         /\ Send(<<>>) /\ UNCHANGED drawn
    \/ r.op = "sync" /\ Send(<<Event("done", None)>>) /\ UNCHANGED <<session, drawn, error>>

ServeRequest ==
    /\ link # "lost" /\ c2s # <<>>
    /\ c2s' = Tail(c2s)
    /\ Serve(Head(c2s))
    /\ UNCHANGED <<clientVars, out, link, plug>>

SendLocked ==
    /\ session = "pending" /\ Covered
    /\ session' = "locked"
    /\ Send(<<Event("locked", None)>>)
    /\ UNCHANGED <<clientVars, out, c2s, link, drawn, plug, error>>

\* finished says that the lock failed, at once or after a while, or that a lock
\* which was granted has been destroyed.
SendFinished ==
    /\ link = "up" /\ session \in {"pending", "locked"}
    /\ session' = IF session = "locked" THEN "ended" ELSE "refused"
    /\ Send(<<Event("finished", None)>>)
    /\ UNCHANGED <<clientVars, out, c2s, link, drawn, plug, error>>

\* A size change, focus, or anything else the client hears of.
Notify(e) ==
    /\ link = "up" /\ Room
    /\ \/ e.ev = "configure" /\ drawn[e.output] = "committed" /\ plug[e.output] = "in"
       \/ e.ev = "other"
    /\ Send(<<e>>)
    /\ UNCHANGED <<clientVars, out, c2s, link, compVars>>

\* A display that comes back is another output to the compositor.
PlugIn(o) ==
    /\ link = "up" /\ plug[o] = "new"
    /\ plug' = [plug EXCEPT ![o] = "in"]
    /\ Send(<<Event("global", o)>>)
    /\ UNCHANGED <<clientVars, out, c2s, link, session, drawn, error>>

PlugOut(o) ==
    /\ link = "up" /\ plug[o] = "in"
    /\ plug' = [plug EXCEPT ![o] = "out"]
    /\ Send(<<Event("removed", o)>>)
    /\ UNCHANGED <<clientVars, out, c2s, link, session, drawn, error>>

\* The compositor dies, or cuts off a client that broke the protocol.
CutOff ==
    /\ link = "up"
    /\ link' = "lost"
    /\ UNCHANGED <<clientVars, out, c2s, s2c, compVars>>

-----------------------------------------------------------------------------

\* What main does by itself, once it may; the events it waits for are not its.
ClientStep ==
    \/ lock_session \/ RoundtripFails \/ DispatchEvent \/ RoundtripReturns
    \/ FirstDispatchFlushes \/ FirstDispatchFails
    \/ NextTurn \/ RenderAndPoll \/ Destroy

CompositorStep == ServeRequest \/ SendLocked

Terminated == pc = "gone" /\ UNCHANGED vars

Next ==
    \/ ClientStep \/ RedrawAll \/ ExitProgram \/ ConnectionLost
    \/ CompositorStep \/ SendFinished
    \/ \E o \in Outputs : PlugIn(o) \/ PlugOut(o) \/ Notify(Event("configure", o))
    \/ Notify(Event("other", None))
    \/ CutOff
    \/ Terminated

\* Main and the compositor run; each turn of the loop dispatches what came and
\* draws; a dead connection is noticed.  Nobody need unlock or plug in a display,
\* and no lock need come to an end.
Fairness ==
    /\ WF_vars(lock_session) /\ WF_vars(RoundtripFails)
    /\ SF_vars(DispatchEvent) /\ WF_vars(RoundtripReturns)
    /\ WF_vars(FirstDispatchFlushes) /\ WF_vars(FirstDispatchFails)
    /\ WF_vars(NextTurn) /\ WF_vars(RenderAndPoll) /\ WF_vars(Destroy)
    /\ SF_vars(ConnectionLost)
    /\ WF_vars(CompositorStep)

Spec == Init /\ [][Next]_vars /\ Fairness

-----------------------------------------------------------------------------
(* Properties *)

\* A surface is committed only after a configure the client acknowledged,
\* however configures, size changes, redraws and the loop's flushes interleave
\* (client.cpp:508-520, main.cpp:134).
NoProtocolError == ~error

\* unlock_and_destroy is requested only of a lock the compositor has granted,
\* whenever the lock machine reaches Unlocked: the protocol has it "Only valid
\* after locked event" (client.cpp:264-281).
UnlockFollowsLocked ==
    (\E r \in Range(out) : r.op = "unlock_and_destroy") => session \in WasLocked

FinishedUnderWay == \E i \in DOMAIN s2c : s2c[i].ev = "finished"

\* locked_, on which unlock_session depends, is never set for a lock that failed,
\* before or after its surfaces were configured.  Where it is set the compositor
\* holds the session locked, or has said that it does no longer; handling that
\* leaves locked_ as it is (client.cpp:522-528).
LockedAgrees ==
    locked_ => \/ session = "locked"
               \/ session = "ended" /\ (finished_ \/ FinishedUnderWay)

\* Once main is in its loop, every lock surface whose size is known comes to be
\* drawn, unless main leaves first or the connection is lost.
SizedIsDrawn ==
    \A o \in Outputs :
        (pc \in {"loop", "poll"} /\ o \in sized)
            ~> (drawn[o] = "committed" \/ pc \in {"exit", "gone"} \/ link # "up")

\* A compositor that goes away is noticed wherever main is (roundtrip, first
\* dispatch or loop), and the client ends.
LossIsNoticed == (link = "lost") ~> (pc = "gone")

-----------------------------------------------------------------------------
(* The inductive invariant behind the safety properties *)

Requests == [op : {"get_lock_surface", "ack_configure", "commit", "destroy_surface"}, output : Outputs]
       \cup [op : {"lock", "sync", "unlock_and_destroy", "destroy"}, output : {None}]

Events == [ev : {"configure", "global", "removed"}, output : Outputs]
     \cup [ev : {"locked", "finished", "done", "other"}, output : {None}]

\* Until main leaves its loop only acknowledgements wait to be flushed, and what
\* it then asks for stays behind.
RequestsInOrder ==
    /\ out \in Seq(Requests) /\ c2s \in Seq(Requests) /\ s2c \in Seq(Events)
    /\ pc = "connected" => out = <<>> /\ c2s = <<>> /\ lock_surfaces_ = {}
    /\ \A i \in DOMAIN out : pc \in {"exit", "gone"} \/ out[i].op = "ack_configure"
    /\ \A i \in DOMAIN c2s : c2s[i].op \notin {"destroy_surface", "destroy", "unlock_and_destroy"}
    /\ link = "closed" => pc = "gone"

Over == {"refused", "ended"}

\* The lock is asked for once, granted at most once, and over at most once.
AnswerStands ==
    /\ pc = "connected" => session = "none"
    /\ \A i \in DOMAIN c2s : c2s[i].op = "lock" => i = 1 /\ session = "none"
    /\ \A i \in DOMAIN s2c : /\ s2c[i].ev = "locked"   => session \in WasLocked
                             /\ s2c[i].ev = "finished" => session \in Over
    /\ locked_ => session \in WasLocked
    /\ finished_ => session \in Over
    /\ \A i \in DOMAIN out : out[i].op = "unlock_and_destroy" => session \in WasLocked

\* That a granted lock has ended is on its way, or has arrived.
EndIsTold == session = "ended" => finished_ \/ FinishedUnderWay

Acknowledged(o) == drawn[o] \in {"acked", "committed"}
Acknowledges(requests, i, o) == requests[i].op = "ack_configure" /\ requests[i].output = o

\* Each surface is made once, before it is configured; a commit under way has an
\* acknowledgement before it, and so does a size the client knows.
AckedFirst ==
    /\ pc = "connected" => \A o \in Outputs : drawn[o] = "none"
    /\ \A i \in DOMAIN c2s : c2s[i].op = "get_lock_surface" =>
          /\ drawn[c2s[i].output] = "none"
          /\ \A j \in DOMAIN c2s : c2s[j] = c2s[i] => i = j
    /\ \A i \in DOMAIN s2c : s2c[i].ev = "configure" => drawn[s2c[i].output] # "none"
    /\ \A i \in DOMAIN c2s : c2s[i].op = "ack_configure" => drawn[c2s[i].output] # "none"
    /\ \A i \in DOMAIN out : out[i].op = "ack_configure" => drawn[out[i].output] # "none"
    /\ \A i \in DOMAIN c2s : c2s[i].op = "commit" =>
          \/ Acknowledged(c2s[i].output)
          \/ \E j \in 1 .. (i - 1) : Acknowledges(c2s, j, c2s[i].output)
    /\ link = "up" => \A o \in sized :
          \/ Acknowledged(o)
          \/ \E j \in DOMAIN c2s : Acknowledges(c2s, j, o)
          \/ \E j \in DOMAIN out : Acknowledges(out, j, o)

IInv == TypeOK /\ RequestsInOrder /\ AnswerStands /\ AckedFirst /\ ~error

-----------------------------------------------------------------------------
(* What the documents say and the program does not do; each has a run *)

\* protocols/ext-session-lock-v1.xml:30-32, "The client must create lock surfaces
\* for all outputs and render to them before the compositor sends the locked
\* event", and main.cpp:303, "Initial dispatch to get configure events".  The
\* roundtrip of lock_session has dispatched the configures; the dispatch of
\* main.cpp:304 blocks for an event no compositor need send, nothing is drawn,
\* and a compositor that waits for the surfaces never locks.
LockIsAnswered ==
    (session = "pending") ~> (session # "pending" \/ link # "up")

\* docs/architecture.md:208-209: after unlock_and_destroy() the "compositor shows
\* surfaces again".  The request is queued, and the connection closed without a
\* flush (main.cpp:405 is the only one, and the loop is left before it).
UnlockArrives ==
    (session = "locked" /\ \E r \in Range(out) : r.op = "unlock_and_destroy")
        ~> (session # "locked" \/ link = "lost")
=============================================================================
