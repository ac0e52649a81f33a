------------------------------ MODULE LiveSession ------------------------------
(***************************************************************************)
(* One Gemini Live session, src/decana/gemini/live.py.                     *)
(*                                                                         *)
(* open_live_session connects and greets, then two asyncio tasks run:      *)
(* the reader (receive() -> translate -> inbox) and the drain (outbox ->   *)
(* send_realtime_input).  One consumer iterates events(); any number of    *)
(* tasks may call close().  The event loop is single threaded, so an       *)
(* action is the code between two awaits; a task that was cancelled takes  *)
(* its Cancelled action and no other, because task.cancel() makes the next *)
(* resumption raise.                                                       *)
(*                                                                         *)
(* Data.  A server message is the set of the fields it carries.  A text    *)
(* fragment, an audio chunk and an uploaded frame are named by the number  *)
(* of the message or frame they are; a turn is the sequence of its         *)
(* fragments.                                                              *)
(***************************************************************************)
EXTENDS Naturals, Sequences, FiniteSets

CONSTANTS
    Closers,             \* the tasks that may call close()
    Shapes,              \* the field sets the server's messages may have
    MaxMessages,         \* bound: messages received in one session
    MaxFrames,           \* bound: caller frames queued in one session
    TransportMayRaise    \* whether closing the SDK's socket may raise

Fields == {"caller", "model", "audio", "interrupted", "complete"}

ASSUME ShapesAssumption == Shapes \subseteq SUBSET Fields
ASSUME BoundsAssumption == MaxMessages \in Nat /\ MaxFrames \in Nat
ASSUME RaiseAssumption == TransportMayRaise \in BOOLEAN

VARIABLES
    opening,     \* how far open_live_session got
    inbox,       \* _inbox: events translated and not yet consumed
    outbox,      \* _outbox: caller frames not yet taken by the drain
    turn,        \* _turns: the open turn's role and fragments
    closed,      \* _closed: the one Closed has been emitted
    tornDown,    \* _torn_down: some close() has begun
    reader,      \* the reader task
    gotMessage,  \* the reader's local `delivered`
    drain,       \* the drain task
    cancelled,   \* tasks whose next resumption raises CancelledError
    closer,      \* where each caller of close() stands
    transport,   \* the SDK's socket
    manager,     \* the connect() context manager
    consumer,    \* the iteration of events()
    seen         \* what events() has yielded

\* What the properties need to remember; no action reads them.
VARIABLES
    messages,    \* how many messages the reader received
    heard,       \* fragments and chunks received while the session was open
    completes,   \* messages that carried turn_complete
    frames,      \* how many frames send_audio accepted
    sent,        \* frames handed to the socket, in order
    cause        \* what ended the session first

streamVars == <<inbox, turn, closed>>
readerVars == <<reader, gotMessage, messages, heard, completes>>
drainVars  == <<outbox, drain, frames, sent>>
closeVars  == <<tornDown, closer, transport, manager>>
vars == <<opening, streamVars, readerVars, drainVars, closeVars,
          cancelled, consumer, seen, cause>>

-----------------------------------------------------------------------------
(* The turn accumulator.  Fragments go in; a turn comes out when the role  *)
(* switches, when the model says turn_complete, or when the session ends.  *)

NoTurn == [role |-> "none", parts |-> <<>>]

Transcript(t)   == [kind |-> "transcript", role |-> t.role, parts |-> t.parts]
AudioChunk(id)  == [kind |-> "audio", id |-> id]
Interrupted     == [kind |-> "interrupted"]
Closed(reason)  == [kind |-> "closed", reason |-> reason]

\* A translation in progress: the accumulator and the events made so far.
Fresh(t) == [turn |-> t, events |-> <<>>]

\* Mutated form: a flush with nothing open is not a no-op.
FlushAnyway(st) ==
    [turn |-> NoTurn, events |-> Append(st.events, Transcript(st.turn))]

Flush(st) ==
    IF st.turn.role = "none" \/ st.turn.parts = <<>>
    THEN st
    ELSE [turn |-> NoTurn, events |-> Append(st.events, Transcript(st.turn))]

\* Mutated form: every fragment closes the turn before it.
AddFragmentAlone(st, role, id) ==
    LET base == Flush(st)
    IN  [base EXCEPT !.turn = [role |-> role, parts |-> Append(@.parts, id)]]

AddFragment(st, role, id) ==
    LET base == IF role # st.turn.role THEN Flush(st) ELSE st
    IN  [base EXCEPT !.turn = [role |-> role, parts |-> Append(@.parts, id)]]

\* Mutated form: a message with text in it has no audio looked for.
TranslateTextFirst(t, m, id) ==
    LET s1 == IF "caller" \in m THEN AddFragment(Fresh(t), "caller", id)
                                ELSE Fresh(t)
        s2 == IF "model" \in m THEN AddFragment(s1, "model", id) ELSE s1
        s3 == [s2 EXCEPT !.events = @ \o
                 (IF "audio" \in m /\ s2 = Fresh(t) THEN <<AudioChunk(id)>> ELSE <<>>)]
    IN  IF "complete" \in m THEN Flush(s3) ELSE s3

\* One server message to zero or more events, in the order the code appends.
Translate(t, m, id) ==
    LET s1 == IF "caller" \in m THEN AddFragment(Fresh(t), "caller", id)
                                ELSE Fresh(t)
        s2 == IF "model" \in m THEN AddFragment(s1, "model", id) ELSE s1
        out == s2.events \o (IF "audio" \in m THEN <<AudioChunk(id)>> ELSE <<>>)
                         \o (IF "interrupted" \in m THEN <<Interrupted>> ELSE <<>>)
        s3 == [s2 EXCEPT !.events = out]
    IN  IF "complete" \in m THEN Flush(s3) ELSE s3

\* Mutated form: not idempotent.
EmitClosedAgain(reason) ==
    LET st == Flush(Fresh(turn))
    IN  /\ closed' = TRUE
        /\ turn' = st.turn
        /\ inbox' = inbox \o st.events \o <<Closed(reason)>>

\* Mutated form: the open turn is not flushed.
EmitClosedUnflushed(reason) ==
    IF closed THEN UNCHANGED streamVars
    ELSE /\ closed' = TRUE
         /\ inbox' = Append(inbox, Closed(reason))
         /\ UNCHANGED turn

\* Flush the open turn, then the one Closed.  Idempotent.
EmitClosed(reason) ==
    IF closed THEN UNCHANGED streamVars
    ELSE LET st == Flush(Fresh(turn))
         IN  /\ closed' = TRUE
             /\ turn' = st.turn
             /\ inbox' = inbox \o st.events \o <<Closed(reason)>>

FirstCause(why) == cause' = IF cause = "none" THEN why ELSE cause

-----------------------------------------------------------------------------
\* What a session holds before anything has happened to it.
Untouched ==
    /\ inbox = <<>> /\ outbox = <<>>
    /\ turn = NoTurn
    /\ closed = FALSE /\ tornDown = FALSE
    /\ gotMessage = FALSE
    /\ cancelled = {}
    /\ closer = [c \in Closers |-> "idle"]
    /\ consumer = "iterating" /\ seen = <<>>
    /\ messages = 0 /\ heard = {} /\ completes = {}
    /\ frames = 0 /\ sent = <<>>
    /\ cause = "none"

Init ==
    /\ Untouched
    /\ opening = "connecting"
    /\ reader = "none" /\ drain = "none"
    /\ transport = "none" /\ manager = "none"

\* The session open_live_session hands back, its two tasks just created.
Opened ==
    /\ Untouched
    /\ opening = "live"
    /\ reader = "receiving" /\ drain = "waiting"
    /\ transport = "open" /\ manager = "entered"

(* open_live_session: __aenter__ then start().  A raise in either is the   *)
(* caller's; nothing exits the manager when start() is what raised.        *)
Connect ==
    /\ opening = "connecting"
    /\ \/ /\ opening' = "greeting"
          /\ transport' = "open" /\ manager' = "entered"
       \/ /\ opening' = "failed"
          /\ UNCHANGED <<transport, manager>>
    /\ UNCHANGED <<streamVars, readerVars, drainVars, tornDown, closer,
                   cancelled, consumer, seen, cause>>

Greet ==
    /\ opening = "greeting"
    /\ \/ /\ opening' = "live"
          /\ reader' = "receiving" /\ drain' = "waiting"
       \/ /\ opening' = "failed"
          /\ UNCHANGED <<reader, drain>>
    /\ UNCHANGED <<streamVars, gotMessage, messages, heard, completes, outbox,
                   frames, sent, closeVars, cancelled, consumer, seen, cause>>

-----------------------------------------------------------------------------
(* The reader.                                                             *)

ReaderRuns == reader = "receiving" /\ "reader" \notin cancelled

\* Mutated form: an exit that no finally covers.
ReaderEndsSilently(reason) == reader' = "done" /\ UNCHANGED <<streamVars, cause>>

\* The reader leaves its loop: every path goes through the finally.
ReaderEnds(reason) ==
    /\ reader' = "done"
    /\ EmitClosed(reason)
    /\ FirstCause(reason)

\* A message is translated onto the inbox BEFORE _closed is looked at.
ReaderMessage(m) ==
    /\ ReaderRuns
    /\ messages < MaxMessages
    /\ LET id == messages + 1
           st == Translate(turn, m, id)
       IN  /\ messages' = id
           /\ turn' = st.turn
           /\ inbox' = inbox \o st.events
           /\ heard' = IF closed THEN heard
                       ELSE heard \cup { [field |-> f, id |-> id] :
                                f \in m \cap {"caller", "model", "audio"} }
           /\ completes' = IF "complete" \in m THEN completes \cup {id}
                                               ELSE completes
    /\ gotMessage' = TRUE
    /\ reader' = IF closed THEN "done" ELSE "receiving"
    /\ UNCHANGED <<opening, closed, drainVars, closeVars, cancelled, consumer,
                   seen, cause>>

\* receive() is exhausted: one turn is over, or the remote ended cleanly.
ReaderTurnEnds ==
    /\ ReaderRuns
    /\ IF gotMessage /\ ~closed
       THEN /\ gotMessage' = FALSE
            /\ UNCHANGED <<reader, streamVars, cause>>
       ELSE /\ ReaderEnds("remote")
            /\ UNCHANGED gotMessage
    /\ UNCHANGED <<opening, messages, heard, completes, drainVars, closeVars,
                   cancelled, consumer, seen>>

\* receive() raises.
ReaderFails ==
    /\ ReaderRuns
    /\ ReaderEnds("remote_error")
    /\ UNCHANGED <<opening, gotMessage, messages, heard, completes, drainVars,
                   closeVars, cancelled, consumer, seen>>

\* CancelledError is re-raised, and the finally still emits.
ReaderCancelled ==
    /\ reader = "receiving" /\ "reader" \in cancelled
    /\ ReaderEnds("remote")
    /\ cancelled' = cancelled \ {"reader"}
    /\ UNCHANGED <<opening, gotMessage, messages, heard, completes, drainVars,
                   closeVars, consumer, seen>>

-----------------------------------------------------------------------------
(* The upload side: send_audio and the drain task.                         *)

\* What send_audio does to the outbox, for the modules that compose it.
Queued(frame) == IF closed THEN outbox ELSE Append(outbox, frame)

SendAudio ==
    /\ opening = "live"
    /\ frames < MaxFrames
    /\ frames' = IF closed THEN frames ELSE frames + 1
    /\ outbox' = Queued(frames + 1)
    /\ UNCHANGED <<opening, streamVars, readerVars, drain, sent, closeVars,
                   cancelled, consumer, seen, cause>>

DrainRuns == "drain" \notin cancelled

\* Mutated form: the frame stays queued while it is sent.
Peeked == outbox

Taken == Tail(outbox)

DrainTakes ==
    /\ DrainRuns /\ drain = "waiting" /\ outbox # <<>>
    /\ drain' = "sending"
    /\ sent' = Append(sent, Head(outbox))
    /\ outbox' = Taken
    /\ UNCHANGED <<opening, streamVars, readerVars, frames, closeVars,
                   cancelled, consumer, seen, cause>>

DrainSent ==
    /\ DrainRuns /\ drain = "sending"
    /\ drain' = "waiting"
    /\ UNCHANGED <<opening, streamVars, readerVars, outbox, frames, sent,
                   closeVars, cancelled, consumer, seen, cause>>

DrainFails ==
    /\ DrainRuns /\ drain = "sending"
    /\ drain' = "done"
    /\ EmitClosed("send_failed")
    /\ FirstCause("send_failed")
    /\ UNCHANGED <<opening, readerVars, outbox, frames, sent, closeVars,
                   cancelled, consumer, seen>>

DrainCancelled ==
    /\ drain \in {"waiting", "sending"} /\ "drain" \in cancelled
    /\ drain' = "done"
    /\ cancelled' = cancelled \ {"drain"}
    /\ UNCHANGED <<opening, streamVars, readerVars, outbox, frames, sent,
                   closeVars, consumer, seen, cause>>

-----------------------------------------------------------------------------
(* close(): decide the reason, stop the tasks, then touch the socket.      *)

Alive == (IF reader = "receiving" THEN {"reader"} ELSE {}) \cup
         (IF drain \in {"waiting", "sending"} THEN {"drain"} ELSE {})

\* Mutated form: the tasks are awaited and never cancelled.
NothingToStop == {}

ToStop == Alive

\* Mutated form: the reason is left to the reader that close() cancels.
DecideLater == UNCHANGED streamVars

DecideReason == EmitClosed("local")

\* Mutated form: the socket is closed before the tasks are awaited.
SocketFirst == "closeTransport"

TasksFirst == "awaitReader"

\* Everything close() does before its first await, the outbox left open.
CloseBeginCore(c) ==
    /\ opening = "live"
    /\ closer[c] = "idle"
    /\ IF tornDown
       THEN /\ closer' = [closer EXCEPT ![c] = "done"]
            /\ UNCHANGED <<tornDown, streamVars, cancelled, cause>>
       ELSE /\ tornDown' = TRUE
            /\ DecideReason
            /\ FirstCause("local")
            /\ cancelled' = cancelled \cup ToStop
            /\ closer' = [closer EXCEPT ![c] = TasksFirst]
    /\ UNCHANGED <<opening, readerVars, drain, sent, transport, manager,
                   consumer, seen>>

CloseBegin(c) == CloseBeginCore(c) /\ UNCHANGED <<outbox, frames>>

\* What one step of close() after the first leaves alone.
CloseFrame == UNCHANGED <<opening, streamVars, readerVars, drainVars, tornDown,
                          cancelled, consumer, seen, cause>>

CloseReaderStopped(c) ==
    /\ closer[c] = "awaitReader" /\ reader = "done"
    /\ closer' = [closer EXCEPT ![c] = "awaitDrain"]
    /\ CloseFrame /\ UNCHANGED <<transport, manager>>

CloseDrainStopped(c) ==
    /\ closer[c] = "awaitDrain" /\ drain = "done"
    /\ closer' = [closer EXCEPT ![c] = "closeTransport"]
    /\ CloseFrame /\ UNCHANGED <<transport, manager>>

CloseTransport(c) ==
    /\ closer[c] = "closeTransport"
    /\ transport' = "closed"
    /\ closer' = [closer EXCEPT ![c] = "exitManager"]
    /\ CloseFrame /\ UNCHANGED manager

CloseManager(c) ==
    /\ closer[c] = "exitManager"
    /\ manager' = "exited"
    /\ closer' = [closer EXCEPT ![c] = "done"]
    /\ CloseFrame /\ UNCHANGED transport

\* transport.close() or aclose() raises: the rest of close() does not run.
CloseRaises(c) ==
    /\ TransportMayRaise
    /\ closer[c] \in {"closeTransport", "exitManager"}
    /\ closer' = [closer EXCEPT ![c] = "raised"]
    /\ CloseFrame /\ UNCHANGED <<transport, manager>>

-----------------------------------------------------------------------------
\* Mutated form: the iteration goes on after the Closed.
GoesOn(e) == "iterating"

After(e) == IF e.kind = "closed" THEN "ended" ELSE "iterating"

(* events(): yield the head of the inbox; return after the Closed.         *)
Deliver ==
    /\ opening = "live" /\ consumer = "iterating" /\ inbox # <<>>
    /\ seen' = Append(seen, Head(inbox))
    /\ inbox' = Tail(inbox)
    /\ consumer' = After(Head(inbox))
    /\ UNCHANGED <<opening, turn, closed, readerVars, drainVars, closeVars,
                   cancelled, cause>>

-----------------------------------------------------------------------------
ReaderStep == \/ \E m \in Shapes : ReaderMessage(m)
              \/ ReaderTurnEnds \/ ReaderFails \/ ReaderCancelled
DrainStep  == DrainTakes \/ DrainSent \/ DrainFails \/ DrainCancelled
CloseStep(c) == \/ CloseReaderStopped(c) \/ CloseDrainStopped(c)
                \/ CloseTransport(c) \/ CloseManager(c) \/ CloseRaises(c)

Next == \/ Connect \/ Greet
        \/ ReaderStep
        \/ SendAudio \/ DrainStep
        \/ \E c \in Closers : CloseBegin(c) \/ CloseStep(c)
        \/ Deliver

(* The loop runs what is ready: a cancelled task is resumed, a close()     *)
(* whose awaited task is done goes on, a non-empty inbox resumes its       *)
(* consumer.  Nothing makes the remote speak or end, a send complete or a  *)
(* frame arrive, and nobody has to call close().                           *)
Fairness ==
    /\ WF_vars(ReaderCancelled)
    /\ WF_vars(DrainCancelled)
    /\ \A c \in Closers : WF_vars(CloseStep(c))
    /\ WF_vars(Deliver)

Spec == Init /\ [][Next]_vars /\ Fairness
=============================================================================
