------------------------------ MODULE MediaCall ------------------------------
(***************************************************************************)
(* One phone call, from the socket's start message to its record:          *)
(* src/decana/twilio/server.py (media, _begin_call, _pump_events,          *)
(* _drain_outbound, _teardown) over one LiveSession.                       *)
(*                                                                         *)
(* Five asyncio tasks share the call: the socket handler, the pump that    *)
(* consumes the session's events, the outbound drain that writes to the    *)
(* socket, and the session's own reader and upload tasks.  Which of them   *)
(* runs next decides what the record holds, so the event loop is modelled: *)
(* `ready` is its FIFO of runnable tasks; the head runs one piece of code  *)
(* after another and leaves the queue when an await really suspends it.    *)
(* An await of a finished task, a free lock or a non-empty queue does not. *)
(***************************************************************************)
EXTENDS Naturals, Sequences, SequencesExt

CONSTANTS Shapes, MaxMessages, MaxFrames, TransportMayRaise,
          ArtifactsMayFail   \* whether recording a timing event may raise

ASSUME ArtifactsAssumption == ArtifactsMayFail \in BOOLEAN

VARIABLES opening, inbox, outbox, turn, closed, tornDown, reader, gotMessage,
          drain, cancelled, closer, transport, manager, consumer, seen,
          messages, heard, completes, frames, sent, cause

\* The tasks that may run _teardown.
Enders == {"handler", "pump", "outbound"}

Session == INSTANCE LiveSession WITH Closers <- Enders

ASSUME ShapesAssumption == Shapes \subseteq SUBSET Session!Fields
ASSUME BoundsAssumption == MaxMessages \in Nat /\ MaxFrames \in Nat
ASSUME RaiseAssumption == TransportMayRaise \in BOOLEAN

sessionVars == <<opening, inbox, outbox, turn, closed, tornDown, reader,
                 gotMessage, drain, cancelled, closer, transport, manager,
                 consumer, seen, messages, heard, completes, frames, sent, cause>>

VARIABLES
    ready,          \* the event loop's queue of runnable tasks
    task,           \* where each of the three server tasks stands
    stopped,        \* server tasks whose next resumption raises CancelledError
    why,            \* the reason each of them ends the call with
    lock, waiters,  \* _Call.lock: its holder and its FIFO of waiters
    done,           \* _Call.done
    senderClosed,   \* _SocketSender.closed
    outQueue,       \* _SocketSender.queue: how many frames wait in it
    finalised,      \* legs whose resampler was given its last input
    pushed,         \* legs that hold audio the resampler has not given back
    transcript,     \* _Call.transcript
    records         \* the records handed to on_call_end

callVars == <<task, stopped, why, lock, waiters, done, senderClosed, outQueue,
              finalised, pushed, transcript, records>>
vars == <<sessionVars, ready, callVars>>

Tasks == {"handler", "pump", "outbound", "reader", "upload"}
Over == {"done", "crashed"}

Init ==
    /\ Session!Opened
    /\ ready = <<>>
    /\ task = [t \in Enders |-> IF t = "handler" THEN "accepted" ELSE "none"]
    /\ stopped = {}
    /\ why = [t \in Enders |-> "none"]
    /\ lock = "nobody" /\ waiters = <<>>
    /\ done = FALSE /\ senderClosed = FALSE
    /\ outQueue = 0
    /\ finalised = {} /\ pushed = {}
    /\ transcript = <<>> /\ records = <<>>

-----------------------------------------------------------------------------
(* The event loop.                                                         *)

\* Mutated form: an empty queue is read.
AlwaysWaiting == TRUE

FramesWaiting == outQueue > 0

\* Server task t can go on without waiting for the network.
TaskAwake(t) ==
    \/ t \in stopped
    \/ t = "pump" /\ task[t] = "events" /\ inbox # <<>>
    \/ t = "outbound" /\ task[t] = "get" /\ FramesWaiting
    \/ task[t] = "lock" /\ lock = "nobody" /\ Head(waiters) = t
    \/ task[t] = "stopOutbound" /\ (t = "outbound" \/ task["outbound"] \in Over)
    \/ /\ task[t] = "closing"
       /\ \/ closer[t] \in {"idle", "done", "raised"}
          \/ closer[t] = "awaitReader" /\ reader = "done"
          \/ closer[t] = "awaitDrain" /\ drain = "done"
    \/ task[t] = "stopPump" /\ (t = "pump" \/ task["pump"] \in Over)

Awake(t) ==
    CASE t = "reader" -> "reader" \in cancelled
      [] t = "upload" -> \/ "drain" \in cancelled
                         \/ drain = "waiting" /\ outbox # <<>>
      [] OTHER -> TaskAwake(t)

\* Task t waits for the network, or for on_call_end.
InIO(t) ==
    CASE t = "reader" -> reader = "receiving"
      [] t = "upload" -> drain = "sending"
      [] OTHER -> \/ task[t] \in {"accepted", "inCall", "sending", "delivering"}
                  \/ /\ task[t] = "closing"
                     /\ closer[t] \in {"closeTransport", "exitManager"}

InReady(t) == \E i \in DOMAIN ready : ready[i] = t

\* One step may wake several tasks.  They are queued in the order of its code:
\* close() emits (waking the pump), then cancels the reader and the upload.
Wakes(t) == IF ~InReady(t) /\ Awake(t)' THEN <<t>> ELSE <<>>
Woken == Wakes("pump") \o Wakes("reader") \o Wakes("upload")
             \o Wakes("outbound") \o Wakes("handler")

\* Input that already arrived is received without suspending.
Receiving(t) == \/ t = "reader" /\ reader = "receiving"
                \/ t = "handler" /\ task[t] \in {"accepted", "inCall"}

Running(t) == ready # <<>> /\ Head(ready) = t

\* The head has executed a piece of code: it keeps the loop until it waits.
Yields(t) ==
    \/ ready' = (IF Awake(t)' THEN ready ELSE Tail(ready)) \o Woken
    \/ Receiving(t)' /\ ready' = ready \o Woken

\* What task t awaits from outside has happened.
Completes(t) ==
    /\ InIO(t) /\ ~InReady(t)
    /\ ready' = Append(ready, t)
    /\ UNCHANGED <<sessionVars, callVars>>

-----------------------------------------------------------------------------
(* Teardown, run by whichever task meets an ending first.                  *)

\* _teardown is called: wait for the lock.
Ending(t, reason) ==
    /\ task' = [task EXCEPT ![t] = "lock"]
    /\ why' = [why EXCEPT ![t] = reason]
    /\ waiters' = Append(waiters, t)

\* Mutated form: a second ending does not look at `done`.
NeverDone == FALSE

AlreadyDone == done

\* Mutated form: the task is awaited, not cancelled.
LeftRunning(t, other) == {}

\* Mutated form: both tasks are cancelled up front.
CancelBoth(t, other) == {"pump", "outbound"} \ ({t} \cup {o \in Enders : task[o] \in Over})

\* _stop_task's cancel: not oneself, and not a task that is over.
Cancelled(t, other) ==
    IF t = other \/ task[other] \in Over THEN {} ELSE {other}

Acquire(t) ==
    /\ task[t] = "lock" /\ t \notin stopped
    /\ lock = "nobody" /\ Head(waiters) = t
    /\ waiters' = Tail(waiters)
    /\ IF AlreadyDone
       THEN /\ task' = [task EXCEPT ![t] = "done"]
            /\ UNCHANGED <<lock, done, senderClosed, stopped>>
       ELSE /\ lock' = t
            /\ done' = TRUE /\ senderClosed' = TRUE
            /\ stopped' = stopped \cup Cancelled(t, "outbound")
            /\ task' = [task EXCEPT ![t] = "stopOutbound"]
    /\ UNCHANGED <<sessionVars, why, outQueue, finalised, pushed, transcript,
                   records>>

\* BridgeSession.close(): the tail of each leg that was pushed to may come
\* back.  The sender is closed by now, so an outbound tail is dropped; a
\* timing event that cannot be recorded ends the flush and is the reason.
FlushBridge(t) ==
    /\ task[t] = "stopOutbound"
    /\ t = "outbound" \/ task["outbound"] \in Over
    /\ \E tails \in SUBSET pushed :
       \E failing \in {"none"} \cup (IF ArtifactsMayFail THEN tails ELSE {}) :
        /\ IF "gemini" \in tails
           THEN frames < MaxFrames /\ Session!SendAudio
           ELSE UNCHANGED sessionVars
        /\ finalised' = IF failing = "gemini" THEN {"gemini"}
                                              ELSE {"gemini", "twilio"}
        /\ why' = IF failing = "none" THEN why ELSE [why EXCEPT ![t] = "error"]
    /\ pushed' = {}
    /\ task' = [task EXCEPT ![t] = "closing"]
    /\ UNCHANGED <<stopped, lock, waiters, done, senderClosed, outQueue,
                   transcript, records>>

CloseSession(t) ==
    /\ task[t] = "closing"
    /\ Session!CloseBegin(t) \/ Session!CloseStep(t)
    /\ UNCHANGED callVars

StopPump(t) ==
    /\ task[t] = "closing" /\ closer[t] = "done"
    /\ stopped' = stopped \cup Cancelled(t, "pump")
    /\ task' = [task EXCEPT ![t] = "stopPump"]
    /\ UNCHANGED <<sessionVars, why, lock, waiters, done, senderClosed, outQueue,
                   finalised, pushed, transcript, records>>

\* Mutated form: the CancelledError of the awaited task is not suppressed.
AwaitRaisesAlways(other) == task[other] \in Over

\* _stop_task's await re-raises what killed the task, CancelledError excepted.
AwaitRaises(other) == task[other] = "crashed"

\* An exception leaves _teardown: the lock is released, `done` stays set.
TeardownRaises(t) ==
    /\ \/ task[t] = "closing" /\ closer[t] = "raised"
       \/ task[t] = "stopPump" /\ t # "pump" /\ AwaitRaises("pump")
    /\ lock' = "nobody"
    /\ task' = [task EXCEPT ![t] = "crashed"]
    /\ UNCHANGED <<sessionVars, stopped, why, waiters, done, senderClosed,
                   outQueue, finalised, pushed, transcript, records>>

DeliverRecord(t) ==
    /\ task[t] = "stopPump"
    /\ t = "pump" \/ (task["pump"] \in Over /\ ~AwaitRaises("pump"))
    /\ records' = Append(records, [reason |-> why[t], transcript |-> transcript])
    /\ task' = [task EXCEPT ![t] = "delivering"]
    /\ UNCHANGED <<sessionVars, stopped, why, lock, waiters, done, senderClosed,
                   outQueue, finalised, pushed, transcript>>

\* on_call_end returned, or raised and was logged.
Delivered(t) ==
    /\ task[t] = "delivering"
    /\ lock' = "nobody"
    /\ task' = [task EXCEPT ![t] = "done"]
    /\ UNCHANGED <<sessionVars, stopped, why, waiters, done, senderClosed,
                   outQueue, finalised, pushed, transcript, records>>

TeardownStep(t) == \/ Acquire(t) \/ FlushBridge(t) \/ CloseSession(t)
                   \/ StopPump(t) \/ TeardownRaises(t)
                   \/ DeliverRecord(t) \/ Delivered(t)

-----------------------------------------------------------------------------
(* The socket handler.                                                     *)

\* The start message: adopt the session, build the call, create two tasks.
HandlerStart ==
    /\ task["handler"] = "accepted"
    /\ task' = [handler |-> "inCall", pump |-> "events", outbound |-> "get"]
    /\ UNCHANGED <<sessionVars, stopped, why, lock, waiters, done, senderClosed,
                   outQueue, finalised, pushed, transcript, records>>

\* A media frame.  One that cannot be decoded is dropped and noted.  The
\* resampler gives audio back or keeps it; it raises when the bridge is
\* closed, as recording an event does when the disk fails.
HandlerFrame ==
    /\ task["handler"] = "inCall"
    /\ \/ /\ "gemini" \in finalised \/ ArtifactsMayFail
          /\ Ending("handler", "error")
          /\ UNCHANGED <<sessionVars, pushed>>
       \/ UNCHANGED <<sessionVars, pushed, task, why, waiters>>
       \/ /\ "gemini" \notin finalised
          /\ pushed' = pushed \cup {"gemini"}
            /\ \/ UNCHANGED <<sessionVars, task, why, waiters>>
               \/ /\ Session!SendAudio
                  /\ \/ UNCHANGED <<task, why, waiters>>
                     \/ ArtifactsMayFail /\ Ending("handler", "error")
    /\ UNCHANGED <<stopped, lock, done, senderClosed, outQueue, finalised,
                   transcript, records>>

\* The stop message, a disconnect, or a message that cannot be read.
HandlerEnds ==
    /\ task["handler"] = "inCall"
    /\ \E reason \in {"twilio_stop", "ws_disconnect", "error"} :
           Ending("handler", reason)
    /\ UNCHANGED <<sessionVars, stopped, lock, done, senderClosed, outQueue,
                   finalised, pushed, transcript, records>>

-----------------------------------------------------------------------------
(* The pump: route one event of the session.                               *)

\* Mutated form: the remote is blamed for a send that failed.
RemoteBlamed == [local |-> "gemini_local", remote |-> "gemini_remote",
                 remote_error |-> "gemini_remote_error",
                 send_failed |-> "gemini_remote_error"]

\* The reason a Closed of the session ends the call with.
GeminiReason == [local |-> "gemini_local", remote |-> "gemini_remote",
                 remote_error |-> "gemini_remote_error",
                 send_failed |-> "gemini_send_failed"]

\* handle_gemini_chunk: drop a broken chunk, forward through the sender, or
\* raise.
RouteChunk ==
    /\ UNCHANGED <<transcript, why, waiters>>
    /\ \/ /\ "twilio" \in finalised \/ ArtifactsMayFail
          /\ task' = [task EXCEPT !["pump"] = "crashed"]
          /\ UNCHANGED <<outQueue, pushed>>
       \/ UNCHANGED <<task, outQueue, pushed>>
       \/ /\ "twilio" \notin finalised
          /\ pushed' = pushed \cup {"twilio"}
          /\ \/ UNCHANGED <<task, outQueue>>
             \/ /\ outQueue' = IF senderClosed THEN outQueue ELSE outQueue + 1
                /\ \/ UNCHANGED task
                   \/ /\ ArtifactsMayFail
                      /\ task' = [task EXCEPT !["pump"] = "crashed"]

PumpTakes ==
    /\ task["pump"] = "events" /\ "pump" \notin stopped
    /\ Session!Deliver
    /\ LET e == Head(inbox) IN
       \/ /\ e.kind = "closed"
          /\ Ending("pump", GeminiReason[e.reason])
          /\ UNCHANGED <<transcript, outQueue, pushed>>
       \/ /\ e.kind = "transcript"
          /\ transcript' = Append(transcript, e)
          /\ UNCHANGED <<task, why, waiters, outQueue, pushed>>
       \/ e.kind = "audio" /\ RouteChunk
       \/ /\ e.kind = "interrupted"
          /\ UNCHANGED <<task, why, waiters, transcript, outQueue, pushed>>
    /\ UNCHANGED <<stopped, lock, done, senderClosed, finalised, records>>

-----------------------------------------------------------------------------
(* The outbound drain: one queued frame at a time onto the socket.         *)

OutboundTakes ==
    /\ task["outbound"] = "get" /\ "outbound" \notin stopped
    /\ FramesWaiting
    /\ outQueue' = outQueue - 1
    /\ task' = [task EXCEPT !["outbound"] = "sending"]
    /\ UNCHANGED <<sessionVars, stopped, why, lock, waiters, done, senderClosed,
                   finalised, pushed, transcript, records>>

OutboundSent ==
    /\ task["outbound"] = "sending" /\ "outbound" \notin stopped
    /\ task' = [task EXCEPT !["outbound"] = "get"]
    /\ UNCHANGED <<sessionVars, stopped, why, lock, waiters, done, senderClosed,
                   outQueue, finalised, pushed, transcript, records>>

OutboundFails ==
    /\ task["outbound"] = "sending" /\ "outbound" \notin stopped
    /\ Ending("outbound", "twilio_send_failed")
    /\ UNCHANGED <<sessionVars, stopped, lock, done, senderClosed, outQueue,
                   finalised, pushed, transcript, records>>

\* A task that is cancelled while it waits for the lock gives up its place.
Without(queue, t) ==
    IF \E i \in DOMAIN queue : queue[i] = t
    THEN RemoveAt(queue, CHOOSE i \in DOMAIN queue : queue[i] = t)
    ELSE queue

\* CancelledError reaches the pump or the drain at whatever it awaits.
TaskCancelled(t) ==
    /\ t \in stopped
    /\ stopped' = stopped \ {t}
    /\ task' = [task EXCEPT ![t] = "done"]
    /\ waiters' = Without(waiters, t)
    /\ UNCHANGED <<sessionVars, why, lock, done, senderClosed, outQueue, finalised,
                   pushed, transcript, records>>

-----------------------------------------------------------------------------
HandlerStep  == HandlerStart \/ HandlerFrame \/ HandlerEnds \/ TeardownStep("handler")
PumpStep     == PumpTakes \/ TaskCancelled("pump") \/ TeardownStep("pump")
OutboundStep == \/ OutboundTakes \/ OutboundSent \/ OutboundFails
                \/ TaskCancelled("outbound") \/ TeardownStep("outbound")
SessionStep(t) == /\ IF t = "reader" THEN Session!ReaderStep ELSE Session!DrainStep
                  /\ UNCHANGED callVars

Step(t) == /\ Running(t)
           /\ CASE t = "handler"  -> HandlerStep
                [] t = "pump"     -> PumpStep
                [] t = "outbound" -> OutboundStep
                [] OTHER          -> SessionStep(t)
           /\ Yields(t)

Next == \E t \in Tasks : Step(t) \/ Completes(t)

(* The loop keeps running the head; closing a socket, leaving the manager, *)
(* on_call_end and a send return in the end.  The remote and the caller    *)
(* may stay silent for ever.                                               *)
Closing(t) == t \in Enders /\ task[t] \in {"closing", "delivering", "sending"}

Fairness == /\ \A t \in Tasks : WF_vars(Step(t))
            /\ \A t \in Tasks : WF_vars(Closing(t) /\ Completes(t))

Spec == Init /\ [][Next]_vars /\ Fairness
=============================================================================
