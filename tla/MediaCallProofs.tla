---------------------------- MODULE MediaCallProofs ----------------------------
(***************************************************************************)
(* Theorems about MediaCall, for any number of messages and frames and any *)
(* shapes a message may have: the session inside a call is a LiveSession,  *)
(* the event loop forgets no task, and a call has at most one record, the  *)
(* last thing its teardown does and with every turn in it.                 *)
(***************************************************************************)
EXTENDS MediaCallProps, TLAPS, SequenceTheorems

\* What is proved of a session on its own, for the session of a call.
Live == INSTANCE LiveSessionProofs WITH Closers <- Enders

-----------------------------------------------------------------------------
(* The steps of a call.                                                    *)

\* A step of the network: nothing but the loop's queue changes.
Idle == UNCHANGED <<sessionVars, callVars>>

\* What a step does, whichever task runs and however the loop goes on.
Action ==
    \/ Idle
    \/ \E t \in {"reader", "upload"} : SessionStep(t)
    \/ HandlerStart \/ HandlerFrame \/ HandlerEnds
    \/ PumpTakes
    \/ OutboundTakes \/ OutboundSent \/ OutboundFails
    \/ \E t \in {"pump", "outbound"} : TaskCancelled(t)
    \/ \E t \in Enders : TeardownStep(t)

\* Every step is one of these.
LEMMA StepIsAction == [Next]_vars => Action
<1> SUFFICES ASSUME [Next]_vars PROVE Action
  OBVIOUS
<1>1. CASE UNCHANGED vars
  BY <1>1 DEF vars, Action, Idle
<1>2. ASSUME NEW t \in Tasks, Completes(t) PROVE Action
  BY <1>2 DEF Completes, Action, Idle
<1>3. ASSUME NEW t \in Tasks, Step(t) PROVE Action
  <2>1. CASE t = "handler"
    BY <1>3, <2>1 DEF Step, HandlerStep, Action, Enders
  <2>2. CASE t = "pump"
    BY <1>3, <2>2 DEF Step, PumpStep, Action, Enders
  <2>3. CASE t = "outbound"
    BY <1>3, <2>3 DEF Step, OutboundStep, Action, Enders
  <2>4. CASE t \in {"reader", "upload"}
    BY <1>3, <2>4 DEF Step, Action
  <2> QED BY <2>1, <2>2, <2>3, <2>4 DEF Tasks
<1> QED BY <1>1, <1>2, <1>3 DEF Next

-----------------------------------------------------------------------------
(* The session of a call.                                                  *)

\* The reader and the upload task close nothing down, and blame no local end.
LEMMA SessionStepKeeps ==
    ASSUME NEW t, SessionStep(t)
    PROVE  /\ UNCHANGED <<opening, tornDown, closer, transport, manager, consumer, seen>>
           /\ UNCHANGED callVars
           /\ closed => closed'
           /\ cause' = "local" => cause = "local"
<1>1. UNCHANGED callVars /\ (Session!ReaderStep \/ Session!DrainStep)
  BY DEF SessionStep
<1>2. CASE Session!ReaderStep
  BY <1>1, <1>2
  DEF Session!ReaderStep, Session!ReaderMessage, Session!ReaderTurnEnds, Session!ReaderFails,
      Session!ReaderCancelled, Session!ReaderEnds, Session!EmitClosed, Session!FirstCause,
      Session!streamVars, Session!closeVars
<1>3. CASE Session!DrainStep
  BY <1>1, <1>3
  DEF Session!DrainStep, Session!DrainTakes, Session!DrainSent, Session!DrainFails,
      Session!DrainCancelled, Session!EmitClosed, Session!FirstCause,
      Session!streamVars, Session!closeVars
<1> QED BY <1>1, <1>2, <1>3

\* Uploading a frame touches the outbox only.
LEMMA SendAudioKeeps ==
    Session!SendAudio =>
        UNCHANGED <<opening, inbox, closed, tornDown, closer, transport, manager,
                    cancelled, consumer, seen, cause, reader>>
  BY DEF Session!SendAudio, Session!streamVars, Session!readerVars, Session!closeVars

\* So does consuming an event, but for the inbox and the iteration.
LEMMA DeliverKeeps ==
    Session!Deliver =>
        /\ UNCHANGED <<opening, closed, tornDown, closer, transport, manager,
                       cancelled, cause, reader>>
        /\ inbox # <<>> /\ inbox' = Tail(inbox) /\ seen' = Append(seen, Head(inbox))
        /\ consumer = "iterating"
        /\ consumer' = IF Head(inbox).kind = "closed" THEN "ended" ELSE "iterating"
  BY DEF Session!Deliver, Session!After, Session!readerVars, Session!closeVars

\* The first step of close() by the only task that calls it.
LEMMA CloseBeginDoes ==
    ASSUME NEW t \in Enders, Session!CloseBegin(t), ~ tornDown
    PROVE  /\ closer[t] = "idle" /\ closer' = [closer EXCEPT ![t] = "awaitReader"]
           /\ tornDown' /\ closed'
           /\ UNCHANGED <<opening, transport, manager, consumer, seen, reader, drain>>
  BY DEF Session!CloseBegin, Session!CloseBeginCore, Session!DecideReason,
         Session!EmitClosed, Session!TasksFirst, Session!streamVars, Session!readerVars

\* The steps of close() after the first.
LEMMA CloseStepDoes ==
    ASSUME NEW t \in Enders, Session!CloseStep(t)
    PROVE  /\ UNCHANGED <<opening, tornDown, inbox, closed, cancelled, consumer, seen,
                          cause, reader, drain>>
           /\ \/ /\ closer[t] = "awaitReader"
                 /\ closer' = [closer EXCEPT ![t] = "awaitDrain"]
                 /\ UNCHANGED <<transport, manager>>
              \/ /\ closer[t] = "awaitDrain"
                 /\ closer' = [closer EXCEPT ![t] = "closeTransport"]
                 /\ UNCHANGED <<transport, manager>>
              \/ /\ closer[t] = "closeTransport"
                 /\ closer' = [closer EXCEPT ![t] = "exitManager"]
                 /\ transport' = "closed" /\ UNCHANGED manager
              \/ /\ closer[t] = "exitManager"
                 /\ closer' = [closer EXCEPT ![t] = "done"]
                 /\ manager' = "exited" /\ UNCHANGED transport
              \/ /\ closer[t] \in {"closeTransport", "exitManager"}
                 /\ closer' = [closer EXCEPT ![t] = "raised"]
                 /\ UNCHANGED <<transport, manager>>
<1>1. Session!CloseFrame
  BY DEF Session!CloseStep, Session!CloseReaderStopped, Session!CloseDrainStopped,
         Session!CloseTransport, Session!CloseManager, Session!CloseRaises
<1>2. UNCHANGED <<opening, tornDown, inbox, closed, cancelled, consumer, seen, cause,
                  reader, drain>>
  BY <1>1 DEF Session!CloseFrame, Session!streamVars, Session!readerVars, Session!drainVars
<1> QED
  BY <1>2 DEF Session!CloseStep, Session!CloseReaderStopped, Session!CloseDrainStopped,
              Session!CloseTransport, Session!CloseManager, Session!CloseRaises


(***************************************************************************)
(* Every step of a call is a step of its session, or leaves it alone.      *)
(***************************************************************************)
LEMMA SessionSteps == [Next]_vars => [Session!Next]_sessionVars
<1> SUFFICES ASSUME Action PROVE Session!Next \/ UNCHANGED sessionVars
  BY StepIsAction
<1>1. CASE Idle
  BY <1>1 DEF Idle
<1>2. CASE \E t \in {"reader", "upload"} : SessionStep(t)
  BY <1>2 DEF SessionStep, Session!Next
<1>3. CASE HandlerStart \/ HandlerFrame \/ HandlerEnds
  BY <1>3 DEF HandlerStart, HandlerFrame, HandlerEnds, Session!Next
<1>4. CASE PumpTakes
  BY <1>4 DEF PumpTakes, Session!Next
<1>5. CASE \/ OutboundTakes \/ OutboundSent \/ OutboundFails
           \/ \E t \in {"pump", "outbound"} : TaskCancelled(t)
  BY <1>5 DEF OutboundTakes, OutboundSent, OutboundFails, TaskCancelled
<1>6. ASSUME NEW t \in Enders, TeardownStep(t)
      PROVE  Session!Next \/ UNCHANGED sessionVars
  <2>1. CASE CloseSession(t)
    BY <2>1 DEF CloseSession, Session!Next
  <2>2. CASE FlushBridge(t)
    BY <2>2 DEF FlushBridge, Session!Next
  <2>3. CASE Acquire(t) \/ StopPump(t) \/ TeardownRaises(t) \/ DeliverRecord(t) \/ Delivered(t)
    BY <2>3 DEF Acquire, StopPump, TeardownRaises, DeliverRecord, Delivered
  <2> QED BY <1>6, <2>1, <2>2, <2>3 DEF TeardownStep
<1> QED BY <1>1, <1>2, <1>3, <1>4, <1>5, <1>6 DEF Action

\* The session's next-state relation, as its own theorems know it.
LEMMA SameNext == [Session!Next]_sessionVars => [Live!Next]_(Live!vars)
<1> SUFFICES ASSUME Session!Next \/ UNCHANGED sessionVars
             PROVE  Live!Next \/ UNCHANGED Live!vars
  OBVIOUS
<1>1. CASE UNCHANGED sessionVars
  BY <1>1 DEF sessionVars, Live!vars, Live!streamVars, Live!readerVars, Live!drainVars,
              Live!closeVars
<1>2. CASE Session!Connect \/ Session!Greet \/ Session!SendAudio \/ Session!Deliver
  <2>1. Session!Connect => Live!Connect
    BY DEF Session!Connect, Session!streamVars, Session!readerVars, Session!drainVars,
           Live!Connect, Live!streamVars, Live!readerVars, Live!drainVars
  <2>2. Session!Greet => Live!Greet
    BY DEF Session!Greet, Session!streamVars, Session!closeVars,
           Live!Greet, Live!streamVars, Live!closeVars
  <2>3. Session!SendAudio => Live!SendAudio
    BY DEF Session!SendAudio, Session!Queued, Session!streamVars, Session!readerVars,
           Session!closeVars, Live!SendAudio, Live!Queued, Live!streamVars,
           Live!readerVars, Live!closeVars
  <2>4. Session!Deliver => Live!Deliver
    BY DEF Session!Deliver, Session!After, Session!readerVars, Session!drainVars,
           Session!closeVars, Live!Deliver, Live!After, Live!readerVars, Live!drainVars,
           Live!closeVars
  <2> QED BY <1>2, <2>1, <2>2, <2>3, <2>4 DEF Live!Next
<1>3. \A reason : /\ Session!EmitClosed(reason) => Live!EmitClosed(reason)
                  /\ Session!FirstCause(reason) => Live!FirstCause(reason)
  BY DEF Session!EmitClosed, Session!FirstCause, Session!Flush, Session!Fresh,
         Session!Transcript, Session!NoTurn, Session!Closed, Session!streamVars,
         Live!EmitClosed, Live!FirstCause, Live!Flush, Live!Fresh,
         Live!Transcript, Live!NoTurn, Live!Closed, Live!streamVars
<1>4. CASE Session!ReaderStep
  <2>1. ASSUME NEW m \in Shapes, Session!ReaderMessage(m) PROVE Live!ReaderMessage(m)
    <3>1. \A t : Session!Fresh(t) = Live!Fresh(t)
      BY DEF Session!Fresh, Live!Fresh
    <3>2. \A st : Session!Flush(st) = Live!Flush(st)
      BY DEF Session!Flush, Session!Transcript, Session!NoTurn,
             Live!Flush, Live!Transcript, Live!NoTurn
    <3>3. \A st, role, id : Session!AddFragment(st, role, id) = Live!AddFragment(st, role, id)
      BY <3>2 DEF Session!AddFragment, Live!AddFragment
    <3>4. \A id : Session!AudioChunk(id) = Live!AudioChunk(id)
      BY DEF Session!AudioChunk, Live!AudioChunk
    <3>5. Session!Interrupted = Live!Interrupted
      BY DEF Session!Interrupted, Live!Interrupted
    <3>6. ASSUME NEW t, NEW id PROVE Session!Translate(t, m, id) = Live!Translate(t, m, id)
      BY <3>1, <3>2, <3>3, <3>4, <3>5, Zenon DEF Session!Translate, Live!Translate
    <3> QED
      BY <2>1, <3>6 DEF Session!ReaderMessage, Session!ReaderRuns, Session!drainVars,
                        Session!closeVars, Live!ReaderMessage, Live!ReaderRuns,
                        Live!drainVars, Live!closeVars
  <2>2. CASE Session!ReaderTurnEnds
    BY <1>3, <2>2
    DEF Session!ReaderTurnEnds, Session!ReaderRuns, Session!ReaderEnds, Session!streamVars,
        Session!drainVars, Session!closeVars, Live!Next, Live!ReaderStep, Live!ReaderTurnEnds,
        Live!ReaderRuns, Live!ReaderEnds, Live!streamVars, Live!drainVars, Live!closeVars
  <2>3. CASE Session!ReaderFails \/ Session!ReaderCancelled
    BY <1>3, <2>3
    DEF Session!ReaderFails, Session!ReaderCancelled, Session!ReaderRuns, Session!ReaderEnds,
        Session!drainVars, Session!closeVars, Live!Next, Live!ReaderStep, Live!ReaderFails,
        Live!ReaderCancelled, Live!ReaderRuns, Live!ReaderEnds, Live!drainVars, Live!closeVars
  <2> QED BY <1>4, <2>1, <2>2, <2>3 DEF Session!ReaderStep, Live!ReaderStep, Live!Next
<1>5. CASE Session!DrainStep
  BY <1>3, <1>5
  DEF Session!DrainStep, Session!DrainTakes, Session!DrainSent, Session!DrainFails,
      Session!DrainCancelled, Session!DrainRuns, Session!Taken, Session!streamVars,
      Session!readerVars, Session!closeVars, Live!Next, Live!DrainStep, Live!DrainTakes,
      Live!DrainSent, Live!DrainFails, Live!DrainCancelled, Live!DrainRuns, Live!Taken,
      Live!streamVars, Live!readerVars, Live!closeVars
<1>6. ASSUME NEW c \in Enders, Session!CloseBegin(c) PROVE Live!CloseBegin(c)
  BY <1>3, <1>6
  DEF Session!CloseBegin, Session!CloseBeginCore, Session!DecideReason, Session!TasksFirst,
      Session!ToStop, Session!Alive, Session!streamVars, Session!readerVars,
      Live!CloseBegin, Live!CloseBeginCore, Live!DecideReason, Live!TasksFirst,
      Live!ToStop, Live!Alive, Live!streamVars, Live!readerVars
<1>7. ASSUME NEW c \in Enders, Session!CloseStep(c) PROVE Live!CloseStep(c)
  <2>1. Session!CloseFrame => Live!CloseFrame
    BY DEF Session!CloseFrame, Session!streamVars, Session!readerVars, Session!drainVars,
           Live!CloseFrame, Live!streamVars, Live!readerVars, Live!drainVars
  <2> QED
    BY <1>7, <2>1
    DEF Session!CloseStep, Session!CloseReaderStopped, Session!CloseDrainStopped,
        Session!CloseTransport, Session!CloseManager, Session!CloseRaises,
        Live!CloseStep, Live!CloseReaderStopped, Live!CloseDrainStopped,
        Live!CloseTransport, Live!CloseManager, Live!CloseRaises
<1> QED BY <1>1, <1>2, <1>4, <1>5, <1>6, <1>7 DEF Session!Next, Live!Next

\* What is known of any session, and holds of the session of a call.
SessionInv == Live!TypeOK /\ Live!Stopping /\ Live!SessionEnded /\ Live!Promise

\* The session a call begins with.
LEMMA OpenedSession == Init => SessionInv
<1> SUFFICES ASSUME Init PROVE SessionInv
  OBVIOUS
<1>1. Session!Opened /\ Session!Untouched
  BY DEF Init, Session!Opened
<1>2. Live!TypeOK
  <2>1. turn \in Live!Turn
    BY <1>1, EmptySeq DEF Session!Untouched, Session!NoTurn, Live!Turn
  <2>2. /\ inbox \in Seq(Live!Event) /\ seen \in Seq(Live!Event)
        /\ outbox \in Seq(1 .. MaxFrames) /\ sent \in Seq(1 .. MaxFrames)
    BY <1>1, EmptySeq DEF Session!Untouched
  <2>3. messages \in 0 .. MaxMessages /\ frames \in 0 .. MaxFrames
    BY <1>1, BoundsAssumption DEF Session!Untouched
  <2>4. closer \in [Enders -> {"idle", "awaitReader", "awaitDrain", "closeTransport",
                               "exitManager", "done", "raised"}]
    BY <1>1 DEF Session!Untouched
  <2>5. heard = {} /\ completes = {} /\ cancelled = {} /\ cause = "none"
    BY <1>1 DEF Session!Untouched
  <2> QED
    BY <1>1, <2>1, <2>2, <2>3, <2>4, <2>5
    DEF Session!Opened, Session!Untouched, Live!TypeOK
<1>3. Live!Stopping
  BY <1>1 DEF Session!Opened, Session!Untouched, Live!Stopping
<1>4. inbox = <<>> /\ seen = <<>> /\ closed = FALSE /\ cause = "none" /\ consumer = "iterating"
  BY <1>1 DEF Session!Untouched
<1>5. Live!SessionEnded
  <2>1. Len(seen \o inbox) = 0
    BY <1>4
  <2> QED BY <1>4, <2>1 DEF Live!SessionEnded, Live!Stream, Live!Ended
<1>6. Live!Promise
  BY <1>4 DEF Live!Promise, Live!Unended
<1> QED BY <1>2, <1>3, <1>5, <1>6 DEF SessionInv

\* Every step of a call keeps what is known of its session.
LEMMA SessionInvStep == SessionInv /\ [Next]_vars => SessionInv'
<1> SUFFICES ASSUME SessionInv, [Live!Next]_(Live!vars) PROVE SessionInv'
  BY SessionSteps, SameNext
<1>1. Live!ShapesAssumption /\ Live!BoundsAssumption /\ Live!RaiseAssumption
  BY ShapesAssumption, BoundsAssumption, RaiseAssumption
  DEF Live!ShapesAssumption, Live!BoundsAssumption, Live!RaiseAssumption, Session!Fields,
      Live!Fields
<1>2. Live!TypeOK'
  BY <1>1, Live!StepTyped DEF SessionInv
<1>3. Live!Stopping'
  BY <1>1, Live!StoppingStep DEF SessionInv
<1>4. Live!SessionEnded'
  BY <1>1, Live!EndedStep DEF SessionInv
<1>5. Live!Promise'
  BY <1>1, Live!StreamStep DEF SessionInv
<1> QED BY <1>2, <1>3, <1>4, <1>5 DEF SessionInv

\* The session's invariants hold throughout the call.
LEMMA SessionHolds == Spec => []SessionInv
  BY OpenedSession, SessionInvStep, PTL DEF Spec

(***************************************************************************)
(* A call drives its session only through what the session offers: the     *)
(* session a call adopts is open, and each step of the call is a step of   *)
(* LiveSession or leaves it alone (server.py:382-409).                     *)
(***************************************************************************)
THEOREM CallKeepsToSession == Spec => Session!Opened /\ [][Session!Next]_sessionVars
<1>1. Init => Session!Opened
  BY DEF Init
<1> QED BY <1>1, SessionSteps, PTL DEF Spec

-----------------------------------------------------------------------------
(* Type correctness, and the loop's queue.                                 *)

\* The call's variables but the queue.
CallTyped ==
    /\ task \in [Enders -> States]
    /\ stopped \subseteq {"pump", "outbound"}
    /\ why \in [Enders -> Reasons]
    /\ lock \in Enders \cup {"nobody"}
    /\ waiters \in Seq(Enders)
    /\ done \in BOOLEAN /\ senderClosed \in BOOLEAN
    /\ outQueue \in Nat
    /\ finalised \subseteq {"gemini", "twilio"}
    /\ pushed \subseteq {"gemini", "twilio"}

\* The queue holds no task twice and every task that can go on.
Scheduled ==
    /\ ready \in Seq(Tasks)
    /\ \A i, j \in DOMAIN ready : ready[i] = ready[j] => i = j
    /\ \A t \in Tasks : Awake(t) => InReady(t)

\* Together they are the type invariant.
LEMMA TypeParts == TypeOK <=> CallTyped /\ Scheduled
  BY DEF TypeOK, CallTyped, Scheduled

\* Giving up a place in the queue for the lock moves nobody out of it.
LEMMA WithoutTyped ==
    ASSUME NEW S, NEW q \in Seq(S), NEW t
    PROVE  Without(q, t) \in Seq(S)
<1>1. CASE \E i \in DOMAIN q : q[i] = t
  <2> DEFINE k == CHOOSE i \in DOMAIN q : q[i] = t
  <2>1. k \in 1 .. Len(q) /\ Len(q) \in Nat
    BY <1>1
  <2> HIDE DEF k
  <2>2. SubSeq(q, 1, k - 1) \in Seq(S) /\ SubSeq(q, k + 1, Len(q)) \in Seq(S)
    BY <2>1
  <2>3. RemoveAt(q, k) \in Seq(S)
    BY <2>2 DEF RemoveAt
  <2> QED BY <1>1, <2>3 DEF Without, k
<1>2. CASE ~ \E i \in DOMAIN q : q[i] = t
  BY <1>2 DEF Without
<1> QED BY <1>1, <1>2

\* The task that meets an ending.
LEMMA EndingTyped ==
    ASSUME CallTyped, NEW t \in Enders, NEW reason \in Reasons, Ending(t, reason)
    PROVE  /\ task' \in [Enders -> States] /\ why' \in [Enders -> Reasons]
           /\ waiters' \in Seq(Enders)
<1>1. task' \in [Enders -> States] /\ why' \in [Enders -> Reasons]
  BY DEF CallTyped, Ending, States
<1>2. waiters' \in Seq(Enders)
  BY AppendProperties DEF CallTyped, Ending
<1> QED BY <1>1, <1>2

\* Every way a session closes is a reason for a call to end.
LEMMA ClosedReason ==
    ASSUME NEW e \in Live!Event, e.kind = "closed"
    PROVE  /\ e.reason \in Live!Reason /\ GeminiReason[e.reason] \in Reasons
           /\ GeminiReason[e.reason] = "gemini_local" => e.reason = "local"
<1>1. e.reason \in Live!Reason
  BY DEF Live!Event, Live!Said, Live!Interrupted
<1>2. /\ GeminiReason["local"] = "gemini_local" /\ GeminiReason["remote"] = "gemini_remote"
      /\ GeminiReason["remote_error"] = "gemini_remote_error"
      /\ GeminiReason["send_failed"] = "gemini_send_failed"
  BY DEF GeminiReason
<1> QED BY <1>1, <1>2 DEF Live!Reason, Reasons

\* The head of the inbox.
LEMMA HeadIsEvent ==
    SessionInv /\ inbox # <<>> => Head(inbox) \in Live!Event
  BY DEF SessionInv, Live!TypeOK

\* Every step keeps the types.
LEMMA CallTypedStep == SessionInv /\ CallTyped /\ Action => CallTyped'
<1> SUFFICES ASSUME SessionInv, CallTyped, Action PROVE CallTyped'
  OBVIOUS
<1>0. task \in [Enders -> States] /\ why \in [Enders -> Reasons] /\ waiters \in Seq(Enders)
  BY DEF CallTyped
<1>1. CASE Idle
  BY <1>1 DEF Idle, callVars, CallTyped
<1>2. CASE \E t \in {"reader", "upload"} : SessionStep(t)
  BY <1>2 DEF SessionStep, callVars, CallTyped
<1>3. CASE HandlerStart
  BY <1>3 DEF HandlerStart, CallTyped, Enders, States
<1>4. CASE HandlerFrame \/ HandlerEnds
  <2>1. \/ \E reason \in Reasons : Ending("handler", reason)
        \/ UNCHANGED <<task, why, waiters>>
    BY <1>4 DEF HandlerFrame, HandlerEnds, Reasons
  <2>2. /\ task' \in [Enders -> States] /\ why' \in [Enders -> Reasons]
        /\ waiters' \in Seq(Enders)
    BY <1>0, <2>1, EndingTyped DEF Enders
  <2>3. /\ pushed' \subseteq {"gemini", "twilio"}
        /\ UNCHANGED <<stopped, lock, done, senderClosed, outQueue, finalised>>
    BY <1>4 DEF HandlerFrame, HandlerEnds, CallTyped
  <2> QED BY <2>2, <2>3 DEF CallTyped
<1>5. CASE PumpTakes
  <2>1. \/ \E reason \in Reasons : Ending("pump", reason)
        \/ task' = [task EXCEPT !["pump"] = "crashed"] /\ UNCHANGED <<why, waiters>>
        \/ UNCHANGED <<task, why, waiters>>
    BY <1>5, HeadIsEvent, ClosedReason, DeliverKeeps DEF PumpTakes, RouteChunk
  <2>2. /\ task' \in [Enders -> States] /\ why' \in [Enders -> Reasons]
        /\ waiters' \in Seq(Enders)
    BY <1>0, <2>1, EndingTyped DEF Enders, States
  <2>3. /\ pushed' \subseteq {"gemini", "twilio"} /\ outQueue' \in Nat
        /\ UNCHANGED <<stopped, lock, done, senderClosed, finalised>>
    <3>1. /\ pushed' \in {pushed, pushed \cup {"twilio"}}
          /\ outQueue' \in {outQueue, outQueue + 1}
      BY <1>5 DEF PumpTakes, RouteChunk
    <3>2. UNCHANGED <<stopped, lock, done, senderClosed, finalised>>
      BY <1>5 DEF PumpTakes
    <3> QED BY <3>1, <3>2 DEF CallTyped
  <2> QED BY <2>2, <2>3 DEF CallTyped
<1>6. CASE OutboundTakes \/ OutboundSent
  <2>1. task' \in [Enders -> States]
    BY <1>0, <1>6 DEF OutboundTakes, OutboundSent, States
  <2>2. outQueue' \in Nat
    BY <1>6 DEF OutboundTakes, OutboundSent, FramesWaiting, CallTyped
  <2> QED BY <1>6, <2>1, <2>2 DEF OutboundTakes, OutboundSent, CallTyped
<1>7. CASE OutboundFails
  BY <1>7, EndingTyped DEF OutboundFails, CallTyped, Enders, Reasons
<1>8. ASSUME NEW t \in {"pump", "outbound"}, TaskCancelled(t) PROVE CallTyped'
  <2>1. waiters' \in Seq(Enders)
    BY <1>0, <1>8, WithoutTyped DEF TaskCancelled
  <2> QED BY <1>8, <2>1 DEF TaskCancelled, CallTyped, States
<1>9. ASSUME NEW t \in Enders, TeardownStep(t) PROVE CallTyped'
  <2>1. CASE Acquire(t)
    <3>1. waiters' \in Seq(Enders)
      <4>1. waiters' = Tail(waiters)
        BY <2>1 DEF Acquire
      <4>2. CASE waiters # <<>>
        BY <1>0, <4>1, <4>2
      <4>3. CASE waiters = <<>>
        BY <1>0, <4>1, <4>3
      <4> QED BY <4>2, <4>3
    <3>2. task' \in [Enders -> States]
      BY <2>1 DEF Acquire, CallTyped, States
    <3> QED BY <2>1, <3>1, <3>2 DEF Acquire, Cancelled, CallTyped, Enders
  <2>2. CASE FlushBridge(t)
    <3>1. why' \in [Enders -> Reasons]
      BY <2>2 DEF FlushBridge, CallTyped, Reasons
    <3>2. task' \in [Enders -> States] /\ finalised' \subseteq {"gemini", "twilio"}
      BY <2>2 DEF FlushBridge, CallTyped, States
    <3> QED BY <2>2, <3>1, <3>2 DEF FlushBridge, CallTyped
  <2>3. CASE CloseSession(t)
    BY <2>3 DEF CloseSession, callVars, CallTyped
  <2>4. CASE StopPump(t)
    BY <2>4 DEF StopPump, Cancelled, CallTyped, States
  <2>5. CASE TeardownRaises(t) \/ DeliverRecord(t) \/ Delivered(t)
    BY <2>5 DEF TeardownRaises, DeliverRecord, Delivered, CallTyped, States
  <2> QED BY <1>9, <2>1, <2>2, <2>3, <2>4, <2>5 DEF TeardownStep
<1> QED BY <1>1, <1>2, <1>3, <1>4, <1>5, <1>6, <1>7, <1>8, <1>9 DEF Action

\* q holds the tasks of S, each once.
Lists(q, S) ==
    /\ q \in Seq(Tasks)
    /\ \A i, j \in DOMAIN q : q[i] = q[j] => i = j
    /\ \A t \in Tasks : t \in S <=> \E i \in DOMAIN q : q[i] = t

\* Two queues one behind the other.
LEMMA ListsConcat ==
    ASSUME NEW q, NEW r, NEW S, NEW T, Lists(q, S), Lists(r, T), S \cap T = {}
    PROVE  Lists(q \o r, S \cup T)
<1>1. /\ q \in Seq(Tasks) /\ r \in Seq(Tasks) /\ q \o r \in Seq(Tasks)
      /\ Len(q) \in Nat /\ Len(r) \in Nat /\ Len(q \o r) = Len(q) + Len(r)
      /\ DOMAIN q = 1 .. Len(q) /\ DOMAIN r = 1 .. Len(r)
      /\ DOMAIN (q \o r) = 1 .. Len(q) + Len(r)
  BY DEF Lists
<1>2. /\ \A i \in 1 .. Len(q) : (q \o r)[i] = q[i] /\ q[i] \in S
      /\ \A i \in 1 .. Len(r) : (q \o r)[Len(q) + i] = r[i] /\ r[i] \in T
  <2>1. \A i \in 1 .. Len(q) : q[i] \in Tasks
    BY <1>1, ElementOfSeq
  <2>2. \A i \in 1 .. Len(r) : r[i] \in Tasks
    BY <1>1, ElementOfSeq
  <2> QED BY <1>1, <2>1, <2>2 DEF Lists
<1>3. \A i \in 1 .. Len(q) + Len(r) :
         i \in 1 .. Len(q) \/ (i - Len(q) \in 1 .. Len(r) /\ (q \o r)[i] = r[i - Len(q)])
  BY <1>1
<1>4. ASSUME NEW i \in 1 .. Len(q) + Len(r), NEW j \in 1 .. Len(q) + Len(r),
             (q \o r)[i] = (q \o r)[j]
      PROVE  i = j
  <2>1. CASE i \in 1 .. Len(q) /\ j \in 1 .. Len(q)
    BY <1>1, <1>2, <1>4, <2>1 DEF Lists
  <2>2. CASE i - Len(q) \in 1 .. Len(r) /\ j - Len(q) \in 1 .. Len(r)
    <3>1. r[i - Len(q)] = r[j - Len(q)]
      BY <1>1, <1>4, <2>2
    <3>2. i - Len(q) = j - Len(q)
      BY <1>1, <2>2, <3>1 DEF Lists
    <3> QED BY <1>1, <3>2
  <2>3. CASE \/ i \in 1 .. Len(q) /\ j - Len(q) \in 1 .. Len(r)
             \/ j \in 1 .. Len(q) /\ i - Len(q) \in 1 .. Len(r)
    BY <1>2, <1>3, <1>4, <2>3
  <2> QED BY <1>3, <2>1, <2>2, <2>3
<1>5. ASSUME NEW t \in Tasks
      PROVE  t \in S \cup T <=> \E i \in 1 .. Len(q) + Len(r) : (q \o r)[i] = t
  <2>1. ASSUME t \in S PROVE \E i \in 1 .. Len(q) + Len(r) : (q \o r)[i] = t
    <3>1. PICK i \in 1 .. Len(q) : q[i] = t
      BY <1>1, <2>1 DEF Lists
    <3> QED BY <1>1, <1>2, <3>1
  <2>2. ASSUME t \in T PROVE \E i \in 1 .. Len(q) + Len(r) : (q \o r)[i] = t
    <3>1. PICK i \in 1 .. Len(r) : r[i] = t
      BY <1>1, <2>2 DEF Lists
    <3>2. Len(q) + i \in 1 .. Len(q) + Len(r)
      BY <1>1
    <3> QED BY <1>2, <3>1, <3>2
  <2>3. ASSUME NEW i \in 1 .. Len(q) + Len(r), (q \o r)[i] = t PROVE t \in S \cup T
    BY <1>2, <1>3, <2>3
  <2> QED BY <2>1, <2>2, <2>3
<1> QED BY <1>1, <1>4, <1>5 DEF Lists

\* The queue without its head.
LEMMA ListsTail ==
    ASSUME NEW q, NEW S, Lists(q, S), q # <<>>
    PROVE  Lists(Tail(q), S \ {Head(q)})
<1>1. /\ q \in Seq(Tasks) /\ Tail(q) \in Seq(Tasks) /\ Len(q) \in Nat \ {0}
      /\ DOMAIN q = 1 .. Len(q) /\ DOMAIN Tail(q) = 1 .. Len(q) - 1
      /\ Head(q) = q[1] /\ \A i \in 1 .. Len(q) - 1 : Tail(q)[i] = q[i + 1]
  BY DEF Lists
<1>2. ASSUME NEW i \in 1 .. Len(q) - 1, NEW j \in 1 .. Len(q) - 1, Tail(q)[i] = Tail(q)[j]
      PROVE  i = j
  <2>1. i + 1 \in 1 .. Len(q) /\ j + 1 \in 1 .. Len(q) /\ q[i + 1] = q[j + 1]
    BY <1>1, <1>2
  <2>2. i + 1 = j + 1
    BY <1>1, <2>1 DEF Lists
  <2> QED BY <2>2
<1>3. ASSUME NEW t \in Tasks
      PROVE  t \in S \ {Head(q)} <=> \E i \in 1 .. Len(q) - 1 : Tail(q)[i] = t
  <2>1. ASSUME t \in S, t # Head(q) PROVE \E i \in 1 .. Len(q) - 1 : Tail(q)[i] = t
    <3>1. PICK i \in 1 .. Len(q) : q[i] = t
      BY <1>1, <2>1 DEF Lists
    <3>2. i - 1 \in 1 .. Len(q) - 1 /\ Tail(q)[i - 1] = t
      BY <1>1, <2>1, <3>1
    <3> QED BY <3>2
  <2>2. ASSUME NEW i \in 1 .. Len(q) - 1, Tail(q)[i] = t PROVE t \in S /\ t # Head(q)
    <3>1. i + 1 \in 1 .. Len(q) /\ 1 \in 1 .. Len(q) /\ q[i + 1] = t /\ i + 1 # 1
      BY <1>1, <2>2
    <3> QED BY <1>1, <3>1 DEF Lists
  <2> QED BY <2>1, <2>2
<1> QED BY <1>1, <1>2, <1>3 DEF Lists

\* A step wakes the tasks that were not queued and can now go on.
Roused == {t \in Tasks : ~ InReady(t) /\ Awake(t)'}

\* Woken is the queue of those tasks.
LEMMA WokenLists == Lists(Woken, Roused)
<1> DEFINE D(t) == IF t \in Roused THEN {t} ELSE {}
<1>1. ASSUME NEW t \in Tasks PROVE Lists(Wakes(t), D(t))
  <2>1. CASE t \in Roused
    <3>1. Wakes(t) = <<t>>
      BY <2>1 DEF Wakes, Roused
    <3>2. <<t>> \in Seq(Tasks) /\ DOMAIN <<t>> = {1} /\ <<t>>[1] = t
      OBVIOUS
    <3> QED BY <2>1, <3>1, <3>2 DEF Lists
  <2>2. CASE t \notin Roused
    <3>1. Wakes(t) = <<>>
      BY <2>2 DEF Wakes, Roused
    <3>2. <<>> \in Seq(Tasks) /\ DOMAIN <<>> = {}
      OBVIOUS
    <3> QED BY <2>2, <3>1, <3>2 DEF Lists
  <2> QED BY <2>1, <2>2
<1>2. {"pump", "reader", "upload", "outbound", "handler"} = Tasks
  BY DEF Tasks
<1> DEFINE s1 == Wakes("pump") \o Wakes("reader")
           s2 == s1 \o Wakes("upload")
           s3 == s2 \o Wakes("outbound")
<1>3. Lists(s1, D("pump") \cup D("reader"))
  BY <1>1, <1>2, ListsConcat
<1>4. Lists(s2, D("pump") \cup D("reader") \cup D("upload"))
  <2> HIDE DEF s1
  <2>1. (D("pump") \cup D("reader")) \cap D("upload") = {}
    OBVIOUS
  <2> QED BY <1>1, <1>2, <1>3, <2>1, ListsConcat
<1>5. Lists(s3, D("pump") \cup D("reader") \cup D("upload") \cup D("outbound"))
  <2> HIDE DEF s2
  <2>1. (D("pump") \cup D("reader") \cup D("upload")) \cap D("outbound") = {}
    OBVIOUS
  <2> QED BY <1>1, <1>2, <1>4, <2>1, ListsConcat
<1> DEFINE all == D("pump") \cup D("reader") \cup D("upload") \cup D("outbound") \cup D("handler")
<1>6. Lists(s3 \o Wakes("handler"), all)
  <2> HIDE DEF s3
  <2>1. (D("pump") \cup D("reader") \cup D("upload") \cup D("outbound")) \cap D("handler") = {}
    OBVIOUS
  <2> QED BY <1>1, <1>2, <1>5, <2>1, ListsConcat
<1>7. all = Roused
  <2>1. Roused \subseteq Tasks
    BY DEF Roused
  <2> QED BY <1>2, <2>1
<1>8. Woken = s3 \o Wakes("handler")
  BY DEF Woken
<1> QED BY <1>6, <1>7, <1>8

\* What the queue holds.
Queue == {t \in Tasks : InReady(t)}

\* The loop's queue lists what it holds.
LEMMA ReadyLists == Scheduled => Lists(ready, Queue)
  BY DEF Scheduled, Lists, Queue, InReady

\* The head keeps the loop, or leaves it unless it can go on; whom the step
\* woke is behind the others.
LEMMA QueueAfter ==
    ASSUME Scheduled, NEW h \in Tasks, Running(h), Yields(h)
    PROVE  \E kept \in {Queue, Queue \ {h}} :
              /\ Lists(ready', kept \cup Roused)
              /\ kept = Queue \/ ~ Awake(h)'
              /\ ~ Awake(h)' /\ ~ Receiving(h)' => kept = Queue \ {h}
<1>1. Lists(ready, Queue) /\ ready # <<>> /\ Head(ready) = h
  BY ReadyLists DEF Running
<1>2. Queue \cap Roused = {} /\ (Queue \ {h}) \cap Roused = {}
  BY DEF Queue, Roused
<1>3. Lists(ready \o Woken, Queue \cup Roused)
  BY <1>1, <1>2, WokenLists, ListsConcat
<1>4. Lists(Tail(ready) \o Woken, (Queue \ {h}) \cup Roused)
  <2>1. Lists(Tail(ready), Queue \ {h})
    BY <1>1, ListsTail
  <2> QED BY <1>2, <2>1, WokenLists, ListsConcat
<1>5. \/ ready' = ready \o Woken /\ (Awake(h)' \/ Receiving(h)')
      \/ ready' = Tail(ready) \o Woken /\ ~ Awake(h)'
  BY DEF Yields
<1> QED BY <1>3, <1>4, <1>5

\* Who can go on is queued either way.
LEMMA YieldsScheduled ==
    ASSUME Scheduled, NEW h \in Tasks, Running(h), Yields(h)
    PROVE  Scheduled'
<1>1. PICK kept \in {Queue, Queue \ {h}} : /\ Lists(ready', kept \cup Roused)
                                           /\ kept = Queue \/ ~ Awake(h)'
  BY QueueAfter
<1>2. ASSUME NEW t \in Tasks, Awake(t)' PROVE t \in kept \cup Roused
  BY <1>1, <1>2 DEF Queue, Roused
<1>3. \A t \in Tasks : Awake(t)' => InReady(t)'
  BY <1>1, <1>2 DEF Lists, InReady
<1> QED BY <1>1, <1>3 DEF Lists, Scheduled

\* A step of nothing but the queue changes nobody's mind.
LEMMA IdleAwake ==
    ASSUME Idle, NEW t \in Tasks
    PROVE  Awake(t)' <=> Awake(t)
  BY DEF Idle, sessionVars, callVars, Awake, TaskAwake, FramesWaiting

\* Every step keeps the queue.
LEMMA ScheduledStep == Scheduled /\ [Next]_vars => Scheduled'
<1> SUFFICES ASSUME Scheduled, [Next]_vars PROVE Scheduled'
  OBVIOUS
<1>1. CASE UNCHANGED vars
  <2>1. Idle /\ ready' = ready
    BY <1>1 DEF vars, Idle
  <2> QED BY <2>1, IdleAwake DEF Scheduled, InReady
<1>2. ASSUME NEW t \in Tasks, Completes(t) PROVE Scheduled'
  <2>1. Idle /\ ~ InReady(t) /\ ready' = Append(ready, t) /\ ready \in Seq(Tasks)
    BY <1>2 DEF Completes, Idle, Scheduled
  <2>2. /\ ready' \in Seq(Tasks) /\ Len(ready) \in Nat /\ Len(ready') = Len(ready) + 1
        /\ DOMAIN ready = 1 .. Len(ready) /\ DOMAIN ready' = 1 .. Len(ready) + 1
        /\ ready'[Len(ready) + 1] = t
        /\ \A i \in 1 .. Len(ready) : ready'[i] = ready[i] /\ ready[i] # t
    BY <2>1, AppendProperties DEF InReady
  <2>3. \A i, j \in DOMAIN ready' : ready'[i] = ready'[j] => i = j
    <3>1. \A i \in 1 .. Len(ready) + 1 : i = Len(ready) + 1 \/ i \in 1 .. Len(ready)
      BY <2>2
    <3> QED BY <2>2, <3>1 DEF Scheduled
  <2>4. \A u \in Tasks : InReady(u) => InReady(u)'
    BY <2>2 DEF InReady
  <2> QED BY <2>1, <2>2, <2>3, <2>4, IdleAwake DEF Scheduled
<1>3. ASSUME NEW t \in Tasks, Step(t) PROVE Scheduled'
  BY <1>3, YieldsScheduled DEF Step
<1> QED BY <1>1, <1>2, <1>3 DEF Next

\* A call begins with an empty queue, and nobody to put into it.
LEMMA InitTyped == Init => TypeOK
<1> SUFFICES ASSUME Init PROVE TypeOK
  OBVIOUS
<1>1. CallTyped
  <2>1. waiters \in Seq(Enders)
    BY EmptySeq DEF Init
  <2> QED BY <2>1 DEF Init, CallTyped, States, Reasons
<1>2. ASSUME NEW t \in Tasks PROVE ~ Awake(t)
  BY <1>2 DEF Init, Session!Opened, Session!Untouched, Awake, TaskAwake, FramesWaiting,
              Tasks, Enders
<1>3. ready \in Seq(Tasks) /\ DOMAIN ready = {}
  BY EmptySeq DEF Init
<1> QED BY <1>1, <1>2, <1>3, TypeParts DEF Scheduled

(***************************************************************************)
(* Every variable of a call has its type, no task is queued twice, and no  *)
(* task that can go on is forgotten by the event loop.                     *)
(***************************************************************************)
THEOREM TypeCorrect == Spec => []TypeOK
<1>1. SessionInv /\ TypeOK /\ [Next]_vars => TypeOK'
  <2>1. CallTyped' /\ Scheduled' => TypeOK'
    BY DEF TypeOK, CallTyped, Scheduled
  <2> QED BY <2>1, CallTypedStep, ScheduledStep, StepIsAction, TypeParts
<1> QED BY <1>1, InitTyped, SessionHolds, PTL DEF Spec

-----------------------------------------------------------------------------
(* The one teardown.                                                       *)

\* Where each task can stand.
HandlerStates  == {"accepted", "inCall", "lock", "done", "crashed"} \cup InTeardown
PumpStates     == {"none", "events", "lock", "done", "crashed"} \cup InTeardown
OutboundStates == {"none", "get", "sending", "lock", "done", "crashed"} \cup InTeardown

\* A task is in its teardown exactly while it holds the lock, and a task that
\* was cancelled has not got there and never will.
Exclusive ==
    /\ task["handler"] \in HandlerStates /\ task["pump"] \in PumpStates
    /\ task["outbound"] \in OutboundStates
    /\ \A t \in Enders : task[t] \in InTeardown <=> lock = t
    /\ lock # "nobody" => done
    /\ \A t \in stopped : done /\ task[t] \notin InTeardown \cup Over \cup {"none"}
    /\ task["handler"] = "accepted" <=> task["pump"] = "none"
    /\ task["handler"] = "accepted" <=> task["outbound"] = "none"
    /\ task["handler"] = "accepted" => ~ done

\* Before the first ending nothing is torn down; afterwards only its holder
\* closes the session, in the order of the code.
Closers(t) == \A u \in Enders \ {t} : closer[u] = "idle"

OneTeardown ==
    /\ ~ done => records = <<>> /\ finalised = {}
    /\ done => senderClosed
    /\ ~ done => ~ tornDown /\ \A t \in Enders : closer[t] = "idle"
    /\ tornDown => closed
    /\ ~ tornDown => \A t \in Enders : closer[t] = "idle"
    /\ \A t \in Enders :
        /\ closer[t] # "idle" =>
              task[t] \in {"closing", "stopPump", "delivering"} \cup Over
        /\ task[t] = "stopOutbound" =>
              ~ tornDown /\ \A u \in Enders : closer[u] = "idle"
        /\ task[t] = "closing" => Closers(t) /\ (tornDown <=> closer[t] # "idle")
        /\ task[t] \in {"closing", "stopPump", "delivering"} =>
              finalised # {} /\ (t = "outbound" \/ task["outbound"] \in Over)
        /\ task[t] \in {"stopPump", "delivering"} => closer[t] = "done" /\ tornDown
        /\ closer[t] = "exitManager" => transport = "closed"
        /\ closer[t] = "done" => transport = "closed" /\ manager = "exited"
        /\ task[t] \in {"stopOutbound", "closing", "stopPump"} => records = <<>>

\* What the end of a teardown leaves behind.
TornDown ==
    /\ RecordOnceAndLast
    /\ \A t \in Enders : task[t] = "delivering" => records # <<>>
    /\ OnlyRaisingLosesRecord
    /\ cause = "local" => tornDown
    /\ \A t \in Enders : why[t] = "gemini_local" =>
          t = "pump" /\ done /\ task[t] \in {"lock", "done"}

-----------------------------------------------------------------------------
(* The turns the pump copied.                                              *)

Before(u, v) ==
    \E i, j \in DOMAIN ready : i < j /\ ready[i] = u /\ ready[j] = v

Copied ==
    /\ transcript \in Seq(Live!Event) /\ Story!CopiesTurns(transcript, seen)
    /\ task["pump"] \in {"none", "events"} => consumer = "iterating"
    /\ task["pump"] \in {"lock", "done"} \cup InTeardown => consumer = "ended"
    /\ consumer = "ended" => seen # <<>> /\ seen[Len(seen)].kind = "closed"
    /\ "pump" \in stopped => task["pump"] = "lock"
    /\ records # <<>> => consumer = "ended" /\ records[1].transcript = transcript

\* close() resumes behind the pump, which its Closed woke.
PumpFirst ==
    \A t \in {"handler", "outbound"} :
        /\ closer[t] = "closeTransport" /\ task["pump"] = "events" /\ InReady(t) =>
              Before("pump", t)
        /\ closer[t] \in {"exitManager", "done"} => task["pump"] # "events"

\* The holder of the lock goes on in its teardown, or leaves it.
LEMMA HolderMoves ==
    ASSUME CallTyped, Exclusive, NEW t \in Enders, task[t] \in InTeardown,
           NEW to \in InTeardown \cup Over, task' = [task EXCEPT ![t] = to],
           lock' = IF to \in InTeardown THEN lock ELSE "nobody",
           stopped' = stopped, done' = done
    PROVE  Exclusive'
<1> USE DEF InTeardown, Over, Enders
<1>1. /\ task \in [Enders -> States] /\ lock = t /\ done /\ t \notin stopped
      /\ task["handler"] # "accepted" /\ \A u \in Enders \ {t} : task[u] \notin InTeardown
  BY DEF CallTyped, Exclusive
<1>2. task'[t] = to /\ \A u \in Enders \ {t} : task'[u] = task[u]
  BY <1>1
<1>3. /\ task'["handler"] \in HandlerStates /\ task'["pump"] \in PumpStates
      /\ task'["outbound"] \in OutboundStates
  BY <1>2 DEF Exclusive, HandlerStates, PumpStates, OutboundStates
<1>4. \A u \in Enders : task'[u] \in InTeardown <=> lock' = u
  BY <1>1, <1>2
<1>5. \A u \in stopped : done /\ task'[u] \notin InTeardown \cup Over \cup {"none"}
  <2>1. stopped \subseteq Enders
    BY DEF CallTyped
  <2> QED BY <1>1, <1>2, <2>1 DEF Exclusive
<1>6. /\ task'["handler"] = "accepted" <=> task'["pump"] = "none"
      /\ task'["handler"] = "accepted" <=> task'["outbound"] = "none"
      /\ task'["handler"] # "accepted"
  BY <1>1, <1>2 DEF Exclusive
<1> QED BY <1>1, <1>3, <1>4, <1>5, <1>6 DEF Exclusive

\* A task that runs outside a teardown stays outside.
LEMMA OutsiderMoves ==
    ASSUME CallTyped, Exclusive, NEW t \in Enders,
           task[t] \notin InTeardown \cup {"none", "accepted"},
           NEW to \in {"get", "sending", "lock"} \cup Over,
           t # "outbound" => to \in {"lock"} \cup Over,
           task' = [task EXCEPT ![t] = to],
           lock' = lock, stopped' \subseteq stopped \ {t}, done' = done
    PROVE  Exclusive'
<1> USE DEF InTeardown, Over, Enders
<1>1. /\ task \in [Enders -> States] /\ lock # t
      /\ task["handler"] # "accepted" /\ stopped \subseteq Enders
  BY DEF CallTyped, Exclusive
<1>2. task'[t] = to /\ \A u \in Enders \ {t} : task'[u] = task[u]
  BY <1>1
<1>3. /\ task'["handler"] \in HandlerStates /\ task'["pump"] \in PumpStates
      /\ task'["outbound"] \in OutboundStates
  BY <1>2 DEF Exclusive, HandlerStates, PumpStates, OutboundStates
<1>4. \A u \in Enders : task'[u] \in InTeardown <=> lock = u
  BY <1>1, <1>2 DEF Exclusive
<1>5. \A u \in stopped' : done /\ task'[u] \notin InTeardown \cup Over \cup {"none"}
  BY <1>1, <1>2 DEF Exclusive
<1>6. /\ task'["handler"] = "accepted" <=> task'["pump"] = "none"
      /\ task'["handler"] = "accepted" <=> task'["outbound"] = "none"
      /\ task'["handler"] # "accepted"
  BY <1>1, <1>2 DEF Exclusive
<1> QED BY <1>3, <1>4, <1>5, <1>6 DEF Exclusive

\* Each step keeps the teardown exclusive.
LEMMA ExclusiveStep == CallTyped /\ Exclusive /\ Action => Exclusive'
<1> SUFFICES ASSUME CallTyped, Exclusive, Action PROVE Exclusive'
  OBVIOUS
<1> USE DEF HandlerStates, PumpStates, OutboundStates, InTeardown, Over, Enders
<1>0. task \in [Enders -> States] /\ done \in BOOLEAN
  BY DEF CallTyped
<1>1. CASE Idle \/ \E t \in {"reader", "upload"} : SessionStep(t)
  BY <1>1 DEF Idle, SessionStep, callVars, Exclusive
<1>2. CASE HandlerStart
  BY <1>0, <1>2 DEF HandlerStart, Exclusive
<1>3. CASE UNCHANGED <<task, stopped, lock, done>>
  BY <1>3 DEF Exclusive
<1>4. CASE HandlerFrame \/ HandlerEnds
  <2>1. /\ task["handler"] = "inCall"
        /\ task' = task \/ task' = [task EXCEPT !["handler"] = "lock"]
        /\ UNCHANGED <<stopped, lock, done>>
    BY <1>4 DEF HandlerFrame, HandlerEnds, Ending
  <2>2. "handler" \notin stopped
    BY DEF CallTyped
  <2> QED BY <1>3, <2>1, <2>2, OutsiderMoves
<1>5. CASE PumpTakes
  <2>1. /\ task["pump"] = "events" /\ "pump" \notin stopped
        /\ \/ task' = task
           \/ \E to \in {"lock", "crashed"} : task' = [task EXCEPT !["pump"] = to]
        /\ UNCHANGED <<stopped, lock, done>>
    BY <1>5 DEF PumpTakes, RouteChunk, Ending
  <2> QED BY <1>3, <2>1, OutsiderMoves
<1>6. CASE OutboundTakes \/ OutboundSent \/ OutboundFails
  <2>1. /\ task["outbound"] \in {"get", "sending"} /\ "outbound" \notin stopped
        /\ \E to \in {"get", "sending", "lock"} : task' = [task EXCEPT !["outbound"] = to]
        /\ UNCHANGED <<stopped, lock, done>>
    BY <1>6 DEF OutboundTakes, OutboundSent, OutboundFails, Ending
  <2> QED BY <2>1, OutsiderMoves
<1>7. ASSUME NEW t \in {"pump", "outbound"}, TaskCancelled(t) PROVE Exclusive'
  <2>1. task[t] \notin InTeardown \cup {"none", "accepted"}
    BY <1>7 DEF TaskCancelled, Exclusive, PumpStates, OutboundStates
  <2>2. /\ task' = [task EXCEPT ![t] = "done"] /\ stopped' = stopped \ {t}
        /\ UNCHANGED <<lock, done>>
    BY <1>7 DEF TaskCancelled
  <2> QED BY <2>1, <2>2, OutsiderMoves
<1>8. ASSUME NEW t \in Enders, TeardownStep(t) PROVE Exclusive'
  <2>1. CASE Acquire(t)
    <3>1. CASE done
      <4>1. /\ task[t] = "lock" /\ t \notin stopped /\ task' = [task EXCEPT ![t] = "done"]
            /\ UNCHANGED <<lock, done, stopped>>
        BY <2>1, <3>1 DEF Acquire, AlreadyDone
      <4> QED BY <4>1, OutsiderMoves
    <3>2. CASE ~ done
      <4>1. task["outbound"] # "none" /\ stopped = {}
        BY <1>0, <2>1, <3>2 DEF Acquire, Exclusive
      <4>2. /\ task' = [task EXCEPT ![t] = "stopOutbound"] /\ task[t] = "lock"
            /\ lock' = t /\ lock = "nobody" /\ done' = TRUE
            /\ stopped' = Cancelled(t, "outbound")
        BY <2>1, <3>2, <4>1 DEF Acquire, AlreadyDone
      <4> QED BY <1>0, <4>1, <4>2 DEF Exclusive, Cancelled
    <3> QED BY <1>0, <3>1, <3>2
  <2>2. CASE FlushBridge(t) \/ DeliverRecord(t)
    <3>1. /\ task[t] \in {"stopOutbound", "stopPump"}
          /\ \E to \in {"closing", "delivering"} : task' = [task EXCEPT ![t] = to]
          /\ UNCHANGED <<stopped, lock, done>>
      BY <2>2 DEF FlushBridge, DeliverRecord
    <3> QED BY <3>1, HolderMoves
  <2>3. CASE CloseSession(t)
    BY <2>3 DEF CloseSession, callVars, Exclusive
  <2>4. CASE StopPump(t)
    <3>1. task["pump"] # "none" /\ lock = t /\ done
      BY <1>0, <2>4 DEF StopPump, Exclusive
    <3>2. /\ task' = [task EXCEPT ![t] = "stopPump"] /\ task[t] = "closing"
          /\ UNCHANGED <<lock, done>> /\ stopped' = stopped \cup Cancelled(t, "pump")
      BY <2>4 DEF StopPump
    <3>3. CASE Cancelled(t, "pump") = {}
      BY <3>2, <3>3, HolderMoves
    <3>4. CASE Cancelled(t, "pump") # {}
      <4>1. t # "pump" /\ task["pump"] \notin Over /\ stopped' = stopped \cup {"pump"}
        BY <3>2, <3>4 DEF Cancelled
      <4>2. task'["pump"] = task["pump"] /\ task["pump"] \notin InTeardown
        BY <1>0, <3>1, <3>2, <4>1 DEF Exclusive
      <4> QED BY <1>0, <3>1, <3>2, <4>1, <4>2 DEF Exclusive
    <3> QED BY <3>3, <3>4
  <2>5. CASE TeardownRaises(t) \/ Delivered(t)
    <3>1. /\ task[t] \in InTeardown
          /\ \E to \in Over : task' = [task EXCEPT ![t] = to]
          /\ lock' = "nobody" /\ UNCHANGED <<stopped, done>>
      BY <2>5 DEF TeardownRaises, Delivered
    <3> QED BY <3>1, HolderMoves
  <2> QED BY <1>8, <2>1, <2>2, <2>3, <2>4, <2>5 DEF TeardownStep
<1> QED BY <1>1, <1>2, <1>4, <1>5, <1>6, <1>7, <1>8 DEF Action

\* A step outside the teardown, of a task that has not met its end.
LEMMA OutsiderKeepsTeardown ==
    ASSUME CallTyped, OneTeardown, NEW t \in Enders,
           task[t] \notin InTeardown \cup Over,
           NEW to \in States \ InTeardown, task' = [task EXCEPT ![t] = to],
           UNCHANGED <<done, records, finalised, senderClosed, tornDown, closed, closer,
                       transport, manager>>
    PROVE  OneTeardown'
<1>1. task \in [Enders -> States]
  BY DEF CallTyped
<1>2. task'[t] = to /\ \A u \in Enders \ {t} : task'[u] = task[u]
  BY <1>1
<1>3. closer[t] = "idle"
  BY DEF OneTeardown, InTeardown
<1>4. task["outbound"] \in Over => task'["outbound"] \in Over
  BY <1>2 DEF Enders
<1> QED BY <1>2, <1>3, <1>4 DEF OneTeardown, InTeardown, Closers

\* The steps of the teardown itself.
LEMMA TeardownKeepsTeardown ==
    ASSUME SessionInv, CallTyped, Exclusive, OneTeardown, NEW t \in Enders, TeardownStep(t)
    PROVE  OneTeardown'
<1>0. /\ task \in [Enders -> States] /\ done \in BOOLEAN
      /\ closer \in [Enders -> {"idle", "awaitReader", "awaitDrain", "closeTransport",
                                "exitManager", "done", "raised"}]
      /\ tornDown \in BOOLEAN
  BY DEF CallTyped, SessionInv, Live!TypeOK
<1>1. CASE Acquire(t)
  <2>1. CASE done
    <3>1. /\ task[t] = "lock" /\ task' = [task EXCEPT ![t] = "done"]
          /\ UNCHANGED <<done, records, finalised, senderClosed, sessionVars>>
      BY <1>1, <2>1 DEF Acquire, AlreadyDone
    <3> QED
      BY <3>1, OutsiderKeepsTeardown DEF sessionVars, InTeardown, Over, States
  <2>2. CASE ~ done
    <3>1. /\ task' = [task EXCEPT ![t] = "stopOutbound"] /\ lock = "nobody"
          /\ done' = TRUE /\ senderClosed' = TRUE
          /\ UNCHANGED <<records, finalised, tornDown, closed, closer, transport, manager>>
      BY <1>1, <2>2 DEF Acquire, AlreadyDone, sessionVars
    <3>2. /\ task'[t] = "stopOutbound"
          /\ \A u \in Enders \ {t} : task'[u] = task[u] /\ task[u] \notin InTeardown
      BY <1>0, <3>1 DEF Exclusive, Enders
    <3>3. records = <<>> /\ ~ tornDown /\ \A u \in Enders : closer[u] = "idle"
      BY <2>2 DEF OneTeardown
    <3> QED BY <3>1, <3>2, <3>3 DEF OneTeardown, InTeardown
  <2> QED BY <1>0, <2>1, <2>2
<1> DEFINE Alone == \A u \in Enders \ {t} : task[u] \notin InTeardown
<1>2. task[t] \in InTeardown => Alone /\ done
  BY DEF Exclusive, Enders
<1>3. CASE FlushBridge(t)
  <2>1. /\ task[t] = "stopOutbound" /\ task' = [task EXCEPT ![t] = "closing"]
        /\ t = "outbound" \/ task["outbound"] \in Over
        /\ finalised' # {} /\ UNCHANGED <<done, records, senderClosed>>
    BY <1>3 DEF FlushBridge
  <2>2. UNCHANGED <<tornDown, closed, closer, transport, manager>>
    BY <1>3, SendAudioKeeps DEF FlushBridge, sessionVars
  <2>3. /\ Alone /\ done
        /\ task'[t] = "closing" /\ \A u \in Enders \ {t} : task'[u] = task[u]
    BY <1>0, <1>2, <2>1 DEF InTeardown
  <2>4. /\ ~ tornDown /\ \A u \in Enders : closer[u] = "idle"
        /\ records = <<>> /\ senderClosed
    BY <2>1, <2>3 DEF OneTeardown
  <2>5. t = "outbound" \/ task'["outbound"] \in Over
    BY <2>1, <2>3 DEF Enders
  <2> QED BY <2>1, <2>2, <2>3, <2>4, <2>5 DEF OneTeardown, InTeardown, Closers
<1>4. CASE CloseSession(t)
  <2>1. /\ task[t] = "closing"
        /\ Session!CloseBegin(t) \/ Session!CloseStep(t)
        /\ UNCHANGED <<task, done, records, finalised, senderClosed>>
    BY <1>4 DEF CloseSession, callVars
  <2>2. Alone /\ done /\ Closers(t) /\ (tornDown <=> closer[t] # "idle")
    BY <1>2, <2>1 DEF OneTeardown, InTeardown
  <2>3. /\ finalised # {} /\ (t = "outbound" \/ task["outbound"] \in Over)
        /\ records = <<>> /\ senderClosed
    BY <2>1, <2>2 DEF OneTeardown
  <2>4. /\ tornDown' /\ closed' /\ closer'[t] # "idle"
        /\ \A u \in Enders \ {t} : closer'[u] = "idle"
        /\ closer'[t] = "exitManager" => transport' = "closed"
        /\ closer'[t] = "done" => transport' = "closed" /\ manager' = "exited"
    <3>1. CASE Session!CloseBegin(t)
      <4>1. ~ tornDown
        BY <2>2, <3>1 DEF Session!CloseBegin, Session!CloseBeginCore
      <4>2. /\ closer' = [closer EXCEPT ![t] = "awaitReader"] /\ tornDown' /\ closed'
        BY <3>1, <4>1, CloseBeginDoes
      <4> QED BY <1>0, <2>2, <4>2 DEF Closers
    <3>2. CASE Session!CloseStep(t)
      <4>1. tornDown /\ closed
        <5>1. closer[t] # "idle"
          BY <3>2, CloseStepDoes
        <5> QED BY <2>2, <5>1 DEF OneTeardown
      <4>2. \E to \in {"awaitDrain", "closeTransport", "exitManager", "done", "raised"} :
               closer' = [closer EXCEPT ![t] = to]
        BY <3>2, CloseStepDoes
      <4>3. UNCHANGED <<tornDown, closed>>
        BY <3>2, CloseStepDoes
      <4>4. /\ closer'[t] = "exitManager" => transport' = "closed"
            /\ closer'[t] = "done" => transport' = "closed" /\ manager' = "exited"
        BY <1>0, <3>2, CloseStepDoes DEF OneTeardown
      <4> QED BY <1>0, <2>2, <4>1, <4>2, <4>3, <4>4 DEF Closers
    <3> QED BY <2>1, <3>1, <3>2
  <2> QED BY <2>1, <2>2, <2>3, <2>4 DEF OneTeardown, InTeardown, Closers
<1>5. CASE StopPump(t) \/ TeardownRaises(t) \/ DeliverRecord(t) \/ Delivered(t)
  <2>1. /\ task[t] \in InTeardown
        /\ UNCHANGED <<done, finalised, senderClosed, tornDown, closed, closer,
                       transport, manager>>
    BY <1>5 DEF StopPump, TeardownRaises, DeliverRecord, Delivered, sessionVars, InTeardown
  <2>2. Alone /\ done
    BY <1>2, <2>1
  <2>3. CASE StopPump(t)
    <3>1. /\ task[t] = "closing" /\ closer[t] = "done" /\ records' = records
          /\ task'[t] = "stopPump" /\ \A u \in Enders \ {t} : task'[u] = task[u]
      BY <1>0, <2>3 DEF StopPump
    <3>2. task["outbound"] \in Over => task'["outbound"] \in Over
      BY <3>1 DEF Enders, Over
    <3> QED BY <2>1, <2>2, <3>1, <3>2 DEF OneTeardown, InTeardown, Closers
  <2>4. CASE DeliverRecord(t)
    <3>1. /\ task[t] = "stopPump"
          /\ task'[t] = "delivering" /\ \A u \in Enders \ {t} : task'[u] = task[u]
      BY <1>0, <2>4 DEF DeliverRecord
    <3>2. task["outbound"] \in Over => task'["outbound"] \in Over
      BY <3>1 DEF Enders, Over
    <3> QED BY <2>1, <2>2, <3>1, <3>2 DEF OneTeardown, InTeardown, Closers
  <2>5. CASE TeardownRaises(t) \/ Delivered(t)
    <3>1. /\ records' = records /\ task'[t] \in Over
          /\ \A u \in Enders \ {t} : task'[u] = task[u]
      BY <1>0, <2>5 DEF TeardownRaises, Delivered, Over
    <3> QED BY <2>1, <2>2, <3>1 DEF OneTeardown, InTeardown, Over, Closers
  <2> QED BY <1>5, <2>3, <2>4, <2>5
<1> QED BY <1>1, <1>3, <1>4, <1>5 DEF TeardownStep

\* Every step keeps the one teardown.
LEMMA OneTeardownStep ==
    SessionInv /\ CallTyped /\ Exclusive /\ OneTeardown /\ Action => OneTeardown'
<1> SUFFICES ASSUME SessionInv, CallTyped, Exclusive, OneTeardown, Action
             PROVE  OneTeardown'
  OBVIOUS
<1>0. task \in [Enders -> States]
  BY DEF CallTyped
<1>1. CASE UNCHANGED <<task, done, records, finalised, senderClosed, tornDown, closed, closer,
                       transport, manager>>
  BY <1>1 DEF OneTeardown, Closers
<1>2. CASE Idle
  BY <1>1, <1>2 DEF Idle, sessionVars, callVars
<1>3. ASSUME NEW t \in {"reader", "upload"}, SessionStep(t) PROVE OneTeardown'
  <2>1. /\ UNCHANGED <<task, done, records, finalised, senderClosed, tornDown, closer,
                       transport, manager>>
        /\ closed => closed'
    BY <1>3, SessionStepKeeps DEF callVars
  <2> QED BY <2>1 DEF OneTeardown, Closers
<1>4. CASE HandlerStart
  <2>1. /\ ~ done
        /\ UNCHANGED <<done, records, finalised, senderClosed, tornDown, closed, closer,
                       transport, manager>>
        /\ task' = [handler |-> "inCall", pump |-> "events", outbound |-> "get"]
    BY <1>4 DEF HandlerStart, Exclusive, sessionVars
  <2>2. \A u \in Enders : task'[u] \notin InTeardown
    BY <2>1 DEF Enders, InTeardown
  <2> QED BY <2>1, <2>2 DEF OneTeardown, InTeardown
<1> DEFINE Rest == UNCHANGED <<done, records, finalised, senderClosed, tornDown, closed, closer,
                               transport, manager>>
<1>5. CASE HandlerFrame \/ HandlerEnds
  <2>1. Rest
    BY <1>5, SendAudioKeeps DEF HandlerFrame, HandlerEnds, sessionVars
  <2>2. /\ task["handler"] = "inCall"
        /\ task' = task \/ task' = [task EXCEPT !["handler"] = "lock"]
    BY <1>5 DEF HandlerFrame, HandlerEnds, Ending
  <2> QED
    BY <1>1, <2>1, <2>2, OutsiderKeepsTeardown DEF Enders, InTeardown, Over, States
<1>6. CASE PumpTakes
  <2>1. Rest
    BY <1>6, DeliverKeeps DEF PumpTakes
  <2>2. /\ task["pump"] = "events"
        /\ \/ task' = task
           \/ \E to \in {"lock", "crashed"} : task' = [task EXCEPT !["pump"] = to]
    BY <1>6 DEF PumpTakes, RouteChunk, Ending
  <2> QED
    BY <1>1, <2>1, <2>2, OutsiderKeepsTeardown DEF Enders, InTeardown, Over, States
<1>7. CASE OutboundTakes \/ OutboundSent \/ OutboundFails
  <2>1. Rest
    BY <1>7 DEF OutboundTakes, OutboundSent, OutboundFails, sessionVars
  <2>2. /\ task["outbound"] \in {"get", "sending"}
        /\ \E to \in {"get", "sending", "lock"} : task' = [task EXCEPT !["outbound"] = to]
    BY <1>7 DEF OutboundTakes, OutboundSent, OutboundFails, Ending
  <2> QED BY <2>1, <2>2, OutsiderKeepsTeardown DEF Enders, InTeardown, Over, States
<1>8. ASSUME NEW t \in {"pump", "outbound"}, TaskCancelled(t) PROVE OneTeardown'
  <2>1. Rest /\ task' = [task EXCEPT ![t] = "done"]
    BY <1>8 DEF TaskCancelled, sessionVars
  <2>2. task[t] \notin InTeardown \cup Over
    BY <1>8 DEF TaskCancelled, Exclusive
  <2> QED BY <2>1, <2>2, OutsiderKeepsTeardown DEF Enders, InTeardown, States
<1>9. CASE \E t \in Enders : TeardownStep(t)
  BY <1>9, TeardownKeepsTeardown
<1> QED BY <1>2, <1>3, <1>4, <1>5, <1>6, <1>7, <1>8, <1>9 DEF Action

\* What a step never takes back.
LEMMA NothingTakenBack ==
    ASSUME SessionInv, CallTyped, Exclusive, OneTeardown, Action
    PROVE  /\ done => done'
           /\ senderClosed => senderClosed'
           /\ finalised # {} => finalised' # {}
           /\ tornDown => tornDown'
           /\ transport = "closed" => transport' = "closed"
           /\ manager = "exited" => manager' = "exited"
           /\ \A t \in Enders : /\ task[t] \in Over => task'[t] = task[t]
                                /\ task[t] = "delivering" => task'[t] \in {"delivering", "done"}
                                /\ closer[t] = "raised" => closer'[t] = "raised"
<1>0. /\ task \in [Enders -> States]
      /\ closer \in [Enders -> {"idle", "awaitReader", "awaitDrain", "closeTransport",
                                "exitManager", "done", "raised"}]
  BY DEF CallTyped, SessionInv, Live!TypeOK
<1> DEFINE CallKept == /\ done => done'
                       /\ senderClosed => senderClosed'
                       /\ finalised # {} => finalised' # {}
           SessionKept == UNCHANGED <<tornDown, closer, transport, manager>>
           TaskKept == \A t \in Enders :
                          /\ task[t] \in Over => task'[t] = task[t]
                          /\ task[t] = "delivering" => task'[t] \in {"delivering", "done"}
<1>1. CASE Idle \/ \E t \in {"reader", "upload"} : SessionStep(t)
  BY <1>1, SessionStepKeeps DEF Idle, callVars, sessionVars
<1>2. CASE HandlerStart
  <2>1. CallKept /\ SessionKept
    BY <1>2 DEF HandlerStart, sessionVars
  <2>2. TaskKept
    BY <1>0, <1>2 DEF HandlerStart, Exclusive, Enders, Over
  <2> QED BY <2>1, <2>2
<1>3. CASE HandlerFrame \/ HandlerEnds
  <2>1. CallKept
    BY <1>3 DEF HandlerFrame, HandlerEnds
  <2>2. SessionKept
    BY <1>3, SendAudioKeeps DEF HandlerFrame, HandlerEnds, sessionVars
  <2>3. /\ task["handler"] = "inCall"
        /\ task' = task \/ task' = [task EXCEPT !["handler"] = "lock"]
    BY <1>3 DEF HandlerFrame, HandlerEnds, Ending
  <2>4. TaskKept
    BY <1>0, <2>3 DEF Over
  <2> QED BY <2>1, <2>2, <2>4
<1>4. CASE PumpTakes
  <2>1. CallKept
    BY <1>4 DEF PumpTakes
  <2>2. SessionKept
    BY <1>4, DeliverKeeps DEF PumpTakes
  <2>3. /\ task["pump"] = "events"
        /\ \/ task' = task
           \/ \E to \in {"lock", "crashed"} : task' = [task EXCEPT !["pump"] = to]
    BY <1>4 DEF PumpTakes, RouteChunk, Ending
  <2>4. TaskKept
    BY <1>0, <2>3 DEF Over
  <2> QED BY <2>1, <2>2, <2>4
<1>5. CASE OutboundTakes \/ OutboundSent \/ OutboundFails
  <2>1. CallKept /\ SessionKept
    BY <1>5 DEF OutboundTakes, OutboundSent, OutboundFails, sessionVars
  <2>2. /\ task["outbound"] \in {"get", "sending"}
        /\ \E to \in {"get", "sending", "lock"} : task' = [task EXCEPT !["outbound"] = to]
    BY <1>5 DEF OutboundTakes, OutboundSent, OutboundFails, Ending
  <2>3. TaskKept
    BY <1>0, <2>2 DEF Over
  <2> QED BY <2>1, <2>3
<1>6. ASSUME NEW t \in {"pump", "outbound"}, TaskCancelled(t)
      PROVE  CallKept /\ SessionKept /\ TaskKept
  <2>1. CallKept /\ SessionKept /\ t \in stopped /\ task' = [task EXCEPT ![t] = "done"]
    BY <1>6 DEF TaskCancelled, sessionVars
  <2>2. TaskKept
    BY <1>0, <2>1 DEF Exclusive, InTeardown
  <2> QED BY <2>1, <2>2
<1>7. ASSUME NEW t \in Enders, Acquire(t) \/ FlushBridge(t)
      PROVE  CallKept /\ SessionKept /\ TaskKept
  <2>1. CallKept
    <3>1. CASE Acquire(t)
      BY <3>1 DEF Acquire
    <3>2. CASE FlushBridge(t)
      <4>1. finalised' # {} /\ UNCHANGED <<done, senderClosed>>
        BY <3>2 DEF FlushBridge
      <4> QED BY <4>1
    <3> QED BY <1>7, <3>1, <3>2
  <2>2. SessionKept
    BY <1>7, SendAudioKeeps DEF Acquire, FlushBridge, sessionVars
  <2>3. /\ task[t] \in {"lock", "stopOutbound"}
        /\ \E to \in States : task' = [task EXCEPT ![t] = to]
    BY <1>7 DEF Acquire, FlushBridge, States
  <2>4. TaskKept
    BY <1>0, <2>3 DEF Over
  <2> QED BY <2>1, <2>2, <2>4
<1>8. ASSUME NEW t \in Enders,
             StopPump(t) \/ TeardownRaises(t) \/ DeliverRecord(t) \/ Delivered(t)
      PROVE  CallKept /\ SessionKept /\ TaskKept
  <2>1. CallKept /\ SessionKept
    BY <1>8 DEF StopPump, TeardownRaises, DeliverRecord, Delivered, sessionVars
  <2>2. \/ /\ task[t] \in {"closing", "stopPump"}
           /\ \E to \in States : task' = [task EXCEPT ![t] = to]
        \/ task[t] = "delivering" /\ task' = [task EXCEPT ![t] = "done"]
    BY <1>8 DEF StopPump, TeardownRaises, DeliverRecord, Delivered, States
  <2>3. TaskKept
    BY <1>0, <2>2 DEF Over
  <2> QED BY <2>1, <2>3
<1>9. ASSUME NEW t \in Enders, CloseSession(t)
      PROVE  /\ CallKept /\ TaskKept /\ (tornDown => tornDown')
             /\ transport = "closed" => transport' = "closed"
             /\ manager = "exited" => manager' = "exited"
             /\ \A u \in Enders : closer[u] = "raised" => closer'[u] = "raised"
  <2>1. CallKept /\ TaskKept /\ task[t] = "closing"
    BY <1>9 DEF CloseSession, callVars
  <2>2. CASE Session!CloseBegin(t)
    <3>1. ~ tornDown
      BY <2>1, <2>2 DEF OneTeardown, Session!CloseBegin, Session!CloseBeginCore
    <3> QED BY <1>0, <2>1, <2>2, <3>1, CloseBeginDoes
  <2>3. CASE Session!CloseStep(t)
    BY <1>0, <2>1, <2>3, CloseStepDoes
  <2> QED BY <1>9, <2>2, <2>3 DEF CloseSession
<1> QED
  BY <1>1, <1>2, <1>3, <1>4, <1>5, <1>6, <1>7, <1>8, <1>9 DEF Action, TeardownStep

\* A record is delivered once, by a task that holds the lock.
LEMMA RecordsGrow ==
    ASSUME Action
    PROVE  records' = records \/ \E t \in Enders : DeliverRecord(t)
  BY SessionStepKeeps
  DEF Action, Idle, SessionStep, callVars, HandlerStart, HandlerFrame, HandlerEnds, PumpTakes,
      OutboundTakes, OutboundSent, OutboundFails, TaskCancelled, TeardownStep, Acquire,
      FlushBridge, CloseSession, StopPump, TeardownRaises, Delivered

\* The record is the last thing of the one teardown.
LEMMA RecordStep ==
    ASSUME SessionInv, CallTyped, Exclusive, OneTeardown, TornDown, Action, Exclusive'
    PROVE  /\ RecordOnceAndLast'
           /\ records # <<>> => records' # <<>>
           /\ \A t \in Enders : (task[t] = "delivering")' => records' # <<>>
<1>0. task \in [Enders -> States]
  BY DEF CallTyped
<1>1. CASE records' = records
  <2>1. \A t \in Enders : task'[t] = "delivering" => task[t] = "delivering"
    <3>1. \A t \in Enders : ~ DeliverRecord(t)
      BY <1>1 DEF DeliverRecord, OneTeardown
    <3> QED
      BY <1>0, <3>1
      DEF Action, Idle, SessionStep, callVars, HandlerStart, HandlerFrame, HandlerEnds,
          PumpTakes, RouteChunk, Ending, OutboundTakes, OutboundSent, OutboundFails,
          TaskCancelled, TeardownStep, Acquire, FlushBridge, CloseSession, StopPump,
          TeardownRaises, Delivered, Enders
  <2>2. \A t \in Enders : task'[t] = "delivering" => lock' = t
    BY DEF Exclusive, InTeardown
  <2> QED
    BY <1>1, <2>1, <2>2, NothingTakenBack
    DEF TornDown, RecordOnceAndLast, Enders, Over
<1>2. ASSUME NEW t \in Enders, DeliverRecord(t)
      PROVE  RecordOnceAndLast' /\ records' # <<>>
  <2>1. /\ task[t] = "stopPump" /\ task' = [task EXCEPT ![t] = "delivering"]
        /\ t = "pump" \/ task["pump"] \in Over
        /\ records' = Append(records, [reason |-> why[t], transcript |-> transcript])
        /\ UNCHANGED <<sessionVars, lock, done, senderClosed, finalised>>
    BY <1>2 DEF DeliverRecord
  <2>2. /\ records = <<>> /\ closer[t] = "done" /\ finalised # {} /\ done /\ senderClosed
        /\ t = "outbound" \/ task["outbound"] \in Over
        /\ transport = "closed" /\ manager = "exited" /\ lock = t
    BY <2>1 DEF OneTeardown, Exclusive, InTeardown
  <2>3. why[t] # "gemini_local"
    BY <2>1 DEF TornDown
  <2> DEFINE r == [reason |-> why[t], transcript |-> transcript]
  <2>4. records' = <<r>> /\ r.reason # "gemini_local"
    BY <2>1, <2>2, <2>3
  <2> HIDE DEF r
  <2>5. Len(records') = 1 /\ DOMAIN records' = {1} /\ records'[1] = r /\ records' # <<>>
    BY <2>4
  <2>6. \A p \in {"pump", "outbound"} :
           task'[p] \in Over \/ (lock' = p /\ task'[p] = "delivering")
    BY <1>0, <2>1, <2>2 DEF Enders
  <2> QED
    BY <2>1, <2>2, <2>4, <2>5, <2>6 DEF RecordOnceAndLast, sessionVars
<1> QED BY <1>1, <1>2, RecordsGrow DEF TornDown

\* The lock changes hands only where a teardown begins or is over.
LEMMA LockMoves ==
    ASSUME Action
    PROVE  \/ UNCHANGED <<lock, done>>
           \/ \E t \in Enders : Acquire(t) /\ ~ done /\ lock' = t
           \/ \E t \in Enders : (TeardownRaises(t) \/ Delivered(t)) /\ UNCHANGED done
<1>1. CASE Idle \/ \E t \in {"reader", "upload"} : SessionStep(t)
  BY <1>1 DEF Idle, SessionStep, callVars
<1>2. CASE \/ HandlerStart \/ HandlerFrame \/ HandlerEnds \/ PumpTakes
           \/ OutboundTakes \/ OutboundSent \/ OutboundFails
           \/ \E t \in {"pump", "outbound"} : TaskCancelled(t)
  BY <1>2 DEF HandlerStart, HandlerFrame, HandlerEnds, PumpTakes, OutboundTakes,
              OutboundSent, OutboundFails, TaskCancelled
<1>3. ASSUME NEW t \in Enders, TeardownStep(t)
      PROVE  \/ UNCHANGED <<lock, done>>
             \/ Acquire(t) /\ ~ done /\ lock' = t
             \/ (TeardownRaises(t) \/ Delivered(t)) /\ UNCHANGED done
  <2>1. CASE Acquire(t)
    BY <2>1 DEF Acquire, AlreadyDone
  <2>2. CASE FlushBridge(t) \/ CloseSession(t) \/ StopPump(t) \/ DeliverRecord(t)
    BY <2>2 DEF FlushBridge, CloseSession, callVars, StopPump, DeliverRecord
  <2>3. CASE TeardownRaises(t) \/ Delivered(t)
    BY <2>3 DEF TeardownRaises, Delivered
  <2> QED BY <1>3, <2>1, <2>2, <2>3 DEF TeardownStep
<1> QED BY <1>1, <1>2, <1>3 DEF Action

\* A teardown ends with its record, or with what raised.
LEMMA LossStep ==
    ASSUME SessionInv, CallTyped, Exclusive, OneTeardown, TornDown, Action, Exclusive'
    PROVE  OnlyRaisingLosesRecord'
<1>1. records # <<>> => records' # <<>>
  BY RecordStep
<1>2. RecordLost => RecordLost'
  <2>1. task["pump"] = "crashed" => task'["pump"] = "crashed"
    BY NothingTakenBack DEF Enders, Over
  <2>2. \A t \in Enders : closer[t] = "raised" => closer'[t] = "raised"
    BY NothingTakenBack
  <2> QED BY <2>1, <2>2 DEF RecordLost
<1>3. OnlyRaisingLosesRecord
  BY DEF TornDown
<1>4. CASE UNCHANGED <<lock, done>>
  BY <1>1, <1>2, <1>3, <1>4 DEF OnlyRaisingLosesRecord
<1>5. CASE \E t \in Enders : Acquire(t) /\ ~ done /\ lock' = t
  BY <1>5 DEF OnlyRaisingLosesRecord, Enders
<1>6. ASSUME NEW t \in Enders, TeardownRaises(t) PROVE RecordLost'
  <2>1. task["pump"] = "crashed" \/ closer[t] = "raised"
    BY <1>6 DEF TeardownRaises, AwaitRaises
  <2> QED BY <1>2, <2>1 DEF RecordLost
<1>7. ASSUME NEW t \in Enders, Delivered(t) PROVE records' # <<>>
  BY <1>1, <1>7 DEF Delivered, TornDown
<1> QED BY <1>4, <1>5, <1>6, <1>7, LockMoves DEF OnlyRaisingLosesRecord

\* A hang-up of our own is decided by the teardown and nothing else.
LEMMA LocalStep ==
    ASSUME SessionInv, CallTyped, Exclusive, OneTeardown, TornDown, Action
    PROVE  cause' = "local" => tornDown'
<1>1. (cause = "local" => tornDown) /\ (tornDown => tornDown')
  BY NothingTakenBack DEF TornDown
<1>2. CASE cause' = cause
  BY <1>1, <1>2
<1>3. CASE \E t \in {"reader", "upload"} : SessionStep(t)
  BY <1>1, <1>3, SessionStepKeeps
<1>4. ASSUME NEW t \in Enders, CloseSession(t) PROVE cause' = cause \/ tornDown'
  BY <1>4, CloseStepDoes
  DEF CloseSession, Session!CloseBegin, Session!CloseBeginCore
<1>5. CASE \/ Idle \/ HandlerStart \/ OutboundTakes \/ OutboundSent \/ OutboundFails
           \/ \E t \in {"pump", "outbound"} : TaskCancelled(t)
  BY <1>2, <1>5
  DEF Idle, HandlerStart, OutboundTakes, OutboundSent, OutboundFails, TaskCancelled, sessionVars
<1>6. CASE HandlerFrame \/ HandlerEnds
  BY <1>2, <1>6, SendAudioKeeps DEF HandlerFrame, HandlerEnds, sessionVars
<1>7. CASE PumpTakes
  BY <1>2, <1>7, DeliverKeeps DEF PumpTakes
<1>8. ASSUME NEW t \in Enders, TeardownStep(t), ~ CloseSession(t) PROVE cause' = cause
  <2>1. CASE FlushBridge(t)
    BY <2>1, SendAudioKeeps DEF FlushBridge, sessionVars
  <2>2. CASE ~ FlushBridge(t)
    BY <1>8, <2>2
    DEF TeardownStep, Acquire, StopPump, TeardownRaises, DeliverRecord, Delivered, sessionVars
  <2> QED BY <2>1, <2>2
<1> QED BY <1>1, <1>2, <1>3, <1>4, <1>5, <1>6, <1>7, <1>8 DEF Action

\* Once the teardown has begun, the pump that met the Closed gives up.
LEMMA PumpGivesUp ==
    ASSUME CallTyped, Exclusive, Action, done, task["pump"] \in {"lock", "done"}
    PROVE  task'["pump"] \in {"lock", "done"}
<1>0. task \in [Enders -> States]
  BY DEF CallTyped
<1>1. CASE task'["pump"] = task["pump"]
  BY <1>1
<1>2. CASE Idle \/ \E t \in {"reader", "upload"} : SessionStep(t)
  BY <1>1, <1>2 DEF Idle, SessionStep, callVars
<1>3. CASE HandlerStart
  BY <1>3 DEF HandlerStart, Exclusive
<1>4. CASE HandlerFrame \/ HandlerEnds
  <2>1. task' = task \/ task' = [task EXCEPT !["handler"] = "lock"]
    BY <1>4 DEF HandlerFrame, HandlerEnds, Ending
  <2> QED BY <1>0, <1>1, <2>1 DEF Enders
<1>5. CASE PumpTakes
  BY <1>5 DEF PumpTakes
<1>6. CASE OutboundTakes \/ OutboundSent \/ OutboundFails
  <2>1. \E to \in States : task' = [task EXCEPT !["outbound"] = to]
    BY <1>6 DEF OutboundTakes, OutboundSent, OutboundFails, Ending, States
  <2> QED BY <1>0, <1>1, <2>1 DEF Enders
<1>7. ASSUME NEW t \in {"pump", "outbound"}, TaskCancelled(t)
      PROVE  task'["pump"] \in {"lock", "done"}
  BY <1>0, <1>7 DEF TaskCancelled, Enders
<1>8. ASSUME NEW t \in Enders, TeardownStep(t)
      PROVE  task'["pump"] \in {"lock", "done"}
  <2>1. CASE Acquire(t)
    <3>1. task' = [task EXCEPT ![t] = "done"]
      BY <2>1 DEF Acquire, AlreadyDone
    <3> QED BY <1>0, <3>1 DEF Enders
  <2>2. CASE ~ Acquire(t)
    <3>1. /\ task[t] \in InTeardown
          /\ task' = task \/ \E to \in States : task' = [task EXCEPT ![t] = to]
      BY <1>8, <2>2
      DEF TeardownStep, FlushBridge, CloseSession, callVars, StopPump, TeardownRaises,
          DeliverRecord, Delivered, InTeardown, States
    <3> QED BY <1>0, <1>1, <3>1 DEF InTeardown, Enders
  <2> QED BY <2>1, <2>2
<1> QED BY <1>2, <1>3, <1>4, <1>5, <1>6, <1>7, <1>8 DEF Action

Met == {"lock"} \cup InTeardown

\* A task ends the call for a reason of the socket or of our own, or it is the
\* pump and names the Closed it took.
LEMMA WhyMoves ==
    ASSUME CallTyped, Action
    PROVE  \/ /\ PumpTakes /\ Head(inbox).kind = "closed"
              /\ Ending("pump", GeminiReason[Head(inbox).reason])
           \/ \A t \in Enders :
                 \/ why'[t] = why[t] /\ (task'[t] \in Met => task[t] \in Met)
                 \/ why'[t] \in OwnEndings
<1> DEFINE Kept == \A t \in Enders :
                      \/ why'[t] = why[t] /\ (task'[t] \in Met => task[t] \in Met)
                      \/ why'[t] \in OwnEndings
<1>0. why \in [Enders -> Reasons] /\ task \in [Enders -> States]
  BY DEF CallTyped
<1>1. CASE UNCHANGED <<why, task>>
  BY <1>1
<1>2. ASSUME NEW t \in Enders, NEW reason \in OwnEndings, Ending(t, reason) PROVE Kept
  BY <1>0, <1>2 DEF Ending
<1>3. ASSUME NEW t \in Enders, NEW to, task' = [task EXCEPT ![t] = to],
             to \in Met => task[t] \in Met,
             why' = why \/ why' = [why EXCEPT ![t] = "error"]
      PROVE  Kept
  BY <1>0, <1>3 DEF OwnEndings
<1>4. CASE Idle \/ \E t \in {"reader", "upload"} : SessionStep(t)
  BY <1>1, <1>4 DEF Idle, SessionStep, callVars
<1>5. CASE HandlerStart
  BY <1>5 DEF HandlerStart, Enders, Met, InTeardown
<1>6. CASE HandlerFrame \/ HandlerEnds \/ OutboundFails
  <2>1. \/ UNCHANGED <<why, task>>
        \/ \E t \in Enders, reason \in OwnEndings : Ending(t, reason)
    BY <1>6 DEF HandlerFrame, HandlerEnds, OutboundFails, Enders, OwnEndings
  <2> QED BY <1>1, <1>2, <2>1
<1>7. CASE PumpTakes
  <2>1. \/ /\ Head(inbox).kind = "closed"
           /\ Ending("pump", GeminiReason[Head(inbox).reason])
        \/ UNCHANGED <<why, task>>
        \/ why' = why /\ task' = [task EXCEPT !["pump"] = "crashed"]
    BY <1>7 DEF PumpTakes, RouteChunk
  <2> QED BY <1>1, <1>3, <1>7, <2>1 DEF Enders, Met, InTeardown
<1>8. CASE OutboundTakes \/ OutboundSent
  <2>1. /\ why' = why
        /\ \E to \in {"get", "sending"} : task' = [task EXCEPT !["outbound"] = to]
    BY <1>8 DEF OutboundTakes, OutboundSent
  <2> QED BY <1>3, <2>1 DEF Enders, Met, InTeardown
<1>9. ASSUME NEW t \in {"pump", "outbound"}, TaskCancelled(t) PROVE Kept
  <2>1. why' = why /\ task' = [task EXCEPT ![t] = "done"] /\ t \in Enders
    BY <1>9 DEF TaskCancelled, Enders
  <2> QED BY <1>3, <2>1 DEF Met, InTeardown
<1>10. ASSUME NEW t \in Enders, TeardownStep(t) PROVE Kept
  <2>1. CASE CloseSession(t)
    BY <1>1, <2>1 DEF CloseSession, callVars
  <2>2. CASE ~ CloseSession(t)
    <3>1. /\ task[t] \in Met
          /\ \E to \in States : task' = [task EXCEPT ![t] = to]
          /\ why' = why \/ why' = [why EXCEPT ![t] = "error"]
      BY <1>10, <2>2
      DEF TeardownStep, Acquire, FlushBridge, StopPump, TeardownRaises, DeliverRecord,
          Delivered, Met, InTeardown, States
    <3> QED BY <1>3, <3>1
  <2> QED BY <2>1, <2>2
<1> QED BY <1>4, <1>5, <1>6, <1>7, <1>8, <1>9, <1>10 DEF Action

\* The pump meets the Closed of our own hang-up behind the lock.
LEMMA BlameStep ==
    ASSUME SessionInv, CallTyped, Exclusive, OneTeardown, TornDown, Action
    PROVE  \A t \in Enders : why'[t] = "gemini_local" =>
              t = "pump" /\ done' /\ task'[t] \in {"lock", "done"}
<1>0. why \in [Enders -> Reasons] /\ task \in [Enders -> States]
  BY DEF CallTyped
<1>1. ASSUME NEW t \in Enders, why[t] = "gemini_local"
      PROVE  t = "pump" /\ done' /\ task'[t] \in {"lock", "done"}
  BY <1>1, NothingTakenBack, PumpGivesUp DEF TornDown
<1>2. CASE /\ PumpTakes /\ Head(inbox).kind = "closed"
           /\ Ending("pump", GeminiReason[Head(inbox).reason])
  <2> DEFINE e == Head(inbox)
  <2>1. inbox # <<>> /\ e \in Live!Event
    BY <1>2, DeliverKeeps, HeadIsEvent DEF PumpTakes
  <2>2. /\ why' = [why EXCEPT !["pump"] = GeminiReason[e.reason]]
        /\ task' = [task EXCEPT !["pump"] = "lock"]
    BY <1>2 DEF Ending
  <2>3. task'["pump"] = "lock"
    BY <1>0, <2>2 DEF Enders
  <2>4. ASSUME why'["pump"] = "gemini_local" PROVE done
    <3>1. GeminiReason[e.reason] = "gemini_local"
      BY <1>0, <2>2, <2>4 DEF Enders
    <3>2. e.reason = "local"
      BY <1>2, <2>1, <3>1, ClosedReason
    <3>3. e.reason = cause
      <4>1. inbox \in Seq(Live!Event) /\ seen \in Seq(Live!Event)
        BY DEF SessionInv, Live!TypeOK
      <4>2. /\ Len(seen) + 1 \in 1 .. Len(seen \o inbox)
            /\ (seen \o inbox)[Len(seen) + 1] = e
        BY <2>1, <4>1
      <4> QED
        BY <1>2, <4>2 DEF SessionInv, Live!SessionEnded, Live!Ended, Live!Stream
    <3>4. tornDown
      BY <3>2, <3>3 DEF TornDown
    <3> QED BY <3>4 DEF OneTeardown
  <2>5. done' = done
    BY <1>2 DEF PumpTakes
  <2>6. \A t \in Enders : t = "pump" \/ why'[t] = why[t]
    BY <1>0, <2>2
  <2> QED BY <1>1, <2>3, <2>4, <2>5, <2>6
<1>3. CASE \A t \in Enders : why'[t] = why[t] \/ why'[t] \in OwnEndings
  BY <1>1, <1>3 DEF OwnEndings
<1> QED BY <1>2, <1>3, WhyMoves

\* Every step keeps what a teardown leaves behind.
LEMMA TornDownStep ==
    ASSUME SessionInv, CallTyped, Exclusive, OneTeardown, TornDown, Action, Exclusive'
    PROVE  TornDown'
<1>1. RecordOnceAndLast' /\ \A t \in Enders : (task[t] = "delivering")' => records' # <<>>
  BY RecordStep
<1>2. OnlyRaisingLosesRecord' /\ (cause' = "local" => tornDown')
  BY LossStep, LocalStep
<1> QED BY <1>1, <1>2, BlameStep DEF TornDown

\* The invariant of the teardown, with everything it rests on.
TeardownInv == CallTyped /\ Exclusive /\ OneTeardown /\ TornDown

\* A call that has not begun has torn nothing down.
LEMMA InitTeardown == Init => TeardownInv
<1> SUFFICES ASSUME Init PROVE TeardownInv
  OBVIOUS
<1>1. CallTyped
  BY InitTyped, TypeParts
<1>2. /\ task = [t \in Enders |-> IF t = "handler" THEN "accepted" ELSE "none"]
      /\ stopped = {} /\ why = [t \in Enders |-> "none"] /\ lock = "nobody" /\ done = FALSE
      /\ records = <<>> /\ finalised = {}
  BY DEF Init
<1>3. tornDown = FALSE /\ closer = [t \in Enders |-> "idle"] /\ cause = "none"
  BY DEF Init, Session!Opened, Session!Untouched
<1>4. Exclusive
  BY <1>2 DEF Exclusive, HandlerStates, PumpStates, OutboundStates, InTeardown, Over, Enders
<1>5. OneTeardown
  BY <1>2, <1>3 DEF OneTeardown, Over, Closers
<1>6. TornDown
  <2>1. Len(records) = 0 /\ DOMAIN records = {}
    BY <1>2
  <2> QED
    BY <1>2, <1>3, <2>1 DEF TornDown, RecordOnceAndLast, OnlyRaisingLosesRecord, Enders
<1> QED BY <1>1, <1>4, <1>5, <1>6 DEF TeardownInv

\* Every step keeps it.
LEMMA TeardownStepInv == SessionInv /\ TeardownInv /\ [Next]_vars => TeardownInv'
<1> SUFFICES ASSUME SessionInv, TeardownInv, [Next]_vars PROVE TeardownInv'
  OBVIOUS
<1>1. Action
  BY StepIsAction
<1>2. CallTyped' /\ Exclusive' /\ OneTeardown'
  BY <1>1, CallTypedStep, ExclusiveStep, OneTeardownStep DEF TeardownInv
<1>3. TornDown'
  BY <1>1, <1>2, TornDownStep DEF TeardownInv
<1> QED BY <1>2, <1>3 DEF TeardownInv

\* It holds throughout a call.
LEMMA TeardownHolds == Spec => []TeardownInv
  BY InitTeardown, TeardownStepInv, SessionHolds, PTL DEF Spec

(***************************************************************************)
(* However the endings race, a call has at most one record; it comes when  *)
(* the bridge is flushed, Gemini closed and both other tasks are over, and *)
(* it never blames Gemini for our own hang-up (server.py:504-545).         *)
(***************************************************************************)
THEOREM RecordOnceAndLastHolds == Spec => []RecordOnceAndLast
<1>1. TeardownInv => RecordOnceAndLast
  BY DEF TeardownInv, TornDown
<1> QED BY <1>1, TeardownHolds, PTL

(***************************************************************************)
(* Nothing but a close() that raises or a pump that died takes the record  *)
(* of a call that was torn down (server.py:369-371, 504-545).              *)
(***************************************************************************)
THEOREM OnlyRaisingLosesRecordHolds == Spec => []OnlyRaisingLosesRecord
<1>1. TeardownInv => OnlyRaisingLosesRecord
  BY DEF TeardownInv, TornDown
<1> QED BY <1>1, TeardownHolds, PTL

\* An event behind the others is copied if it is a turn.
LEMMA CopyOne ==
    ASSUME NEW S, NEW s \in Seq(S), NEW copy \in Seq(S), NEW e \in S, Story!CopiesTurns(copy, s)
    PROVE  /\ e.kind # "transcript" => Story!CopiesTurns(copy, Append(s, e))
           /\ e.kind = "transcript" => Story!CopiesTurns(Append(copy, e), Append(s, e))
<1> DEFINE n == Len(copy)
           k == Len(s) + 1
           longer == Append(s, e)
<1>1. /\ n \in Nat /\ DOMAIN copy = 1 .. n /\ Len(s) \in Nat /\ DOMAIN s = 1 .. Len(s)
      /\ DOMAIN longer = 1 .. k /\ longer[k] = e /\ \A i \in 1 .. Len(s) : longer[i] = s[i]
  BY AppendProperties
<1>2. PICK from \in [DOMAIN copy -> Story!TurnsOf(s)] :
         /\ \A i \in DOMAIN copy : copy[i] = s[from[i]]
         /\ \A i, j \in DOMAIN copy : i < j => from[i] < from[j]
         /\ \A l \in Story!TurnsOf(s) : \E i \in DOMAIN copy : from[i] = l
  BY DEF Story!CopiesTurns
<1> HIDE DEF n
<1>3. /\ Story!TurnsOf(s) \subseteq 1 .. Len(s)
      /\ Story!TurnsOf(longer) = Story!TurnsOf(s) \cup (IF e.kind = "transcript" THEN {k} ELSE {})
  <2>1. \A i \in 1 .. k : i = k \/ i \in 1 .. Len(s)
    BY <1>1
  <2> HIDE DEF longer, k
  <2>2. k \in 1 .. k /\ 1 .. Len(s) \subseteq 1 .. k /\ k \notin 1 .. Len(s)
    BY <1>1 DEF k
  <2> QED BY <1>1, <2>1, <2>2 DEF Story!TurnsOf
<1>4. ASSUME e.kind # "transcript" PROVE Story!CopiesTurns(copy, longer)
  <2>1. Story!TurnsOf(longer) = Story!TurnsOf(s) /\ \A l \in Story!TurnsOf(s) : longer[l] = s[l]
    BY <1>1, <1>3, <1>4
  <2> HIDE DEF longer
  <2>2. from \in [DOMAIN copy -> Story!TurnsOf(longer)]
    BY <2>1
  <2>3. \A i \in DOMAIN copy : copy[i] = longer[from[i]]
    BY <1>2, <2>1
  <2>4. \A l \in Story!TurnsOf(longer) : \E i \in DOMAIN copy : from[i] = l
    BY <1>2, <2>1
  <2> QED BY <1>2, <2>2, <2>3, <2>4 DEF Story!CopiesTurns
<1>5. ASSUME e.kind = "transcript" PROVE Story!CopiesTurns(Append(copy, e), longer)
  <2> DEFINE more == Append(copy, e)
             to == [i \in 1 .. n + 1 |-> IF i = n + 1 THEN k ELSE from[i]]
  <2>1. DOMAIN more = 1 .. n + 1 /\ more[n + 1] = e /\ \A i \in 1 .. n : more[i] = copy[i]
    BY <1>1, AppendProperties DEF n
  <2> HIDE DEF more, longer
  <2>2. /\ n + 1 \in 1 .. n + 1 /\ 1 .. n \subseteq 1 .. n + 1
        /\ \A i \in 1 .. n + 1 : i = n + 1 \/ i \in 1 .. n
    BY <1>1
  <2>3. /\ to[n + 1] = k /\ \A i \in 1 .. n : to[i] = from[i] /\ from[i] \in Story!TurnsOf(s)
        /\ to \in [1 .. n + 1 -> Story!TurnsOf(longer)]
    BY <1>1, <1>2, <1>3, <1>5, <2>2
  <2> HIDE DEF to
  <2>4. \A i \in 1 .. n + 1 : more[i] = longer[to[i]]
    BY <1>1, <1>2, <1>3, <2>1, <2>2, <2>3
  <2>5. ASSUME NEW i \in 1 .. n + 1, NEW j \in 1 .. n + 1, i < j PROVE to[i] < to[j]
    <3>1. i \in 1 .. n
      BY <1>1, <2>5
    <3>2. CASE j \in 1 .. n
      BY <1>1, <1>2, <2>3, <2>5, <3>1, <3>2 DEF n
    <3>3. CASE j = n + 1
      <4>1. to[i] \in 1 .. Len(s)
        BY <1>3, <2>3, <3>1
      <4> QED BY <1>1, <2>3, <3>3, <4>1
    <3> QED BY <2>2, <3>2, <3>3
  <2>6. \A l \in Story!TurnsOf(longer) : \E i \in 1 .. n + 1 : to[i] = l
    BY <1>1, <1>2, <1>3, <1>5, <2>2, <2>3 DEF n
  <2>7. /\ to \in [DOMAIN more -> Story!TurnsOf(longer)]
        /\ \A i \in DOMAIN more : more[i] = longer[to[i]]
        /\ \A i, j \in DOMAIN more : i < j => to[i] < to[j]
        /\ \A l \in Story!TurnsOf(longer) : \E i \in DOMAIN more : to[i] = l
    BY <2>1, <2>3, <2>4, <2>5, <2>6
  <2>8. Story!CopiesTurns(more, longer)
    BY <2>7 DEF Story!CopiesTurns
  <2> QED BY <2>8 DEF more
<1> QED BY <1>4, <1>5

\* The pump copies what it takes.
LEMMA PumpCopies ==
    ASSUME SessionInv, Copied, PumpTakes
    PROVE  transcript' \in Seq(Live!Event) /\ Story!CopiesTurns(transcript', seen')
<1> DEFINE e == Head(inbox)
<1>1. /\ e \in Live!Event /\ seen' = Append(seen, e)
      /\ seen \in Seq(Live!Event) /\ transcript \in Seq(Live!Event)
      /\ Story!CopiesTurns(transcript, seen)
  BY DeliverKeeps, HeadIsEvent DEF PumpTakes, SessionInv, Live!TypeOK, Copied
<1>2. \/ e.kind = "transcript" /\ transcript' = Append(transcript, e)
      \/ e.kind # "transcript" /\ transcript' = transcript
  BY DEF PumpTakes, RouteChunk
<1> HIDE DEF e
<1>3. transcript' \in Seq(Live!Event)
  BY <1>1, <1>2, AppendProperties
<1> QED BY <1>1, <1>2, <1>3, CopyOne

\* Only the pump consumes, and only while it routes events.
LEMMA OnlyPumpTakes ==
    ASSUME Action
    PROVE  UNCHANGED <<consumer, seen, transcript>> \/ PumpTakes
<1>1. CASE \/ Idle \/ HandlerStart \/ OutboundTakes \/ OutboundSent \/ OutboundFails
           \/ \E t \in {"pump", "outbound"} : TaskCancelled(t)
  BY <1>1
  DEF Idle, HandlerStart, OutboundTakes, OutboundSent, OutboundFails, TaskCancelled,
      sessionVars, callVars
<1>2. CASE HandlerFrame \/ HandlerEnds
  BY <1>2, SendAudioKeeps DEF HandlerFrame, HandlerEnds, sessionVars
<1>3. CASE \E t \in {"reader", "upload"} : SessionStep(t)
  BY <1>3, SessionStepKeeps DEF callVars
<1>4. ASSUME NEW t \in Enders, TeardownStep(t) PROVE UNCHANGED <<consumer, seen, transcript>>
  <2>1. CASE FlushBridge(t)
    BY <2>1, SendAudioKeeps DEF FlushBridge, sessionVars
  <2>2. CASE CloseSession(t)
    <3>1. CASE Session!CloseBegin(t)
      BY <2>2, <3>1 DEF CloseSession, callVars, Session!CloseBegin, Session!CloseBeginCore
    <3>2. CASE Session!CloseStep(t)
      BY <2>2, <3>2, CloseStepDoes DEF CloseSession, callVars
    <3> QED BY <2>2, <3>1, <3>2 DEF CloseSession
  <2>3. CASE ~ FlushBridge(t) /\ ~ CloseSession(t)
    BY <1>4, <2>3
    DEF TeardownStep, Acquire, StopPump, TeardownRaises, DeliverRecord, Delivered, sessionVars
  <2> QED BY <2>1, <2>2, <2>3
<1> QED BY <1>1, <1>2, <1>3, <1>4 DEF Action

\* Where the pump goes from where it stands.
LEMMA PumpMoves ==
    ASSUME CallTyped, Exclusive, Action
    PROVE  \/ task'["pump"] = task["pump"]
           \/ HandlerStart /\ task["pump"] = "none" /\ task'["pump"] = "events"
           \/ PumpTakes /\ task'["pump"] \in {"lock", "crashed"}
           \/ TaskCancelled("pump") /\ task'["pump"] = "done"
           \/ /\ task["pump"] = "lock" /\ "pump" \notin stopped
              /\ task'["pump"] \in {"done", "stopOutbound"}
           \/ /\ task["pump"] \in InTeardown
              /\ task'["pump"] \in InTeardown \cup Over
<1>0. task \in [Enders -> States]
  BY DEF CallTyped
<1>1. CASE Idle \/ \E t \in {"reader", "upload"} : SessionStep(t)
  BY <1>1 DEF Idle, SessionStep, callVars
<1>2. CASE HandlerStart
  BY <1>2 DEF HandlerStart, Exclusive
<1>3. CASE HandlerFrame \/ HandlerEnds
  <2>1. task' = task \/ task' = [task EXCEPT !["handler"] = "lock"]
    BY <1>3 DEF HandlerFrame, HandlerEnds, Ending
  <2> QED BY <1>0, <2>1 DEF Enders
<1>4. CASE PumpTakes
  <2>1. \/ task' = task
        \/ \E to \in {"lock", "crashed"} : task' = [task EXCEPT !["pump"] = to]
    BY <1>4 DEF PumpTakes, RouteChunk, Ending
  <2> QED BY <1>0, <1>4, <2>1 DEF Enders
<1>5. CASE OutboundTakes \/ OutboundSent \/ OutboundFails
  <2>1. \E to \in States : task' = [task EXCEPT !["outbound"] = to]
    BY <1>5 DEF OutboundTakes, OutboundSent, OutboundFails, Ending, States
  <2> QED BY <1>0, <2>1 DEF Enders
<1>6. ASSUME NEW t \in {"pump", "outbound"}, TaskCancelled(t)
      PROVE  task'["pump"] = task["pump"] \/ (TaskCancelled("pump") /\ task'["pump"] = "done")
  BY <1>0, <1>6 DEF TaskCancelled, Enders
<1>7. ASSUME NEW t \in Enders, TeardownStep(t)
      PROVE  \/ task'["pump"] = task["pump"]
             \/ /\ task["pump"] = "lock" /\ "pump" \notin stopped
                /\ task'["pump"] \in {"done", "stopOutbound"}
             \/ /\ task["pump"] \in InTeardown
                /\ task'["pump"] \in InTeardown \cup Over
  <2>1. CASE Acquire(t)
    <3>1. /\ task[t] = "lock" /\ t \notin stopped
          /\ \E to \in {"done", "stopOutbound"} : task' = [task EXCEPT ![t] = to]
      BY <2>1 DEF Acquire
    <3> QED BY <1>0, <3>1 DEF Enders
  <2>2. CASE ~ Acquire(t)
    <3>1. \/ task' = task
          \/ /\ task[t] \in InTeardown
             /\ \E to \in InTeardown \cup Over : task' = [task EXCEPT ![t] = to]
      BY <1>7, <2>2
      DEF TeardownStep, FlushBridge, CloseSession, callVars, StopPump, TeardownRaises,
          DeliverRecord, Delivered, InTeardown, Over
    <3> QED BY <1>0, <3>1 DEF Enders
  <2> QED BY <2>1, <2>2
<1> QED BY <1>1, <1>2, <1>3, <1>4, <1>5, <1>6, <1>7 DEF Action

\* The pump leaves its loop with the Closed, which is the last it takes.
LEMMA PumpTakesClosed ==
    ASSUME SessionInv, CallTyped, PumpTakes
    PROVE  /\ task["pump"] = "events" /\ task'["pump"] \in {"events", "lock", "crashed"}
           /\ task'["pump"] = "events" => consumer' = "iterating"
           /\ task'["pump"] = "lock" => consumer' = "ended"
           /\ consumer = "iterating"
           /\ consumer' = "ended" => seen' # <<>> /\ seen'[Len(seen')].kind = "closed"
<1> DEFINE e == Head(inbox)
<1>0. task \in [Enders -> States]
  BY DEF CallTyped
<1>1. /\ e \in Live!Event /\ seen' = Append(seen, e) /\ seen \in Seq(Live!Event)
      /\ consumer' = IF e.kind = "closed" THEN "ended" ELSE "iterating"
      /\ consumer = "iterating" /\ task["pump"] = "events"
  BY DeliverKeeps, HeadIsEvent DEF PumpTakes, SessionInv, Live!TypeOK
<1>2. \/ e.kind = "closed" /\ task' = [task EXCEPT !["pump"] = "lock"]
      \/ e.kind # "closed" /\ task' = task
      \/ e.kind # "closed" /\ task' = [task EXCEPT !["pump"] = "crashed"]
  BY DEF PumpTakes, RouteChunk, Ending
<1> HIDE DEF e
<1>3. seen' # <<>> /\ seen'[Len(seen')] = e
  BY <1>1, AppendProperties
<1>4. \/ e.kind = "closed" /\ task'["pump"] = "lock"
      \/ e.kind # "closed" /\ task'["pump"] \in {"events", "crashed"}
  BY <1>0, <1>1, <1>2 DEF Enders
<1> QED BY <1>1, <1>3, <1>4

\* The pump is cancelled by the last step of another task's teardown.
LEMMA PumpStopped ==
    ASSUME CallTyped, Action, "pump" \in stopped', "pump" \notin stopped
    PROVE  \E t \in {"handler", "outbound"} : StopPump(t) /\ task["pump"] \notin Over
<1>1. CASE stopped' \subseteq stopped \cup {"outbound"}
  BY <1>1
<1>2. CASE \/ Idle \/ HandlerStart \/ HandlerFrame \/ HandlerEnds \/ PumpTakes
           \/ OutboundTakes \/ OutboundSent \/ OutboundFails
           \/ \E t \in {"pump", "outbound"} : TaskCancelled(t)
           \/ \E t \in {"reader", "upload"} : SessionStep(t)
  BY <1>1, <1>2
  DEF Idle, SessionStep, callVars, HandlerStart, HandlerFrame, HandlerEnds, PumpTakes,
      OutboundTakes, OutboundSent, OutboundFails, TaskCancelled
<1>3. ASSUME NEW t \in Enders, TeardownStep(t), ~ StopPump(t)
      PROVE  stopped' \subseteq stopped \cup {"outbound"}
  BY <1>3
  DEF TeardownStep, Acquire, Cancelled, FlushBridge, CloseSession, callVars,
      TeardownRaises, DeliverRecord, Delivered
<1>4. ASSUME NEW t \in Enders, StopPump(t)
      PROVE  t \in {"handler", "outbound"} /\ task["pump"] \notin Over
  BY <1>4 DEF StopPump, Cancelled, Enders
<1> QED BY <1>1, <1>2, <1>3, <1>4 DEF Action

\* Every step keeps the copy.
LEMMA CopiedStep ==
    ASSUME SessionInv, CallTyped, Exclusive, OneTeardown, Copied, PumpFirst, Action
    PROVE  Copied'
<1>0. task \in [Enders -> States]
  BY DEF CallTyped
<1>1. transcript' \in Seq(Live!Event) /\ Story!CopiesTurns(transcript', seen')
  BY OnlyPumpTakes, PumpCopies DEF Copied
<1>2. task'["pump"] \in {"none", "events"} => consumer' = "iterating"
  <2>1. CASE PumpTakes
    BY <2>1, PumpTakesClosed
  <2>2. CASE ~ PumpTakes
    BY <2>2, OnlyPumpTakes, PumpMoves DEF Copied, InTeardown, Over
  <2> QED BY <2>1, <2>2
<1>3. task'["pump"] \in {"lock", "done"} \cup InTeardown => consumer' = "ended"
  <2>1. CASE PumpTakes
    BY <2>1, PumpTakesClosed DEF InTeardown
  <2>2. CASE ~ PumpTakes
    <3>1. consumer' = consumer
      BY <2>2, OnlyPumpTakes
    <3>2. CASE TaskCancelled("pump")
      BY <3>1, <3>2 DEF TaskCancelled, Copied
    <3>3. CASE ~ TaskCancelled("pump")
      BY <2>2, <3>1, <3>3, PumpMoves DEF Copied, InTeardown
    <3> QED BY <3>2, <3>3
  <2> QED BY <2>1, <2>2
<1>4. consumer' = "ended" => seen' # <<>> /\ seen'[Len(seen')].kind = "closed"
  BY OnlyPumpTakes, PumpTakesClosed DEF Copied
<1>5. ASSUME "pump" \in stopped' PROVE task'["pump"] = "lock"
  <2>1. CASE "pump" \in stopped
    <3>1. task["pump"] = "lock"
      BY <2>1 DEF Copied
    <3>2. ~ TaskCancelled("pump") /\ ~ PumpTakes
      BY <1>5, <2>1 DEF TaskCancelled, PumpTakes
    <3> QED BY <2>1, <3>1, <3>2, PumpMoves DEF InTeardown
  <2>2. CASE "pump" \notin stopped
    <3>1. PICK t \in {"handler", "outbound"} : StopPump(t) /\ task["pump"] \notin Over
      BY <1>5, <2>2, PumpStopped
    <3>2. /\ task[t] = "closing" /\ closer[t] = "done" /\ t \in Enders \ {"pump"}
          /\ task' = [task EXCEPT ![t] = "stopPump"]
      BY <3>1 DEF StopPump, Enders
    <3>3. task["pump"] # "events"
      BY <3>2 DEF PumpFirst, Enders
    <3>4. lock = t /\ task["pump"] \notin InTeardown /\ done
      BY <3>2 DEF Exclusive, InTeardown, Enders
    <3>5. task["pump"] \in PumpStates /\ task["pump"] # "none"
      BY <3>4 DEF Exclusive
    <3>6. task["pump"] = "lock"
      BY <3>1, <3>3, <3>4, <3>5 DEF PumpStates, Over
    <3> QED BY <1>0, <3>2, <3>6 DEF Enders
  <2> QED BY <2>1, <2>2
<1>6. records' # <<>> => consumer' = "ended" /\ records'[1].transcript = transcript'
  <2>1. CASE records' = records
    <3> SUFFICES ASSUME records # <<>>
                 PROVE  consumer' = "ended" /\ records'[1].transcript = transcript'
      BY <2>1
    <3>1. consumer = "ended" /\ records[1].transcript = transcript
      BY DEF Copied
    <3>2. ~ PumpTakes
      BY <3>1, PumpTakesClosed
    <3> QED BY <2>1, <3>1, <3>2, OnlyPumpTakes
  <2>2. ASSUME NEW t \in Enders, DeliverRecord(t)
        PROVE  consumer' = "ended" /\ records'[1].transcript = transcript'
    <3>1. /\ task[t] = "stopPump" /\ transcript' = transcript /\ consumer' = consumer
          /\ t = "pump" \/ (task["pump"] \in Over /\ task["pump"] # "crashed")
          /\ records' = Append(records, [reason |-> why[t], transcript |-> transcript])
      BY <2>2 DEF DeliverRecord, AwaitRaises, sessionVars
    <3>2. records = <<>>
      BY <3>1 DEF OneTeardown
    <3>3. records'[1].transcript = transcript
      BY <3>1, <3>2
    <3>4. task["pump"] \in {"lock", "done"} \cup InTeardown
      BY <3>1 DEF Over, InTeardown
    <3> QED BY <3>1, <3>3, <3>4 DEF Copied
  <2> QED BY <2>1, <2>2, RecordsGrow
<1> QED BY <1>1, <1>2, <1>3, <1>4, <1>5, <1>6 DEF Copied

-----------------------------------------------------------------------------
(* The pump's Closed is taken before the session is closed behind it.      *)

\* A task keeps its place behind another unless that one runs.
LEMMA BeforeKept ==
    ASSUME NEW u \in Tasks, NEW v \in Tasks, Scheduled, Before(u, v), NEW w \in Seq(Tasks),
           \/ ready' = ready \o w
           \/ ready' = Tail(ready) \o w /\ Head(ready) # u
    PROVE  Before(u, v)'
<1>1. PICK i, j \in DOMAIN ready : i < j /\ ready[i] = u /\ ready[j] = v
  BY DEF Before
<1>2. /\ ready \in Seq(Tasks) /\ Len(ready) \in Nat /\ DOMAIN ready = 1 .. Len(ready)
      /\ Len(w) \in Nat
  BY DEF Scheduled
<1>3. CASE ready' = ready \o w
  <2>1. DOMAIN ready' = 1 .. Len(ready) + Len(w)
        /\ \A k \in 1 .. Len(ready) : ready'[k] = ready[k]
    BY <1>2, <1>3
  <2>2. i \in DOMAIN ready' /\ j \in DOMAIN ready' /\ ready'[i] = u /\ ready'[j] = v
    BY <1>1, <1>2, <2>1
  <2> QED BY <1>1, <2>2 DEF Before
<1>4. CASE ready' = Tail(ready) \o w /\ Head(ready) # u
  <2>1. ready # <<>> /\ Head(ready) = ready[1]
    BY <1>1, <1>2
  <2>2. i # 1
    BY <1>1, <1>4, <2>1
  <2>3. /\ Tail(ready) \in Seq(Tasks) /\ Len(Tail(ready)) = Len(ready) - 1
        /\ \A k \in 1 .. Len(ready) - 1 : Tail(ready)[k] = ready[k + 1]
    BY <1>2, <2>1
  <2>4. DOMAIN ready' = 1 .. (Len(ready) - 1) + Len(w)
        /\ \A k \in 1 .. Len(ready) - 1 : ready'[k] = ready[k + 1]
    BY <1>2, <1>4, <2>3
  <2>5. i - 1 \in 1 .. Len(ready) - 1 /\ j - 1 \in 1 .. Len(ready) - 1
    BY <1>1, <1>2, <2>2
  <2>6. /\ i - 1 \in DOMAIN ready' /\ j - 1 \in DOMAIN ready' /\ i - 1 < j - 1
        /\ ready'[i - 1] = u /\ ready'[j - 1] = v
    BY <1>1, <1>2, <2>4, <2>5
  <2> QED BY <2>6 DEF Before
<1> QED BY <1>3, <1>4

\* What the loop does with its queue when the head has run.
LEMMA QueueMoves ==
    ASSUME NEW h \in Tasks, Step(h)
    PROVE  /\ Woken \in Seq(Tasks)
           /\ \/ ready' = ready \o Woken
              \/ ready' = Tail(ready) \o Woken /\ Head(ready) = h /\ ~ Awake(h)'
<1>1. Running(h) /\ Yields(h)
  BY DEF Step
<1>2. Woken \in Seq(Tasks)
  BY WokenLists DEF Lists
<1> QED BY <1>1, <1>2 DEF Running, Yields

\* A task that cannot go on is not put into the queue, and the head leaves it
\* to wait.
LEMMA NotQueued ==
    ASSUME Scheduled, NEW h \in Tasks, Step(h), NEW t \in Tasks, ~ Awake(t)',
           ~ InReady(t) \/ (t = h /\ ~ Receiving(t)')
    PROVE  ~ InReady(t)'
<1>1. PICK kept \in {Queue, Queue \ {h}} :
         /\ Lists(ready', kept \cup Roused)
         /\ ~ Awake(h)' /\ ~ Receiving(h)' => kept = Queue \ {h}
  BY QueueAfter DEF Step
<1>2. t \notin kept \cup Roused
  BY <1>1 DEF Queue, Roused
<1> QED BY <1>1, <1>2 DEF Lists, InReady

\* A closer that waits for the socket is not runnable.
LEMMA ClosingSleeps ==
    ASSUME Exclusive', OneTeardown', NEW t \in {"handler", "outbound"},
           closer'[t] = "closeTransport"
    PROVE  ~ Awake(t)' /\ ~ Receiving(t)'
<1>1. t \in Enders /\ t # "reader" /\ t # "upload" /\ t # "pump"
  BY DEF Enders
<1>2. task'[t] \in {"closing"} \cup Over
  BY <1>1 DEF OneTeardown, Over
<1>3. t \notin stopped'
  BY <1>2 DEF Exclusive, InTeardown
<1> QED BY <1>1, <1>2, <1>3 DEF Awake, TaskAwake, Receiving, Over

\* A closer moves when its own task runs.
LEMMA CloserMoves ==
    ASSUME SessionInv, CallTyped, Exclusive, OneTeardown, NEW h \in Tasks, Step(h),
           NEW t \in Enders, closer'[t] # closer[t]
    PROVE  /\ h = t
           /\ closer'[t] = "awaitReader" \/ Session!CloseStep(t)
<1>0. closer \in [Enders -> {"idle", "awaitReader", "awaitDrain", "closeTransport",
                             "exitManager", "done", "raised"}]
  BY DEF SessionInv, Live!TypeOK
<1>1. ASSUME NEW u \in Enders, CloseSession(u)
      PROVE  t = u /\ (closer'[t] = "awaitReader" \/ Session!CloseStep(t))
  <2>1. task[u] = "closing"
    BY <1>1 DEF CloseSession
  <2>2. CASE Session!CloseBegin(u)
    <3>1. ~ tornDown
      BY <2>1, <2>2 DEF OneTeardown, Session!CloseBegin, Session!CloseBeginCore
    <3>2. closer' = [closer EXCEPT ![u] = "awaitReader"]
      BY <2>2, <3>1, CloseBeginDoes
    <3> QED BY <1>0, <3>2
  <2>3. CASE Session!CloseStep(u)
    <3>1. \E to \in {"awaitDrain", "closeTransport", "exitManager", "done", "raised"} :
             closer' = [closer EXCEPT ![u] = to]
      BY <2>3, CloseStepDoes
    <3> QED BY <1>0, <2>3, <3>1
  <2> QED BY <1>1, <2>2, <2>3 DEF CloseSession
<1>2. ASSUME NEW u \in Enders, TeardownStep(u), ~ CloseSession(u) PROVE closer' = closer
  <2>1. CASE FlushBridge(u)
    BY <2>1, SendAudioKeeps DEF FlushBridge, sessionVars
  <2>2. CASE ~ FlushBridge(u)
    BY <1>2, <2>2
    DEF TeardownStep, Acquire, StopPump, TeardownRaises, DeliverRecord, Delivered, sessionVars
  <2> QED BY <2>1, <2>2
<1>3. ASSUME \/ HandlerStart \/ OutboundTakes \/ OutboundSent \/ OutboundFails
             \/ \E u \in {"pump", "outbound"} : TaskCancelled(u)
      PROVE  closer' = closer
  BY <1>3 DEF HandlerStart, OutboundTakes, OutboundSent, OutboundFails, TaskCancelled,
              sessionVars
<1>4. ASSUME HandlerFrame \/ HandlerEnds PROVE closer' = closer
  BY <1>4, SendAudioKeeps DEF HandlerFrame, HandlerEnds, sessionVars
<1>5. ASSUME PumpTakes PROVE closer' = closer
  BY <1>5, DeliverKeeps DEF PumpTakes
<1>6. CASE h \in {"reader", "upload"}
  <2>1. SessionStep(h)
    BY <1>6 DEF Step
  <2> QED BY <1>6, <2>1, SessionStepKeeps
<1>7. CASE h \in Enders
  <2>1. TeardownStep(h)
    BY <1>3, <1>4, <1>5, <1>7
    DEF Step, HandlerStep, PumpStep, OutboundStep, Enders
  <2>2. CloseSession(h)
    BY <1>2, <1>7, <2>1
  <2> QED BY <1>1, <1>7, <2>2
<1> QED BY <1>6, <1>7 DEF Tasks, Enders

\* Once a teardown has begun no pump starts.
LEMMA PumpWasRouting ==
    ASSUME CallTyped, Exclusive, Action, OneTeardown',
           NEW t \in Enders, closer'[t] # "idle", task'["pump"] = "events"
    PROVE  task["pump"] = "events"
<1>1. ~ HandlerStart
  <2>1. CASE HandlerStart
    <3>1. ~ done'
      BY <2>1 DEF HandlerStart, Exclusive
    <3> QED BY <3>1 DEF OneTeardown
  <2> QED BY <2>1
<1> QED BY <1>1, PumpMoves DEF InTeardown, Over

\* The pump that routes events has its Closed waiting.
LEMMA ClosedWaits ==
    ASSUME SessionInv, Copied, OneTeardown, tornDown, task["pump"] = "events"
    PROVE  inbox # <<>> /\ Awake("pump")
<1>1. closed /\ consumer = "iterating"
  BY DEF OneTeardown, Copied
<1>2. inbox # <<>>
  BY <1>1 DEF SessionInv, Live!Promise, Live!TypeOK
<1> QED BY <1>2 DEF Awake, TaskAwake

\* So it has after taking another event.
LEMMA ClosedStillWaits ==
    ASSUME SessionInv', Copied', OneTeardown', tornDown', task'["pump"] = "events"
    PROVE  Awake("pump")'
<1>1. closed' /\ consumer' = "iterating"
  BY DEF OneTeardown, Copied
<1>2. inbox' # <<>>
  BY <1>1 DEF SessionInv, Live!Promise, Live!TypeOK
<1> QED BY <1>2 DEF Awake, TaskAwake

\* Every step keeps the pump ahead of the closer.
LEMMA PumpFirstStep ==
    ASSUME SessionInv, CallTyped, Scheduled, Exclusive, OneTeardown, Copied, PumpFirst,
           SessionInv', Exclusive', OneTeardown', Copied', [Next]_vars
    PROVE  PumpFirst'
<1>0. Action
  BY StepIsAction
<1>1. SUFFICES ASSUME NEW t \in {"handler", "outbound"}
               PROVE  /\ /\ closer'[t] = "closeTransport" /\ task'["pump"] = "events"
                         /\ InReady(t)'
                         => Before("pump", t)'
                      /\ closer'[t] \in {"exitManager", "done"} => task'["pump"] # "events"
  BY DEF PumpFirst
<1>2. t \in Enders /\ t \in Tasks /\ "pump" \in Tasks /\ t # "pump"
  BY DEF Enders, Tasks
<1>3. tornDown => tornDown'
  BY <1>0, NothingTakenBack
<1>4. closer[t] \in {"closeTransport", "exitManager", "done"} => closer[t] # "idle"
  OBVIOUS
<1>5. CASE UNCHANGED vars
  BY <1>5 DEF vars, sessionVars, callVars, PumpFirst, InReady, Before
<1>6. ASSUME NEW u \in Tasks, Completes(u)
      PROVE  /\ /\ closer'[t] = "closeTransport" /\ task'["pump"] = "events"
                /\ InReady(t)'
                => Before("pump", t)'
             /\ closer'[t] \in {"exitManager", "done"} => task'["pump"] # "events"
  <2>1. /\ ready' = Append(ready, u) /\ ready \in Seq(Tasks)
        /\ closer' = closer /\ task' = task
    BY <1>6 DEF Completes, Scheduled, sessionVars, callVars
  <2>2. /\ Len(ready) \in Nat /\ DOMAIN ready = 1 .. Len(ready)
        /\ DOMAIN ready' = 1 .. Len(ready) + 1 /\ ready'[Len(ready) + 1] = u
        /\ \A i \in 1 .. Len(ready) : ready'[i] = ready[i]
    BY <2>1, AppendProperties
  <2>3. ASSUME closer[t] = "closeTransport", task["pump"] = "events", InReady(t)'
        PROVE  Before("pump", t)'
    <3>1. CASE InReady(t)
      <4>1. PICK i, j \in DOMAIN ready : i < j /\ ready[i] = "pump" /\ ready[j] = t
        BY <2>3, <3>1 DEF PumpFirst, Before
      <4>2. i \in DOMAIN ready' /\ j \in DOMAIN ready' /\ ready'[i] = "pump" /\ ready'[j] = t
        BY <2>2, <4>1
      <4> QED BY <4>1, <4>2 DEF Before
    <3>2. CASE ~ InReady(t)
      <4>1. tornDown
        BY <1>2, <2>3 DEF OneTeardown
      <4>2. InReady("pump")
        BY <1>2, <2>3, <4>1, ClosedWaits DEF Scheduled
      <4>3. PICK i \in DOMAIN ready : ready[i] = "pump"
        BY <4>2 DEF InReady
      <4>4. ready'[Len(ready) + 1] = t
        <5>1. PICK k \in DOMAIN ready' : ready'[k] = t
          BY <2>3 DEF InReady
        <5>2. k \notin 1 .. Len(ready)
          BY <2>2, <3>2, <5>1 DEF InReady
        <5>3. k = Len(ready) + 1
          BY <2>2, <5>1, <5>2
        <5> QED BY <5>1, <5>3
      <4>5. /\ i \in DOMAIN ready' /\ Len(ready) + 1 \in DOMAIN ready' /\ i < Len(ready) + 1
            /\ ready'[i] = "pump"
        BY <2>2, <4>3
      <4> QED BY <4>4, <4>5 DEF Before
    <3> QED BY <3>1, <3>2
  <2> QED BY <2>1, <2>3 DEF PumpFirst
<1>7. ASSUME NEW h \in Tasks, Step(h),
             closer'[t] = "closeTransport", task'["pump"] = "events", InReady(t)'
      PROVE  Before("pump", t)'
  <2>1. ~ Awake(t)' /\ ~ Receiving(t)'
    BY <1>7, ClosingSleeps
  <2>2. InReady(t) /\ t # h
    BY <1>2, <1>7, <2>1, NotQueued
  <2>3. closer[t] = "closeTransport"
    BY <1>2, <1>7, <2>2, CloserMoves
  <2>4. task["pump"] = "events"
    BY <1>0, <1>2, <1>7, PumpWasRouting
  <2>5. Before("pump", t)
    BY <2>2, <2>3, <2>4 DEF PumpFirst
  <2>6. tornDown'
    BY <1>2, <1>7 DEF OneTeardown
  <2>7. Awake("pump")'
    BY <1>7, <2>6, ClosedStillWaits
  <2>8. Woken \in Seq(Tasks) /\ \/ ready' = ready \o Woken
                                \/ ready' = Tail(ready) \o Woken /\ Head(ready) # "pump"
    BY <1>7, <2>7, QueueMoves
  <2> QED BY <1>2, <2>5, <2>8, BeforeKept
<1>8. ASSUME NEW h \in Tasks, Step(h),
             closer'[t] \in {"exitManager", "done"}, task'["pump"] = "events"
      PROVE  FALSE
  <2>1. task["pump"] = "events"
    BY <1>0, <1>2, <1>8, PumpWasRouting
  <2>2. closer[t] \notin {"exitManager", "done"}
    BY <2>1 DEF PumpFirst
  <2>3. h = t /\ Session!CloseStep(t)
    BY <1>2, <1>8, <2>2, CloserMoves
  <2>4. closer[t] = "closeTransport"
    <3>1. closer \in [Enders -> {"idle", "awaitReader", "awaitDrain", "closeTransport",
                                 "exitManager", "done", "raised"}]
      BY DEF SessionInv, Live!TypeOK
    <3> QED BY <1>2, <1>8, <2>2, <2>3, <3>1, CloseStepDoes
  <2>5. ready # <<>> /\ Head(ready) = t
    BY <1>8, <2>3 DEF Step, Running
  <2>6. ready \in Seq(Tasks) /\ 1 \in DOMAIN ready /\ ready[1] = t
    BY <2>5 DEF Scheduled
  <2>7. Before("pump", t)
    BY <2>1, <2>4, <2>6 DEF PumpFirst, InReady
  <2>8. PICK i, j \in DOMAIN ready : i < j /\ ready[i] = "pump" /\ ready[j] = t
    BY <2>7 DEF Before
  <2>9. j = 1
    BY <2>6, <2>8 DEF Scheduled
  <2> QED BY <2>6, <2>8, <2>9
<1> QED BY <1>5, <1>6, <1>7, <1>8 DEF Next

\* The invariant of a call: its teardown, its loop and the pump's copy.
CallInv == TeardownInv /\ Scheduled /\ Copied /\ PumpFirst

\* A call that has not begun has copied nothing.
LEMMA InitCall == Init => CallInv
<1> SUFFICES ASSUME Init PROVE CallInv
  OBVIOUS
<1>1. TeardownInv /\ Scheduled
  BY InitTeardown, InitTyped, TypeParts
<1>2. /\ transcript = <<>> /\ records = <<>> /\ stopped = {} /\ task["pump"] = "none"
      /\ seen = <<>> /\ consumer = "iterating"
      /\ \A t \in Enders : closer[t] = "idle"
  BY DEF Init, Session!Opened, Session!Untouched, Enders
<1>3. Story!CopiesTurns(transcript, seen)
  <2>1. Story!TurnsOf(<<>>) = {} /\ DOMAIN <<>> = {}
    BY DEF Story!TurnsOf
  <2>2. [i \in {} |-> 0] \in [{} -> {}]
    OBVIOUS
  <2> QED BY <1>2, <2>1, <2>2 DEF Story!CopiesTurns
<1>4. Copied
  BY <1>2, <1>3, EmptySeq DEF Copied, InTeardown
<1>5. PumpFirst
  BY <1>2 DEF PumpFirst, Enders
<1> QED BY <1>1, <1>4, <1>5 DEF CallInv

\* Every step keeps it.
LEMMA CallStepInv == SessionInv /\ CallInv /\ [Next]_vars => CallInv'
<1> SUFFICES ASSUME SessionInv, CallInv, [Next]_vars PROVE CallInv'
  OBVIOUS
<1>1. SessionInv' /\ TeardownInv' /\ Scheduled'
  BY SessionInvStep, TeardownStepInv, ScheduledStep DEF CallInv
<1>2. Copied'
  BY StepIsAction, CopiedStep DEF CallInv, TeardownInv
<1>3. PumpFirst'
  BY <1>1, <1>2, PumpFirstStep DEF CallInv, TeardownInv
<1> QED BY <1>1, <1>2, <1>3 DEF CallInv

\* It holds throughout a call.
LEMMA CallHolds == Spec => []CallInv
  BY InitCall, CallStepInv, SessionHolds, PTL DEF Spec

\* What was yielded once the iteration has ended is the stream up to the Closed.
LEMMA SeenWhole ==
    ASSUME SessionInv, Copied, consumer = "ended"
    PROVE  UpToClosed = seen
<1>1. /\ seen \in Seq(Live!Event) /\ inbox \in Seq(Live!Event) /\ closed
      /\ seen # <<>> /\ seen[Len(seen)].kind = "closed"
  BY DEF SessionInv, Live!TypeOK, Live!Promise, Copied
<1> DEFINE n == Len(seen)
           s == seen \o inbox
<1>2. /\ n \in Nat \ {0} /\ DOMAIN s = 1 .. Len(s) /\ n \in 1 .. Len(s) /\ s \in Seq(Live!Event)
      /\ \A i \in 1 .. n : s[i] = seen[i]
  BY <1>1
<1>3. Live!Ended(s, closed, cause)
  BY DEF SessionInv, Live!SessionEnded, Live!Stream
<1> HIDE DEF s
<1>4. s[n].kind = "closed" /\ \A i \in 1 .. Len(s) : s[i].kind = "closed" => i = n
  BY <1>1, <1>2, <1>3 DEF Live!Ended
<1>5. {i \in DOMAIN s : s[i].kind = "closed"} = {n}
  BY <1>2, <1>4
<1>6. SubSeq(s, 1, n) = seen
  <2> DEFINE p == SubSeq(s, 1, n)
  <2>1. p \in Seq(Live!Event) /\ Len(p) = n /\ \A i \in 1 .. n : p[i] = seen[i]
    BY <1>2
  <2> HIDE DEF p
  <2>2. p = seen
    BY <1>1, <2>1, SeqEqual
  <2> QED BY <2>2 DEF p
<1>7. ClosedAt = {n} /\ Stream = s
  BY <1>5 DEF ClosedAt, Stream, s
<1>8. (CHOOSE i \in ClosedAt : TRUE) = n
  BY <1>7
<1>9. UpToClosed = SubSeq(s, 1, n)
  BY <1>7, <1>8 DEF UpToClosed
<1> QED BY <1>6, <1>9

(***************************************************************************)
(* A record holds every turn the session reported before it closed, once   *)
(* and in order, although the teardown cancels the pump that copies them   *)
(* (server.py:517-522, live.py:258-260).                                   *)
(***************************************************************************)
THEOREM RecordHasEveryTurnHolds == Spec => []RecordHasEveryTurn
<1>1. SessionInv /\ CallInv => RecordHasEveryTurn
  <2> SUFFICES ASSUME SessionInv, CallInv, NEW i \in DOMAIN records
               PROVE  Story!CopiesTurns(records[i].transcript, UpToClosed)
    BY DEF RecordHasEveryTurn
  <2>1. i = 1 /\ records # <<>>
    <3>1. Len(records) <= 1 /\ i \in 1 .. Len(records)
      BY DEF CallInv, TeardownInv, TornDown, RecordOnceAndLast
    <3> QED BY <3>1
  <2>2. /\ consumer = "ended" /\ records[i].transcript = transcript
        /\ Story!CopiesTurns(transcript, seen)
    BY <2>1 DEF CallInv, Copied
  <2> QED BY <2>2, SeenWhole DEF CallInv
<1> QED BY <1>1, SessionHolds, CallHolds, PTL

-----------------------------------------------------------------------------
(* The refinement of CallStory.                                            *)

(* A task that met an ending has a reason, and one that blames Gemini      *)
(* names the Closed that the pump took.                                    *)
Named ==
    \A t \in Enders :
        /\ task[t] \in Met => why[t] # "none"
        /\ \/ why[t] \in OwnEndings \cup {"none"}
           \/ consumer = "ended" /\ why[t] = GeminiReason[seen[Len(seen)].reason]

\* Every step keeps the reasons named.
LEMMA NamedStep ==
    ASSUME SessionInv, CallTyped, Copied, Named, Action
    PROVE  Named'
<1>0. why \in [Enders -> Reasons] /\ task \in [Enders -> States]
  BY DEF CallTyped
<1>1. ASSUME NEW t \in Enders, why'[t] = why[t], task'[t] \in Met => task[t] \in Met
      PROVE  /\ task'[t] \in Met => why'[t] # "none"
             /\ \/ why'[t] \in OwnEndings \cup {"none"}
                \/ consumer' = "ended" /\ why'[t] = GeminiReason[seen'[Len(seen')].reason]
  <2>1. CASE UNCHANGED <<consumer, seen>>
    BY <1>1, <2>1 DEF Named
  <2>2. CASE PumpTakes
    <3>1. consumer = "iterating"
      BY <2>2, PumpTakesClosed
    <3> QED BY <1>1, <3>1 DEF Named
  <2> QED BY <2>1, <2>2, OnlyPumpTakes
<1>2. ASSUME NEW t \in Enders, why'[t] \in OwnEndings
      PROVE  why'[t] # "none"
  BY <1>2 DEF OwnEndings
<1>3. CASE /\ PumpTakes /\ Head(inbox).kind = "closed"
           /\ Ending("pump", GeminiReason[Head(inbox).reason])
  <2> DEFINE e == Head(inbox)
  <2>1. /\ inbox # <<>> /\ e \in Live!Event /\ seen \in Seq(Live!Event)
        /\ seen' = Append(seen, e) /\ consumer' = "ended"
    BY <1>3, DeliverKeeps, HeadIsEvent DEF PumpTakes, SessionInv, Live!TypeOK
  <2>2. /\ why' = [why EXCEPT !["pump"] = GeminiReason[e.reason]]
        /\ task' = [task EXCEPT !["pump"] = "lock"]
    BY <1>3 DEF Ending
  <2>3. GeminiReason[e.reason] # "none"
    <3>1. e.reason \in Live!Reason
      BY <1>3, <2>1, ClosedReason
    <3> QED BY <3>1 DEF Live!Reason, GeminiReason
  <2> HIDE DEF e
  <2>4. seen'[Len(seen')] = e
    BY <2>1, AppendProperties
  <2>5. why'["pump"] = GeminiReason[e.reason]
    BY <1>0, <2>2 DEF Enders
  <2>6. \A t \in Enders \ {"pump"} : why'[t] = why[t] /\ task'[t] = task[t]
    BY <1>0, <2>2
  <2> QED BY <1>1, <2>1, <2>3, <2>4, <2>5, <2>6 DEF Named
<1>4. CASE \A t \in Enders :
             \/ why'[t] = why[t] /\ (task'[t] \in Met => task[t] \in Met)
             \/ why'[t] \in OwnEndings
  BY <1>1, <1>2, <1>4 DEF Named
<1> QED BY <1>3, <1>4, WhyMoves

\* Reasons are named throughout a call.
LEMMA NamedHolds == Spec => []Named
<1>1. Init => Named
  BY DEF Init, Named, Met, InTeardown, Enders
<1>2. SessionInv /\ CallInv /\ Named /\ [Next]_vars => Named'
  BY NamedStep, StepIsAction DEF CallInv, TeardownInv
<1> QED BY <1>1, <1>2, SessionHolds, CallHolds, PTL DEF Spec

StoryNext == [Story!Report \/ Story!Close \/ Story!HandOff]_(Story!storyVars)

\* A step that delivers no record leaves the story as it is, or carries it on.
LEMMA StoryGrows ==
    ASSUME SessionInv, [Next]_vars, records' = records
    PROVE  StoryNext
<1>0. Live!TypeOK /\ Live!SessionEnded /\ closed \in BOOLEAN
  BY DEF SessionInv, Live!TypeOK
<1>1. [Live!Next]_(Live!vars)
  BY SessionSteps, SameNext
<1>2. Live!ShapesAssumption /\ Live!BoundsAssumption /\ Live!RaiseAssumption
  BY ShapesAssumption, BoundsAssumption, RaiseAssumption
  DEF Live!ShapesAssumption, Live!BoundsAssumption, Live!RaiseAssumption, Session!Fields,
      Live!Fields
<1>3. UpToClosed = Live!Reported /\ UpToClosed' = Live!Reported'
  BY DEF UpToClosed, Stream, ClosedAt, Live!Reported, Live!UpToClosed, Live!ClosedIn,
         Live!Stream
<1>4. \/ UNCHANGED <<Live!Reported, closed>>
      \/ /\ ~ closed /\ closed' = closed
         /\ Live!Promised!IsPrefix(Live!Reported, Live!Reported')
         /\ Live!Reported' \in Seq(Live!Event) /\ Live!Unended(Live!Reported')
      \/ /\ ~ closed /\ closed' = TRUE
         /\ Live!Promised!IsPrefix(Live!Reported, Live!Reported')
         /\ Live!Reported' \in Seq(Live!Event)
         /\ Len(Live!Reported') \in 1 .. Len(Live!Reported')
         /\ Live!EndsAt(Live!Reported', Len(Live!Reported'))
  BY <1>0, <1>1, <1>2, Live!ReportedStep
<1> QED
  BY <1>3, <1>4
  DEF StoryNext, Story!Report, Story!Close, Story!IsClosing, Story!storyVars,
      Story!IsPrefix, Live!Promised!IsPrefix, Live!Unended, Live!EndsAt

\* A record is handed off with the whole story, and blames what closed it.
LEMMA StoryHandedOff ==
    ASSUME SessionInv, CallInv, Named, CallInv', NEW t \in Enders, DeliverRecord(t)
    PROVE  Story!HandOff
<1> DEFINE r == [reason |-> why[t], transcript |-> transcript]
<1>1. /\ task[t] = "stopPump" /\ records' = Append(records, r)
      /\ UNCHANGED sessionVars
  BY DEF DeliverRecord
<1>2. records = <<>>
  BY <1>1 DEF CallInv, TeardownInv, OneTeardown
<1>3. records' # <<>> /\ Len(records') = 1 /\ records'[1] = r
  BY <1>1, <1>2
<1>4. /\ UNCHANGED <<seen, inbox, closed, consumer>>
  BY <1>1 DEF sessionVars
<1>5. UpToClosed' = UpToClosed
  BY <1>4 DEF UpToClosed, ClosedAt, Stream
<1>6. consumer = "ended"
  BY <1>3, <1>4 DEF CallInv, Copied
<1>7. closed = TRUE /\ UpToClosed = seen /\ Story!CopiesTurns(transcript, seen)
      /\ seen # <<>> /\ seen[Len(seen)].kind = "closed" /\ seen \in Seq(Live!Event)
  BY <1>6, SeenWhole DEF CallInv, Copied, SessionInv, Live!Promise, Live!TypeOK
<1>8. why[t] # "none" /\ why[t] # "gemini_local"
  BY <1>1 DEF Named, Met, InTeardown, CallInv, TeardownInv, TornDown
<1>9. Story!Names(why[t], seen)
  <2>1. CASE why[t] \in OwnEndings
    BY <2>1 DEF Story!Names
  <2>2. CASE why[t] = GeminiReason[seen[Len(seen)].reason]
    <3> DEFINE k == seen[Len(seen)].reason
    <3>1. k \in Live!Reason
      <4>1. seen[Len(seen)] \in Live!Event
        BY <1>7
      <4> QED BY <1>7, <4>1, ClosedReason
    <3> HIDE DEF k
    <3>2. k \in {"remote", "remote_error", "send_failed"} /\ why[t] = Blame[k]
      BY <1>8, <2>2, <3>1 DEF Live!Reason, GeminiReason, Blame, k
    <3>3. k \in DOMAIN Blame
      BY <3>2 DEF Blame
    <3> QED BY <3>2, <3>3 DEF Story!Names, k
  <2> QED BY <1>8, <2>1, <2>2 DEF Named
<1>10. Story!Tells(r, seen)
  BY <1>7, <1>9 DEF Story!Tells
<1> HIDE DEF r
<1> QED BY <1>2, <1>3, <1>4, <1>5, <1>7, <1>10 DEF Story!HandOff

(***************************************************************************)
(* A call implements CallStory: however its tasks interleave, it tells at  *)
(* most one record, of a session that is closed, with every turn of it and *)
(* blaming Gemini only for what closed it (server.py:475-545).             *)
(***************************************************************************)
THEOREM StoryToldHolds == Spec => StoryTold
<1>1. Init => Story!Init
  <2> SUFFICES ASSUME Init PROVE Story!Init
    OBVIOUS
  <2>1. seen = <<>> /\ inbox = <<>> /\ closed = FALSE /\ records = <<>>
    BY DEF Init, Session!Opened, Session!Untouched
  <2>2. Stream = <<>>
    BY <2>1 DEF Stream
  <2>3. ClosedAt = {}
    BY <2>2 DEF ClosedAt
  <2> QED BY <2>1, <2>2, <2>3 DEF Story!Init, UpToClosed
<1>2. SessionInv /\ CallInv /\ Named /\ CallInv' /\ [Next]_vars => StoryNext
  <2> SUFFICES ASSUME SessionInv, CallInv, Named, CallInv', [Next]_vars PROVE StoryNext
    OBVIOUS
  <2>1. CASE records' = records
    BY <2>1, StoryGrows
  <2>2. ASSUME NEW t \in Enders, DeliverRecord(t) PROVE StoryNext
    BY <2>2, StoryHandedOff DEF StoryNext
  <2> QED BY <2>1, <2>2, RecordsGrow, StepIsAction
<1> QED
  BY <1>1, <1>2, SessionHolds, CallHolds, NamedHolds, PTL
  DEF Spec, StoryTold, Story!Spec, StoryNext
=============================================================================
