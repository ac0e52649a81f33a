--------------------------- MODULE LiveSessionProofs ---------------------------
(***************************************************************************)
(* Theorems about LiveSession, for any number of closers, messages and     *)
(* frames and any shapes a message may have.                               *)
(***************************************************************************)
EXTENDS LiveSessionSafety, TLAPS, SequenceTheorems, FiniteSetTheorems

-----------------------------------------------------------------------------
(* Sequences.                                                              *)

\* Taking the head of one sequence to the end of another moves nothing.
LEMMA HeadMoved ==
    ASSUME NEW S, NEW s \in Seq(S), NEW t \in Seq(S), t # <<>>
    PROVE  /\ Append(s, Head(t)) \in Seq(S) /\ Tail(t) \in Seq(S)
           /\ Head(t) \in S
           /\ Append(s, Head(t)) \o Tail(t) = s \o t
<1>1. Append(s, Head(t)) \in Seq(S) /\ Tail(t) \in Seq(S) /\ Head(t) \in S
  OBVIOUS
<1>2. Append(s, Head(t)) \o Tail(t) = s \o t
  OBVIOUS
<1> QED BY <1>1, <1>2

\* Appending to the second of two sequences appends to both.
LEMMA AppendMoved ==
    ASSUME NEW S, NEW s \in Seq(S), NEW t \in Seq(S), NEW e \in S
    PROVE  s \o Append(t, e) = Append(s \o t, e)
  OBVIOUS

-----------------------------------------------------------------------------
(* The accumulator: what a message is translated to.                       *)

\* A translation in progress has made events, and no Closed.
Translation == [turn : Turn, events : Seq(Said)]

\* Flushing keeps a translation a translation.
LEMMA FlushTyped ==
    ASSUME NEW st \in Translation
    PROVE  Flush(st) \in Translation
<1>1. st.turn \in Turn /\ st.events \in Seq(Said)
  BY DEF Translation
<1>2. CASE st.turn.role = "none" \/ st.turn.parts = <<>>
  BY <1>2 DEF Flush
<1>3. CASE ~ (st.turn.role = "none" \/ st.turn.parts = <<>>)
  <2>1. Transcript(st.turn) \in Said
    BY <1>1, <1>3 DEF Transcript, Said, Turn
  <2>2. Append(st.events, Transcript(st.turn)) \in Seq(Said)
    BY <1>1, <2>1, AppendProperties
  <2>3. NoTurn \in Turn
    BY EmptySeq DEF NoTurn, Turn
  <2> QED BY <1>3, <2>2, <2>3 DEF Flush, Translation
<1> QED BY <1>2, <1>3

\* So does adding a fragment.
LEMMA AddTyped ==
    ASSUME NEW st \in Translation, NEW role \in {"caller", "model"},
           NEW id \in 1 .. MaxMessages
    PROVE  AddFragment(st, role, id) \in Translation
<1> DEFINE base == IF role # st.turn.role THEN Flush(st) ELSE st
<1>1. base \in Translation
  BY FlushTyped
<1> HIDE DEF base
<1>2. base.turn.parts \in Seq(1 .. MaxMessages) /\ base.events \in Seq(Said)
  BY <1>1 DEF Translation, Turn
<1>3. [role |-> role, parts |-> Append(base.turn.parts, id)] \in Turn
  <2>1. Append(base.turn.parts, id) \in Seq(1 .. MaxMessages)
    BY <1>2, AppendProperties
  <2> QED BY <2>1 DEF Turn
<1>4. [base EXCEPT !.turn = [role |-> role, parts |-> Append(base.turn.parts, id)]]
         \in Translation
  BY <1>1, <1>3 DEF Translation
<1> QED BY <1>4 DEF AddFragment, base

\* A message of any shape leaves a turn and makes events, none of them the Closed.
LEMMA TranslateTyped ==
    ASSUME NEW t \in Turn, NEW m, NEW id \in 1 .. MaxMessages
    PROVE  /\ Translate(t, m, id).turn \in Turn
           /\ Translate(t, m, id).events \in Seq(Said)
<1> DEFINE s0 == Fresh(t)
           s1 == IF "caller" \in m THEN AddFragment(s0, "caller", id) ELSE s0
           s2 == IF "model" \in m THEN AddFragment(s1, "model", id) ELSE s1
           audio == IF "audio" \in m THEN <<AudioChunk(id)>> ELSE <<>>
           barge == IF "interrupted" \in m THEN <<Interrupted>> ELSE <<>>
           s3 == [s2 EXCEPT !.events = (s2.events \o audio) \o barge]
<1>1. s0 \in Translation
  BY EmptySeq DEF Fresh, Translation
<1>2. s1 \in Translation
  BY <1>1, AddTyped
<1>3. s2 \in Translation
  BY <1>2, AddTyped
<1>4. audio \in Seq(Said) /\ barge \in Seq(Said)
  <2>1. AudioChunk(id) \in Said /\ Interrupted \in Said
    BY DEF Said, AudioChunk
  <2> QED BY <2>1, EmptySeq
<1>5. s3 \in Translation
  <2> HIDE DEF s2, audio, barge
  <2>1. s2.events \in Seq(Said)
    BY <1>3 DEF Translation
  <2>2. (s2.events \o audio) \o barge \in Seq(Said)
    BY <1>4, <2>1
  <2> QED BY <1>3, <2>2 DEF Translation
<1>6. Translate(t, m, id) = IF "complete" \in m THEN Flush(s3) ELSE s3
  BY DEF Translate
<1>7. Translate(t, m, id) \in Translation
  <2> HIDE DEF s3
  <2> QED BY <1>5, <1>6, FlushTyped
<1> QED BY <1>7 DEF Translation

-----------------------------------------------------------------------------
(* Type correctness.                                                       *)

\* What _emit_closed puts into the stream.
LEMMA EmitClosedTyped ==
    ASSUME TypeOK, NEW reason \in Reason, EmitClosed(reason), FirstCause(reason)
    PROVE  /\ inbox' \in Seq(Event) /\ turn' \in Turn /\ closed' \in BOOLEAN
           /\ cause' \in Reason \cup {"none"}
           /\ closed => inbox' = inbox /\ closed'
           /\ ~ closed => /\ closed'
                          /\ \E last \in Seq(Said) :
                                inbox' = (inbox \o last) \o <<Closed(reason)>>
<1>1. CASE closed
  BY <1>1 DEF EmitClosed, streamVars, FirstCause, TypeOK
<1>2. CASE ~ closed
  <2> DEFINE st == Flush(Fresh(turn))
  <2>1. st \in Translation
    <3>1. Fresh(turn) \in Translation
      BY EmptySeq DEF Fresh, Translation, TypeOK
    <3> QED BY <3>1, FlushTyped
  <2>2. closed' = TRUE /\ turn' = st.turn /\ inbox' = (inbox \o st.events) \o <<Closed(reason)>>
    BY <1>2 DEF EmitClosed
  <2> HIDE DEF st
  <2>3. st.events \in Seq(Said) /\ st.events \in Seq(Event) /\ st.turn \in Turn
    BY <2>1 DEF Translation, Event
  <2>4. Closed(reason) \in Event
    BY DEF Closed, Event
  <2>5. inbox' \in Seq(Event)
    BY <2>2, <2>3, <2>4 DEF TypeOK
  <2>6. cause' \in Reason \cup {"none"}
    BY DEF FirstCause, TypeOK
  <2> QED BY <1>2, <2>2, <2>3, <2>5, <2>6
<1> QED BY <1>1, <1>2

\* The variables that a step of close() changes.
LEMMA CloseStepTyped ==
    ASSUME TypeOK, NEW c \in Closers, CloseStep(c)
    PROVE  TypeOK'
<1>1. CloseFrame
  BY DEF CloseStep, CloseReaderStopped, CloseDrainStopped, CloseTransport, CloseManager,
         CloseRaises
<1>2. /\ closer' \in [Closers -> {"idle", "awaitReader", "awaitDrain", "closeTransport",
                                  "exitManager", "done", "raised"}]
      /\ transport' \in {"none", "open", "closed"} /\ manager' \in {"none", "entered", "exited"}
  BY DEF CloseStep, CloseReaderStopped, CloseDrainStopped, CloseTransport, CloseManager,
         CloseRaises, TypeOK
<1> QED
  BY <1>1, <1>2 DEF TypeOK, CloseFrame, streamVars, readerVars, drainVars

\* The first step of close().
LEMMA CloseBeginTyped ==
    ASSUME TypeOK, NEW c \in Closers, CloseBegin(c)
    PROVE  TypeOK'
<1>1. /\ inbox' \in Seq(Event) /\ turn' \in Turn /\ closed' \in BOOLEAN
      /\ cause' \in Reason \cup {"none"}
  <2>1. CASE tornDown
    BY <2>1 DEF CloseBegin, CloseBeginCore, TypeOK, streamVars
  <2>2. CASE ~ tornDown
    BY <2>2, EmitClosedTyped DEF CloseBegin, CloseBeginCore, DecideReason, Reason
  <2> QED BY <2>1, <2>2
<1>2. /\ tornDown' \in BOOLEAN /\ cancelled' \subseteq {"reader", "drain"}
      /\ closer' \in [Closers -> {"idle", "awaitReader", "awaitDrain", "closeTransport",
                                  "exitManager", "done", "raised"}]
  BY DEF CloseBegin, CloseBeginCore, ToStop, Alive, TasksFirst, TypeOK
<1>3. UNCHANGED <<opening, readerVars, drain, sent, transport, manager, consumer, seen,
                  outbox, frames>>
  BY DEF CloseBegin, CloseBeginCore
<1> QED
  BY <1>1, <1>2, <1>3 DEF TypeOK, readerVars

\* A message adds to the inbox only what is said.
LEMMA MessageTyped ==
    ASSUME TypeOK, NEW m \in Shapes, ReaderMessage(m)
    PROVE  /\ TypeOK'
           /\ \E said \in Seq(Said) : inbox' = inbox \o said
<1> DEFINE id == messages + 1
           st == Translate(turn, m, id)
<1>1. id \in 1 .. MaxMessages /\ turn \in Turn /\ messages' = id
      /\ turn' = st.turn /\ inbox' = inbox \o st.events
  BY BoundsAssumption DEF ReaderMessage, TypeOK
<1>2. st.turn \in Turn /\ st.events \in Seq(Said)
  BY <1>1, TranslateTyped
<1> HIDE DEF st
<1>3. inbox' \in Seq(Event)
  <2>1. st.events \in Seq(Event)
    BY <1>2 DEF Event
  <2> QED BY <1>1, <2>1 DEF TypeOK
<1>4. heard' \subseteq [field : {"caller", "model", "audio"}, id : 1 .. MaxMessages]
  BY <1>1 DEF ReaderMessage, TypeOK
<1>5. completes' \subseteq 1 .. MaxMessages
  BY <1>1 DEF ReaderMessage, TypeOK
<1>6. /\ gotMessage' = TRUE /\ reader' \in {"done", "receiving"}
      /\ UNCHANGED <<opening, closed, drainVars, closeVars, cancelled, consumer, seen, cause>>
  BY DEF ReaderMessage
<1>7. messages' \in 0 .. MaxMessages
  BY <1>1
<1> HIDE DEF id
<1>8. TypeOK'
  BY <1>1, <1>2, <1>3, <1>4, <1>5, <1>6, <1>7 DEF TypeOK, drainVars, closeVars
<1> QED BY <1>1, <1>2, <1>8

\* The reader's three ways out of its loop.
LEMMA ReaderEndsTyped ==
    ASSUME TypeOK, ReaderTurnEnds \/ ReaderFails \/ ReaderCancelled
    PROVE  TypeOK'
<1>1. CASE gotMessage' # gotMessage
  <2>1. /\ gotMessage' = FALSE
        /\ UNCHANGED <<opening, reader, streamVars, cause, messages, heard, completes,
                       drainVars, closeVars, cancelled, consumer, seen>>
    BY <1>1 DEF ReaderTurnEnds, ReaderFails, ReaderCancelled
  <2>2. gotMessage' \in BOOLEAN
    BY <2>1
  <2>3. /\ inbox' = inbox /\ turn' = turn /\ closed' = closed /\ outbox' = outbox
        /\ drain' = drain /\ frames' = frames /\ sent' = sent /\ tornDown' = tornDown
        /\ closer' = closer /\ transport' = transport /\ manager' = manager
    BY <2>1 DEF streamVars, drainVars, closeVars
  <2> QED BY <2>1, <2>2, <2>3 DEF TypeOK
<1>2. CASE gotMessage' = gotMessage
  <2>1. /\ UNCHANGED <<opening, gotMessage, messages, heard, completes, drainVars, closeVars,
                       consumer, seen>>
        /\ cancelled' \subseteq cancelled
    BY <1>2 DEF ReaderTurnEnds, ReaderFails, ReaderCancelled
  <2>2. /\ inbox' \in Seq(Event) /\ turn' \in Turn /\ closed' \in BOOLEAN
        /\ cause' \in Reason \cup {"none"} /\ reader' \in {"none", "receiving", "done"}
    <3>1. CASE \E reason \in {"remote", "remote_error"} : ReaderEnds(reason)
      <4>1. PICK reason \in Reason : ReaderEnds(reason)
        BY <3>1 DEF Reason
      <4> QED BY <4>1, EmitClosedTyped DEF ReaderEnds
    <3>2. CASE UNCHANGED <<reader, streamVars, cause>>
      BY <3>2 DEF TypeOK, streamVars
    <3> QED BY <3>1, <3>2 DEF ReaderTurnEnds, ReaderFails, ReaderCancelled
  <2> QED BY <2>1, <2>2 DEF TypeOK, drainVars, closeVars
<1> QED BY <1>1, <1>2

\* The upload side.
LEMMA DrainTyped ==
    ASSUME TypeOK, SendAudio \/ DrainStep
    PROVE  TypeOK'
<1>1. CASE SendAudio
  <2>1. frames + 1 \in 1 .. MaxFrames /\ frames' \in 0 .. MaxFrames
    BY <1>1, BoundsAssumption DEF SendAudio, TypeOK
  <2>2. outbox' \in Seq(1 .. MaxFrames)
    BY <1>1, <2>1, AppendProperties DEF SendAudio, Queued, TypeOK
  <2> QED
    BY <1>1, <2>1, <2>2 DEF SendAudio, TypeOK, streamVars, readerVars, closeVars
<1>2. CASE DrainTakes
  <2>1. outbox' \in Seq(1 .. MaxFrames) /\ sent' \in Seq(1 .. MaxFrames)
    BY <1>2, HeadMoved DEF DrainTakes, Taken, TypeOK
  <2> QED BY <1>2, <2>1 DEF DrainTakes, TypeOK, streamVars, readerVars, closeVars
<1>3. CASE DrainSent
  BY <1>3 DEF DrainSent, TypeOK, streamVars, readerVars, closeVars
<1>4. CASE DrainFails
  <2>1. /\ inbox' \in Seq(Event) /\ turn' \in Turn /\ closed' \in BOOLEAN
        /\ cause' \in Reason \cup {"none"}
    BY <1>4, EmitClosedTyped DEF DrainFails, Reason
  <2> QED BY <1>4, <2>1 DEF DrainFails, TypeOK, readerVars, closeVars
<1>5. CASE DrainCancelled
  BY <1>5 DEF DrainCancelled, TypeOK, streamVars, readerVars, closeVars
<1> QED BY <1>1, <1>2, <1>3, <1>4, <1>5 DEF DrainStep

\* The types hold before anything has happened.
LEMMA InitTyped == Init => TypeOK
<1> SUFFICES ASSUME Init PROVE TypeOK
  OBVIOUS
<1>1. turn \in Turn
  BY EmptySeq DEF Init, Untouched, NoTurn, Turn
<1>2. /\ inbox \in Seq(Event) /\ seen \in Seq(Event)
      /\ outbox \in Seq(1 .. MaxFrames) /\ sent \in Seq(1 .. MaxFrames)
  BY EmptySeq DEF Init, Untouched
<1>3. messages \in 0 .. MaxMessages /\ frames \in 0 .. MaxFrames
  BY BoundsAssumption DEF Init, Untouched
<1>4. closer \in [Closers -> {"idle", "awaitReader", "awaitDrain", "closeTransport",
                             "exitManager", "done", "raised"}]
  BY DEF Init, Untouched
<1>5. heard = {} /\ completes = {} /\ cancelled = {} /\ cause = "none"
  BY DEF Init, Untouched
<1> QED
  BY <1>1, <1>2, <1>3, <1>4, <1>5 DEF Init, Untouched, TypeOK

\* Every step keeps them.
LEMMA StepTyped == TypeOK /\ [Next]_vars => TypeOK'
<1> SUFFICES ASSUME TypeOK, [Next]_vars PROVE TypeOK'
  OBVIOUS
<1>1. CASE Connect
  BY <1>1 DEF Connect, TypeOK, streamVars, readerVars, drainVars
<1>2. CASE Greet
  BY <1>2 DEF Greet, TypeOK, streamVars, closeVars
<1>3. CASE ReaderStep
  BY <1>3, MessageTyped, ReaderEndsTyped DEF ReaderStep
<1>4. CASE SendAudio \/ DrainStep
  BY <1>4, DrainTyped
<1>5. CASE \E c \in Closers : CloseBegin(c) \/ CloseStep(c)
  BY <1>5, CloseBeginTyped, CloseStepTyped
<1>6. CASE Deliver
  <2>1. inbox' \in Seq(Event) /\ seen' \in Seq(Event)
    BY <1>6, HeadMoved DEF Deliver, TypeOK
  <2>2. consumer' \in {"iterating", "ended"}
    BY <1>6 DEF Deliver, After
  <2> QED BY <1>6, <2>1, <2>2 DEF Deliver, TypeOK, readerVars, drainVars, closeVars
<1>7. CASE UNCHANGED vars
  BY <1>7 DEF vars, TypeOK, streamVars, readerVars, drainVars, closeVars
<1> QED BY <1>1, <1>2, <1>3, <1>4, <1>5, <1>6, <1>7 DEF Next

\* Every variable has its type in every reachable state.
THEOREM TypeCorrect == Spec => []TypeOK
  BY InitTyped, StepTyped, PTL DEF Spec

-----------------------------------------------------------------------------
(* What a step does to the stream.                                         *)

\* A step translates a message, delivers an event, or at most emits the Closed.
LEMMA StepKinds ==
    [Next]_vars =>
        \/ \E m \in Shapes : ReaderMessage(m)
        \/ Deliver
        \/ /\ UNCHANGED <<seen, consumer, messages, heard, completes>>
           /\ \/ \E reason \in Reason : EmitClosed(reason) /\ FirstCause(reason)
              \/ UNCHANGED <<streamVars, cause>>
<1> SUFFICES ASSUME [Next]_vars, ~ Deliver, \A m \in Shapes : ~ ReaderMessage(m)
             PROVE  /\ UNCHANGED <<seen, consumer, messages, heard, completes>>
                    /\ \/ \E reason \in Reason : EmitClosed(reason) /\ FirstCause(reason)
                       \/ UNCHANGED <<streamVars, cause>>
  OBVIOUS
<1>1. CASE ReaderTurnEnds \/ ReaderFails \/ ReaderCancelled
  BY <1>1 DEF ReaderTurnEnds, ReaderFails, ReaderCancelled, ReaderEnds, Reason
<1>2. CASE SendAudio \/ DrainStep
  BY <1>2 DEF SendAudio, DrainStep, DrainTakes, DrainSent, DrainFails, DrainCancelled,
              Reason, readerVars
<1>3. CASE \E c \in Closers : CloseBegin(c) \/ CloseStep(c)
  BY <1>3 DEF CloseBegin, CloseBeginCore, DecideReason, CloseStep, CloseReaderStopped,
              CloseDrainStopped, CloseTransport, CloseManager, CloseRaises, CloseFrame,
              Reason, readerVars
<1>4. CASE Connect \/ Greet \/ UNCHANGED vars
  BY <1>4 DEF Connect, Greet, vars, readerVars
<1> QED BY <1>1, <1>2, <1>3, <1>4 DEF Next, ReaderStep

\* The first _emit_closed puts the Closed behind the last that was said.
LEMMA EmitGrows ==
    ASSUME TypeOK, ~ closed, NEW reason \in Reason,
           EmitClosed(reason), FirstCause(reason), seen' = seen
    PROVE  \E last \in Seq(Said) : Stream' = Append(Stream \o last, Closed(reason))
<1>1. PICK last \in Seq(Said) : inbox' = (inbox \o last) \o <<Closed(reason)>>
  BY EmitClosedTyped
<1> DEFINE e == Closed(reason)
<1>2. e \in Event /\ last \in Seq(Event) /\ seen \in Seq(Event) /\ inbox \in Seq(Event)
  BY DEF Event, Closed, TypeOK
<1>3. Stream' = seen \o ((inbox \o last) \o <<e>>)
  BY <1>1 DEF Stream
<1> HIDE DEF e
<1>4. (inbox \o last) \o <<e>> = Append(inbox \o last, e)
  BY <1>2
<1>5. seen \o Append(inbox \o last, e) = Append(seen \o (inbox \o last), e)
  BY <1>2, AppendMoved
<1>6. seen \o (inbox \o last) = (seen \o inbox) \o last
  BY <1>2, ConcatAssociative
<1>7. Stream' = Append((seen \o inbox) \o last, e)
  BY <1>3, <1>4, <1>5, <1>6
<1> QED BY <1>7 DEF Stream, e

\* A message puts what it was translated to behind the stream.
LEMMA MessageGrows ==
    ASSUME TypeOK, NEW m \in Shapes, ReaderMessage(m)
    PROVE  \E said \in Seq(Said) : Stream' = Stream \o said
<1>1. PICK said \in Seq(Said) : inbox' = inbox \o said
  BY MessageTyped
<1>2. seen' = seen /\ seen \in Seq(Event) /\ inbox \in Seq(Event) /\ said \in Seq(Event)
  BY DEF ReaderMessage, TypeOK, Event
<1>3. Stream' = (seen \o inbox) \o said
  BY <1>1, <1>2, ConcatAssociative DEF Stream
<1> QED BY <1>3 DEF Stream

\* A delivery moves the stream's head and nothing of the stream.
LEMMA DeliverKeeps ==
    ASSUME TypeOK, Deliver
    PROVE  /\ Stream' = Stream
           /\ UNCHANGED <<turn, closed, cause, messages, heard, completes>>
<1>1. /\ seen' = Append(seen, Head(inbox)) /\ inbox' = Tail(inbox) /\ inbox # <<>>
      /\ UNCHANGED <<turn, closed, cause, messages, heard, completes>>
  BY DEF Deliver, readerVars
<1>2. seen \in Seq(Event) /\ inbox \in Seq(Event)
  BY DEF TypeOK
<1>3. Append(seen, Head(inbox)) \o Tail(inbox) = seen \o inbox
  BY <1>1, <1>2, HeadMoved
<1> QED BY <1>1, <1>3 DEF Stream

-----------------------------------------------------------------------------
(* close() stops the tasks before it touches the socket.                   *)

(* A cancelled task has not stopped yet, and a closer that waits no more   *)
(* has seen the tasks stop, which they do for good.                        *)
Stopping ==
    /\ opening \in {"connecting", "greeting"} => reader = "none" /\ drain = "none"
    /\ "reader" \in cancelled => reader = "receiving"
    /\ "drain" \in cancelled => drain \in {"waiting", "sending"}
    /\ \A c \in Closers :
          /\ closer[c] \in {"awaitDrain", "closeTransport", "exitManager"} => reader = "done"
          /\ closer[c] \in {"closeTransport", "exitManager"} => drain = "done"
    /\ transport = "closed" => reader = "done" /\ drain = "done"

\* Every step keeps Stopping.
LEMMA StoppingStep == TypeOK /\ Stopping /\ [Next]_vars => Stopping'
<1> SUFFICES ASSUME TypeOK, Stopping, [Next]_vars PROVE Stopping'
  OBVIOUS
<1>1. CASE Connect
  BY <1>1 DEF Connect, Stopping, readerVars, drainVars
<1>2. CASE Greet
  BY <1>2 DEF Greet, Stopping, closeVars
<1>3. CASE ReaderStep
  <2>1. CASE ReaderCancelled
    BY <1>3, <2>1 DEF ReaderCancelled, ReaderEnds, Stopping, TypeOK, drainVars, closeVars
  <2>2. CASE \E m \in Shapes : ReaderMessage(m)
    BY <2>2 DEF ReaderMessage, ReaderRuns, Stopping, drainVars, closeVars
  <2>3. CASE ReaderTurnEnds \/ ReaderFails
    BY <2>3 DEF ReaderTurnEnds, ReaderFails, ReaderEnds, ReaderRuns, Stopping,
                drainVars, closeVars
  <2> QED BY <1>3, <2>1, <2>2, <2>3 DEF ReaderStep
<1>4. CASE SendAudio
  BY <1>4 DEF SendAudio, Stopping, readerVars, closeVars
<1>5. CASE DrainStep
  <2>1. CASE DrainTakes \/ DrainSent
    BY <2>1 DEF DrainTakes, DrainSent, Stopping, readerVars, closeVars
  <2>2. CASE DrainFails
    BY <2>2 DEF DrainFails, DrainRuns, Stopping, readerVars, closeVars
  <2>3. CASE DrainCancelled
    BY <2>3 DEF DrainCancelled, Stopping, TypeOK, readerVars, closeVars
  <2> QED BY <1>5, <2>1, <2>2, <2>3 DEF DrainStep
<1>6. ASSUME NEW c \in Closers, CloseBegin(c) PROVE Stopping'
  <2>1. /\ reader' = reader /\ drain' = drain /\ transport' = transport /\ opening' = opening
        /\ cancelled' \subseteq cancelled \cup Alive
        /\ \A d \in Closers : closer'[d] = closer[d] \/ closer'[d] \in {"done", "awaitReader"}
    BY <1>6 DEF CloseBegin, CloseBeginCore, ToStop, TasksFirst, TypeOK, readerVars
  <2>2. /\ "reader" \in cancelled' => reader = "receiving"
        /\ "drain" \in cancelled' => drain \in {"waiting", "sending"}
    BY <2>1 DEF Alive, Stopping
  <2> QED BY <2>1, <2>2 DEF Stopping
<1>7. ASSUME NEW c \in Closers, CloseStep(c) PROVE Stopping'
  <2>1. /\ reader' = reader /\ drain' = drain /\ opening' = opening /\ cancelled' = cancelled
    BY <1>7 DEF CloseStep, CloseReaderStopped, CloseDrainStopped, CloseTransport,
                CloseManager, CloseRaises, CloseFrame, readerVars, drainVars
  <2>2. CASE CloseReaderStopped(c)
    BY <2>1, <2>2 DEF CloseReaderStopped, Stopping, TypeOK
  <2>3. CASE CloseDrainStopped(c)
    BY <2>1, <2>3 DEF CloseDrainStopped, Stopping, TypeOK
  <2>4. CASE CloseTransport(c)
    BY <2>1, <2>4 DEF CloseTransport, Stopping, TypeOK
  <2>5. CASE CloseManager(c)
    BY <2>1, <2>5 DEF CloseManager, Stopping, TypeOK
  <2>6. CASE CloseRaises(c)
    BY <2>1, <2>6 DEF CloseRaises, Stopping, TypeOK
  <2> QED BY <1>7, <2>2, <2>3, <2>4, <2>5, <2>6 DEF CloseStep
<1>8. CASE Deliver
  BY <1>8 DEF Deliver, Stopping, readerVars, drainVars, closeVars
<1>9. CASE UNCHANGED vars
  BY <1>9 DEF vars, Stopping, readerVars, drainVars, closeVars
<1> QED BY <1>1, <1>2, <1>3, <1>4, <1>5, <1>6, <1>7, <1>8, <1>9 DEF Next

(***************************************************************************)
(* The socket is closed only when both tasks are stopped, however many     *)
(* tasks call close() (live.py:232-238).                                   *)
(***************************************************************************)
THEOREM TasksStoppedFirstHolds == Spec => []TasksStoppedFirst
<1>1. Init => Stopping
  BY DEF Init, Untouched, Stopping
<1>2. TypeOK /\ Stopping => TasksStoppedFirst
  BY DEF TypeOK, Stopping, TasksStoppedFirst
<1> QED BY <1>1, <1>2, StoppingStep, TypeCorrect, PTL DEF Spec

-----------------------------------------------------------------------------
(* The caller's frames.                                                    *)

\* Every step keeps the frames in order.
LEMMA FramesStep == TypeOK /\ FramesInOrder /\ [Next]_vars => FramesInOrder'
<1> SUFFICES ASSUME TypeOK, FramesInOrder, [Next]_vars PROVE FramesInOrder'
  OBVIOUS
<1>1. /\ outbox \in Seq(1 .. MaxFrames) /\ sent \in Seq(1 .. MaxFrames)
  BY DEF TypeOK
<1>0. /\ frames \in 0 .. MaxFrames /\ MaxFrames \in Nat
      /\ sent \o outbox = [i \in 1 .. frames |-> i]
  BY BoundsAssumption DEF TypeOK, FramesInOrder
<1>2. CASE SendAudio
  <2>1. CASE closed
    BY <1>0, <1>2, <2>1 DEF SendAudio, Queued, FramesInOrder
  <2>2. CASE ~ closed
    <3>1. /\ frames' = frames + 1 /\ outbox' = Append(outbox, frames + 1) /\ sent' = sent
          /\ frames + 1 \in 1 .. MaxFrames
      BY <1>0, <1>2, <2>2 DEF SendAudio, Queued
    <3>2. sent \o Append(outbox, frames + 1) = Append(sent \o outbox, frames + 1)
      BY <1>1, <3>1, AppendMoved
    <3>3. Append([i \in 1 .. frames |-> i], frames + 1) = [i \in 1 .. frames + 1 |-> i]
      <4>1. [i \in 1 .. frames |-> i] \in Seq(Nat)
        BY <1>0
      <4> QED BY <1>0, <4>1
    <3> QED BY <1>0, <3>1, <3>2, <3>3 DEF FramesInOrder
  <2> QED BY <2>1, <2>2
<1>3. CASE DrainTakes
  <2>1. /\ outbox # <<>> /\ sent' = Append(sent, Head(outbox)) /\ outbox' = Tail(outbox)
        /\ frames' = frames
    BY <1>3 DEF DrainTakes, Taken
  <2>2. Append(sent, Head(outbox)) \o Tail(outbox) = sent \o outbox
    BY <1>1, <2>1, HeadMoved
  <2> QED BY <1>0, <2>1, <2>2 DEF FramesInOrder
<1>4. CASE UNCHANGED <<outbox, sent, frames>>
  BY <1>4 DEF FramesInOrder
<1>5. SendAudio \/ DrainTakes \/ UNCHANGED <<outbox, sent, frames>>
  BY DEF Next, vars, Connect, Greet, ReaderStep, ReaderMessage, ReaderTurnEnds, ReaderFails,
         ReaderCancelled, DrainStep, DrainSent, DrainFails, DrainCancelled, CloseBegin,
         CloseBeginCore, CloseStep, CloseReaderStopped, CloseDrainStopped, CloseTransport,
         CloseManager, CloseRaises, CloseFrame, Deliver, drainVars
<1> QED BY <1>2, <1>3, <1>4, <1>5

(***************************************************************************)
(* Caller audio reaches the socket in order, without a gap or a repeat     *)
(* (live.py:205-214, 322-337).                                             *)
(***************************************************************************)
THEOREM FramesInOrderHolds == Spec => []FramesInOrder
<1>1. Init => FramesInOrder
  <2> SUFFICES ASSUME Init PROVE FramesInOrder
    OBVIOUS
  <2>1. sent = <<>> /\ outbox = <<>> /\ frames = 0
    BY DEF Init, Untouched
  <2>2. <<>> \o <<>> = [i \in 1 .. 0 |-> i]
    OBVIOUS
  <2> QED BY <2>1, <2>2 DEF FramesInOrder
<1> QED BY <1>1, FramesStep, TypeCorrect, PTL DEF Spec

-----------------------------------------------------------------------------
(* The one Closed.                                                         *)

(* A stream with no Closed while the session is open, and with one Closed, *)
(* of the reason that came first, from then on.                            *)
Ended(stream, shut, why) ==
    /\ shut <=> why # "none"
    /\ ~ shut => \A i \in 1 .. Len(stream) : stream[i].kind # "closed"
    /\ shut => \E k \in 1 .. Len(stream) :
                  /\ stream[k].kind = "closed" /\ stream[k].reason = why
                  /\ \A i \in 1 .. Len(stream) : stream[i].kind = "closed" => i = k

\* Nothing that is said is a Closed.
LEMMA SaidNotClosed ==
    ASSUME NEW e \in Said
    PROVE  e.kind # "closed"
  BY DEF Said, Interrupted

\* What is said does not end a stream, whether it has ended or not.
LEMMA SaidKeepsEnded ==
    ASSUME NEW s \in Seq(Event), NEW t \in Seq(Said), NEW shut \in BOOLEAN, NEW why,
           Ended(s, shut, why)
    PROVE  Ended(s \o t, shut, why)
<1>1. /\ t \in Seq(Event) /\ Len(s) \in Nat /\ Len(t) \in Nat
      /\ Len(s \o t) = Len(s) + Len(t)
  BY DEF Event
<1>2. \A i \in 1 .. Len(s) : (s \o t)[i] = s[i]
  BY <1>1
<1>3. ASSUME NEW i \in 1 .. Len(s \o t), ~ (i <= Len(s))
      PROVE  (s \o t)[i].kind # "closed"
  <2>1. i - Len(s) \in 1 .. Len(t) /\ (s \o t)[i] = t[i - Len(s)]
    BY <1>1, <1>3
  <2>2. t[i - Len(s)] \in Said
    BY <2>1, ElementOfSeq
  <2> QED BY <2>1, <2>2, SaidNotClosed
<1>4. CASE ~ shut
  BY <1>1, <1>2, <1>3, <1>4 DEF Ended
<1>5. CASE shut
  <2>1. PICK k \in 1 .. Len(s) :
           /\ s[k].kind = "closed" /\ s[k].reason = why
           /\ \A i \in 1 .. Len(s) : s[i].kind = "closed" => i = k
    BY <1>5 DEF Ended
  <2>2. k \in 1 .. Len(s \o t) /\ (s \o t)[k] = s[k]
    BY <1>1, <1>2
  <2>3. ASSUME NEW i \in 1 .. Len(s \o t), (s \o t)[i].kind = "closed" PROVE i = k
    <3>1. i \in 1 .. Len(s)
      BY <1>1, <1>3, <2>3
    <3> QED BY <1>2, <2>1, <2>3, <3>1
  <2> QED BY <1>5, <2>1, <2>2, <2>3 DEF Ended
<1> QED BY <1>4, <1>5

\* The Closed ends a stream that was open.
LEMMA ClosedEnds ==
    ASSUME NEW s \in Seq(Event), NEW why, Ended(s, FALSE, why), NEW reason \in Reason
    PROVE  Ended(Append(s, Closed(reason)), TRUE, reason)
<1> DEFINE e == Closed(reason)
           n == Len(s) + 1
<1>1. e \in Event /\ e.kind = "closed" /\ e.reason = reason /\ reason # "none"
  BY DEF Closed, Event, Reason
<1> HIDE DEF e
<1>2. /\ Len(s) \in Nat /\ Len(Append(s, e)) = n /\ Append(s, e)[n] = e
      /\ \A i \in 1 .. Len(s) : Append(s, e)[i] = s[i]
  BY <1>1, AppendProperties
<1>3. \A i \in 1 .. n : i = n \/ i \in 1 .. Len(s)
  BY <1>2
<1>4. \A i \in 1 .. n : Append(s, e)[i].kind = "closed" => i = n
  BY <1>2, <1>3 DEF Ended
<1>5. Ended(Append(s, e), TRUE, reason)
  BY <1>1, <1>2, <1>4 DEF Ended
<1> QED BY <1>5 DEF e

SessionEnded == Ended(Stream, closed, cause)

\* What _emit_closed does to the stream, whoever calls it.
LEMMA EmitEnds ==
    ASSUME TypeOK, SessionEnded, NEW reason \in Reason,
           EmitClosed(reason), FirstCause(reason), seen' = seen
    PROVE  SessionEnded'
<1>1. CASE closed
  <2>1. inbox' = inbox /\ closed' = closed /\ cause' = cause
    BY <1>1 DEF EmitClosed, FirstCause, streamVars, SessionEnded, Ended
  <2> QED BY <2>1 DEF SessionEnded, Stream
<1>2. CASE ~ closed
  <2>1. PICK last \in Seq(Said) : Stream' = Append(Stream \o last, Closed(reason))
    BY <1>2, EmitGrows
  <2>2. closed' = TRUE /\ cause' = reason /\ closed = FALSE
    BY <1>2 DEF EmitClosed, FirstCause, SessionEnded, Ended, TypeOK
  <2>3. Stream \in Seq(Event) /\ last \in Seq(Event)
    BY DEF TypeOK, Stream, Event
  <2>4. Stream \o last \in Seq(Event)
    BY <2>3
  <2>5. Ended(Stream, FALSE, cause)
    BY <2>2 DEF SessionEnded
  <2>6. Ended(Stream \o last, FALSE, cause)
    BY <2>3, <2>5, SaidKeepsEnded
  <2>7. Ended(Append(Stream \o last, Closed(reason)), TRUE, reason)
    BY <2>4, <2>6, ClosedEnds
  <2> QED BY <2>1, <2>2, <2>7 DEF SessionEnded
<1> QED BY <1>1, <1>2

\* Every step keeps SessionEnded.
LEMMA EndedStep == TypeOK /\ SessionEnded /\ [Next]_vars => SessionEnded'
<1> SUFFICES ASSUME TypeOK, SessionEnded, [Next]_vars PROVE SessionEnded'
  OBVIOUS
<1>1. CASE \E reason \in Reason : EmitClosed(reason) /\ FirstCause(reason) /\ seen' = seen
  BY <1>1, EmitEnds
<1>2. CASE UNCHANGED <<seen, inbox, closed, cause>>
  BY <1>2 DEF SessionEnded, Stream
<1>3. ASSUME NEW m \in Shapes, ReaderMessage(m) PROVE SessionEnded'
  <2>1. PICK said \in Seq(Said) : Stream' = Stream \o said
    BY <1>3, MessageGrows
  <2>2. closed' = closed /\ cause' = cause /\ Stream \in Seq(Event) /\ closed \in BOOLEAN
    BY <1>3 DEF ReaderMessage, TypeOK, Stream
  <2>3. Ended(Stream \o said, closed, cause)
    BY <2>2, SaidKeepsEnded DEF SessionEnded
  <2> QED BY <2>1, <2>2, <2>3 DEF SessionEnded
<1>4. CASE Deliver
  BY <1>4, DeliverKeeps DEF SessionEnded
<1> QED BY <1>1, <1>2, <1>3, <1>4, StepKinds DEF streamVars

\* A session that has not begun has not ended.
LEMMA InitEnded == Init => SessionEnded
<1> SUFFICES ASSUME Init PROVE SessionEnded
  OBVIOUS
<1>1. seen = <<>> /\ inbox = <<>> /\ closed = FALSE /\ cause = "none"
  BY DEF Init, Untouched
<1>2. Len(seen \o inbox) = 0
  BY <1>1
<1> QED BY <1>1, <1>2 DEF SessionEnded, Stream, Ended

\* SessionEnded in every reachable state.
LEMMA AlwaysEnded == Spec => [](TypeOK /\ SessionEnded)
  BY InitEnded, EndedStep, TypeCorrect, PTL DEF Spec

(***************************************************************************)
(* One Closed per session however its endings race: the local close, the   *)
(* reader's exits and a failed send (live.py:255-266).                     *)
(***************************************************************************)
THEOREM OneClosedHolds == Spec => []OneClosed
<1>1. TypeOK /\ SessionEnded => OneClosed
  <2> SUFFICES ASSUME TypeOK, SessionEnded PROVE OneClosed
    OBVIOUS
  <2>1. DOMAIN Stream = 1 .. Len(Stream) /\ closed \in BOOLEAN
    BY DEF TypeOK, Stream
  <2>2. CASE ~ closed
    <3>1. ClosedAt = {}
      BY <2>1, <2>2 DEF SessionEnded, Ended, ClosedAt
    <3> QED BY <2>2, <3>1, FS_EmptySet DEF OneClosed
  <2>3. CASE closed
    <3>1. PICK k \in 1 .. Len(Stream) :
             /\ Stream[k].kind = "closed"
             /\ \A i \in 1 .. Len(Stream) : Stream[i].kind = "closed" => i = k
      BY <2>3 DEF SessionEnded, Ended
    <3>2. ClosedAt = {k}
      BY <2>1, <3>1 DEF ClosedAt
    <3> QED BY <2>3, <3>2, FS_Singleton DEF OneClosed
  <2> QED BY <2>2, <2>3
<1> QED BY <1>1, AlwaysEnded, PTL

(***************************************************************************)
(* The reason names what ended the session first: a local hang-up is never *)
(* labelled a remote failure by the reader it cancels (live.py:232-238).   *)
(***************************************************************************)
THEOREM EndingNamedHolds == Spec => []EndingNamed
<1>1. TypeOK /\ SessionEnded => EndingNamed
  <2> SUFFICES ASSUME TypeOK, SessionEnded, NEW i \in ClosedAt
               PROVE  Stream[i].reason = cause
    BY DEF EndingNamed
  <2>1. i \in 1 .. Len(Stream) /\ Stream[i].kind = "closed" /\ closed \in BOOLEAN
    BY DEF ClosedAt, TypeOK, Stream
  <2>2. closed
    BY <2>1 DEF SessionEnded, Ended
  <2>3. PICK k \in 1 .. Len(Stream) :
           /\ Stream[k].kind = "closed" /\ Stream[k].reason = cause
           /\ \A j \in 1 .. Len(Stream) : Stream[j].kind = "closed" => j = k
    BY <2>2 DEF SessionEnded, Ended
  <2> QED BY <2>1, <2>3
<1> QED BY <1>1, AlwaysEnded, PTL

-----------------------------------------------------------------------------
(* The refinement of EventStream.                                          *)

Unended(s) == \A i \in 1 .. Len(s) : s[i].kind # "closed"

EndsAt(s, k) ==
    /\ k \in 1 .. Len(s) /\ s[k].kind = "closed"
    /\ \A i \in 1 .. Len(s) : s[i].kind = "closed" => i = k

(* What is left for the consumer: no Closed before the session ends, and   *)
(* one from then on until it has been given.                               *)
Promise ==
    /\ consumer = "ended" => closed
    /\ ~ closed => Unended(inbox)
    /\ closed /\ consumer = "iterating" => \E k \in 1 .. Len(inbox) : EndsAt(inbox, k)

\* A queue without a Closed is awaited whole.
LEMMA UpToNone ==
    ASSUME NEW s \in Seq(Event), Unended(s)
    PROVE  UpToClosed(s) = s
<1>1. ClosedIn(s) = {}
  BY DEF ClosedIn, Unended
<1> QED BY <1>1 DEF UpToClosed

\* One with a Closed is awaited up to it.
LEMMA UpToEnd ==
    ASSUME NEW s \in Seq(Event), NEW k \in 1 .. Len(s), EndsAt(s, k)
    PROVE  UpToClosed(s) = SubSeq(s, 1, k)
<1>1. ClosedIn(s) = {k}
  BY DEF ClosedIn, EndsAt
<1>2. (CHOOSE i \in ClosedIn(s) : TRUE) = k
  BY <1>1
<1> QED BY <1>1, <1>2 DEF UpToClosed

\* A queue is a prefix of itself with more behind it.
LEMMA Prefix ==
    ASSUME NEW S, NEW s \in Seq(S), NEW t \in Seq(S)
    PROVE  Promised!IsPrefix(s, s \o t)
<1>1. /\ Len(s) \in Nat /\ Len(t) \in Nat /\ Len(s \o t) = Len(s) + Len(t)
      /\ \A i \in 1 .. Len(s) : (s \o t)[i] = s[i]
  OBVIOUS
<1>2. SubSeq(s, 1, Len(s)) = s
  BY <1>1
<1>3. SubSeq(s \o t, 1, Len(s)) = s
  <2> DEFINE a == SubSeq(s \o t, 1, Len(s))
  <2>1. a \in Seq(S) /\ Len(a) = Len(s) /\ \A i \in 1 .. Len(s) : a[i] = s[i]
    BY <1>1
  <2> HIDE DEF a
  <2>2. a = s
    BY <1>1, <2>1, SeqEqual
  <2> QED BY <2>2 DEF a
<1> QED BY <1>1, <1>2, <1>3 DEF Promised!IsPrefix

\* What is said does not end what has not ended.
LEMMA UnendedSaid ==
    ASSUME NEW s \in Seq(Event), NEW t \in Seq(Said), Unended(s)
    PROVE  Unended(s \o t)
<1>1. /\ t \in Seq(Event) /\ Len(s) \in Nat /\ Len(t) \in Nat
      /\ Len(s \o t) = Len(s) + Len(t)
  BY DEF Event
<1>2. \A i \in 1 .. Len(s) : (s \o t)[i] = s[i]
  BY <1>1
<1>3. ASSUME NEW i \in 1 .. Len(s \o t), ~ (i <= Len(s))
      PROVE  (s \o t)[i].kind # "closed"
  <2>1. i - Len(s) \in 1 .. Len(t) /\ (s \o t)[i] = t[i - Len(s)]
    BY <1>1, <1>3
  <2>2. t[i - Len(s)] \in Said
    BY <2>1, ElementOfSeq
  <2> QED BY <2>1, <2>2, SaidNotClosed
<1> QED BY <1>1, <1>2, <1>3 DEF Unended

\* What comes behind the Closed does not move it, nor what stands before it.
LEMMA EndStaysPut ==
    ASSUME NEW s \in Seq(Event), NEW t \in Seq(Said), NEW k \in 1 .. Len(s), EndsAt(s, k)
    PROVE  /\ k \in 1 .. Len(s \o t) /\ EndsAt(s \o t, k)
           /\ SubSeq(s \o t, 1, k) = SubSeq(s, 1, k)
<1>1. /\ t \in Seq(Event) /\ Len(s) \in Nat /\ Len(t) \in Nat
      /\ Len(s \o t) = Len(s) + Len(t)
  BY DEF Event
<1>2. \A i \in 1 .. Len(s) : (s \o t)[i] = s[i]
  BY <1>1
<1>3. ASSUME NEW i \in 1 .. Len(s \o t), ~ (i <= Len(s))
      PROVE  (s \o t)[i].kind # "closed"
  <2>1. i - Len(s) \in 1 .. Len(t) /\ (s \o t)[i] = t[i - Len(s)]
    BY <1>1, <1>3
  <2>2. t[i - Len(s)] \in Said
    BY <2>1, ElementOfSeq
  <2> QED BY <2>1, <2>2, SaidNotClosed
<1>4. k \in 1 .. Len(s \o t)
  BY <1>1
<1>5. EndsAt(s \o t, k)
  BY <1>1, <1>2, <1>3, <1>4 DEF EndsAt
<1>6. SubSeq(s \o t, 1, k) = SubSeq(s, 1, k)
  BY <1>1, <1>2, <1>4
<1> QED BY <1>4, <1>5, <1>6

\* The Closed is put behind everything that waits.
LEMMA EndPut ==
    ASSUME NEW s \in Seq(Event), Unended(s), NEW reason \in Reason
    PROVE  LET t == Append(s, Closed(reason))
           IN  /\ t \in Seq(Event) /\ Len(t) \in 1 .. Len(t)
               /\ EndsAt(t, Len(t)) /\ SubSeq(t, 1, Len(t)) = t
<1> DEFINE e == Closed(reason)
           n == Len(s) + 1
<1>1. e \in Event /\ e.kind = "closed"
  BY DEF Closed, Event
<1> HIDE DEF e
<1>2. /\ Append(s, e) \in Seq(Event) /\ Len(s) \in Nat
      /\ Len(Append(s, e)) = n /\ Append(s, e)[n] = e
      /\ \A i \in 1 .. Len(s) : Append(s, e)[i] = s[i]
  BY <1>1, AppendProperties
<1>3. \A i \in 1 .. n : i = n \/ i \in 1 .. Len(s)
  BY <1>2
<1>4. \A i \in 1 .. n : Append(s, e)[i].kind = "closed" => i = n
  BY <1>2, <1>3 DEF Unended
<1>5. EndsAt(Append(s, e), n) /\ n \in 1 .. n
  BY <1>1, <1>2, <1>4 DEF EndsAt
<1>6. SubSeq(Append(s, e), 1, n) = Append(s, e)
  BY <1>2
<1>7. /\ Append(s, e) \in Seq(Event) /\ Len(Append(s, e)) \in 1 .. Len(Append(s, e))
      /\ EndsAt(Append(s, e), Len(Append(s, e)))
      /\ SubSeq(Append(s, e), 1, Len(Append(s, e))) = Append(s, e)
  BY <1>2, <1>5, <1>6
<1> QED BY <1>7 DEF e

\* Taking the head of an inbox that has not ended.
LEMMA UnendedTail ==
    ASSUME NEW s \in Seq(Event), s # <<>>, Unended(s)
    PROVE  Unended(Tail(s)) /\ Head(s).kind # "closed"
<1>1. /\ Len(s) \in Nat \ {0} /\ Head(s) = s[1] /\ Len(Tail(s)) = Len(s) - 1
      /\ \A i \in 1 .. Len(s) - 1 : Tail(s)[i] = s[i + 1]
  OBVIOUS
<1> QED BY <1>1 DEF Unended

\* Taking the head of one that has: the end moves up, or is what was taken.
LEMMA EndMovesUp ==
    ASSUME NEW s \in Seq(Event), NEW k \in 1 .. Len(s), EndsAt(s, k)
    PROVE  /\ SubSeq(s, 1, k) # <<>> /\ Head(SubSeq(s, 1, k)) = Head(s)
           /\ k = 1 => Head(s).kind = "closed" /\ Tail(SubSeq(s, 1, k)) = <<>>
           /\ k # 1 => /\ Head(s).kind # "closed"
                       /\ k - 1 \in 1 .. Len(Tail(s)) /\ EndsAt(Tail(s), k - 1)
                       /\ SubSeq(Tail(s), 1, k - 1) = Tail(SubSeq(s, 1, k))
<1>1. /\ Len(s) \in Nat \ {0} /\ Head(s) = s[1] /\ Len(Tail(s)) = Len(s) - 1
      /\ \A i \in 1 .. Len(s) - 1 : Tail(s)[i] = s[i + 1]
      /\ s # <<>> /\ Tail(s) \in Seq(Event)
  OBVIOUS
<1>2. SubSeq(s, 1, k) # <<>> /\ Head(SubSeq(s, 1, k)) = Head(s)
  BY <1>1
<1>3. CASE k = 1
  <2>1. Head(s).kind = "closed"
    BY <1>1, <1>3 DEF EndsAt
  <2>2. Tail(SubSeq(s, 1, k)) = <<>>
    BY <1>1, <1>3
  <2> QED BY <1>2, <1>3, <2>1, <2>2
<1>4. CASE k # 1
  <2>1. k - 1 \in 1 .. Len(Tail(s)) /\ Head(s).kind # "closed"
    BY <1>1, <1>4 DEF EndsAt
  <2>2. EndsAt(Tail(s), k - 1)
    BY <1>1, <1>4, <2>1 DEF EndsAt
  <2>3. SubSeq(Tail(s), 1, k - 1) = Tail(SubSeq(s, 1, k))
    <3> DEFINE a == SubSeq(Tail(s), 1, k - 1)
               b == Tail(SubSeq(s, 1, k))
    <3>1. a \in Seq(Event) /\ Len(a) = k - 1 /\ \A i \in 1 .. k - 1 : a[i] = s[i + 1]
      BY <1>1, <1>4, <2>1
    <3>2. b \in Seq(Event) /\ Len(b) = k - 1 /\ \A i \in 1 .. k - 1 : b[i] = s[i + 1]
      <4>1. /\ SubSeq(s, 1, k) \in Seq(Event) /\ Len(SubSeq(s, 1, k)) = k
            /\ \A i \in 1 .. k : SubSeq(s, 1, k)[i] = s[i]
        BY <1>1
      <4> QED BY <1>4, <4>1
    <3> HIDE DEF a, b
    <3>3. a = b
      BY <1>4, <3>1, <3>2, SeqEqual
    <3> QED BY <3>3 DEF a, b
  <2> QED BY <1>2, <1>4, <2>1, <2>2, <2>3
<1> QED BY <1>3, <1>4

StreamNext == [Promised!Emit \/ Promised!End \/ Promised!Deliver]_(Promised!streamVars)

\* _emit_closed is the End of the stream, or nothing.
LEMMA EmitClosedStep ==
    ASSUME TypeOK, Promise, NEW reason \in Reason, EmitClosed(reason), FirstCause(reason),
           seen' = seen, consumer' = consumer
    PROVE  Promise' /\ StreamNext
<1>1. CASE closed
  <2>1. inbox' = inbox /\ closed' = closed
    BY <1>1 DEF EmitClosed, streamVars
  <2>2. Awaited' = Awaited
    BY <2>1 DEF Awaited, UpToClosed, ClosedIn
  <2> QED BY <2>1, <2>2 DEF Promise, Unended, EndsAt, StreamNext, Promised!streamVars
<1>2. CASE ~ closed
  <2>1. PICK last \in Seq(Said) : inbox' = (inbox \o last) \o <<Closed(reason)>>
    BY <1>2, EmitClosedTyped
  <2>2. closed' /\ closed = FALSE /\ consumer = "iterating" /\ Unended(inbox)
    BY <1>2, EmitClosedTyped DEF Promise, TypeOK
  <2> DEFINE e == Closed(reason)
             more == last \o <<e>>
             t == Append(inbox \o last, e)
  <2>3. /\ inbox \in Seq(Event) /\ last \in Seq(Event) /\ e \in Event
        /\ inbox \o last \in Seq(Event)
    <3>1. inbox \in Seq(Event) /\ last \in Seq(Event) /\ e \in Event
      BY DEF TypeOK, Event, Closed
    <3> QED BY <3>1
  <2>4. Unended(inbox \o last)
    BY <2>2, <2>3, UnendedSaid
  <2>5. /\ t \in Seq(Event) /\ Len(t) \in 1 .. Len(t)
        /\ EndsAt(t, Len(t)) /\ SubSeq(t, 1, Len(t)) = t
    BY <2>3, <2>4, EndPut
  <2> HIDE DEF e
  <2>6. inbox' = t /\ t = inbox \o more /\ more \in Seq(Event)
    <3>1. (inbox \o last) \o <<e>> = t
      BY <2>3
    <3>2. (inbox \o last) \o <<e>> = inbox \o (last \o <<e>>)
      BY <2>3, ConcatAssociative
    <3>3. last \o <<e>> \in Seq(Event)
      BY <2>3
    <3> QED BY <2>1, <3>1, <3>2, <3>3 DEF e
  <2> HIDE DEF t, more
  <2>7. Promise'
    BY <2>2, <2>5, <2>6 DEF Promise
  <2>8. Awaited = inbox /\ Awaited' = t
    <3>1. UpToClosed(inbox) = inbox
      BY <2>2, <2>3, UpToNone
    <3>2. UpToClosed(t) = t
      BY <2>5, UpToEnd
    <3> QED BY <2>2, <2>6, <3>1, <3>2 DEF Awaited
  <2>9. Promised!End
    <3>1. Promised!IsPrefix(inbox, t)
      BY <2>3, <2>6, Prefix
    <3>2. t # <<>> /\ DOMAIN t = 1 .. Len(t)
      BY <2>5
    <3>3. \A i \in DOMAIN t : t[i].kind = "closed" <=> i = Len(t)
      BY <2>5, <3>2 DEF EndsAt
    <3> QED
      BY <2>2, <2>8, <3>1, <3>2, <3>3 DEF Promised!End, Promised!IsClosed
  <2> QED BY <2>7, <2>9 DEF StreamNext
<1> QED BY <1>1, <1>2

\* A message emits what it was translated to, until the stream has ended.
LEMMA MessageStep ==
    ASSUME TypeOK, Promise, NEW m \in Shapes, ReaderMessage(m)
    PROVE  Promise' /\ StreamNext
<1>1. PICK said \in Seq(Said) : inbox' = inbox \o said
  BY MessageTyped
<1>2. seen' = seen /\ closed' = closed /\ consumer' = consumer
  BY DEF ReaderMessage
<1>3. inbox \in Seq(Event) /\ said \in Seq(Event) /\ inbox \o said \in Seq(Event)
  <2>1. inbox \in Seq(Event) /\ said \in Seq(Event)
    BY DEF TypeOK, Event
  <2> QED BY <2>1
<1>4. CASE consumer = "ended"
  BY <1>2, <1>4 DEF Promise, Awaited, StreamNext, Promised!streamVars
<1>5. CASE consumer = "iterating" /\ ~ closed
  <2>1. Unended(inbox) /\ Unended(inbox \o said)
    BY <1>3, <1>5, UnendedSaid DEF Promise
  <2>2. Awaited = inbox /\ Awaited' = inbox \o said
    BY <1>1, <1>2, <1>3, <1>5, <2>1, UpToNone DEF Awaited
  <2>3. Promised!IsPrefix(inbox, inbox \o said)
    BY <1>3, Prefix
  <2>4. \A i \in DOMAIN (inbox \o said) : (inbox \o said)[i].kind # "closed"
    <3>1. DOMAIN (inbox \o said) = 1 .. Len(inbox \o said)
      BY <1>3
    <3> QED BY <2>1, <3>1 DEF Unended
  <2>5. Promised!Emit
    BY <1>2, <1>5, <2>2, <2>3, <2>4 DEF Promised!Emit, Promised!IsClosed
  <2> QED BY <1>1, <1>2, <1>5, <2>1, <2>5 DEF Promise, StreamNext
<1>6. CASE consumer = "iterating" /\ closed
  <2>1. PICK k \in 1 .. Len(inbox) : EndsAt(inbox, k)
    BY <1>6 DEF Promise
  <2>2. /\ k \in 1 .. Len(inbox \o said) /\ EndsAt(inbox \o said, k)
        /\ SubSeq(inbox \o said, 1, k) = SubSeq(inbox, 1, k)
    BY <1>3, <2>1, EndStaysPut
  <2>3. UpToClosed(inbox) = SubSeq(inbox, 1, k)
    BY <1>3, <2>1, UpToEnd
  <2>4. UpToClosed(inbox \o said) = SubSeq(inbox \o said, 1, k)
    BY <1>3, <2>2, UpToEnd
  <2>5. Awaited' = Awaited
    BY <1>1, <1>2, <2>2, <2>3, <2>4 DEF Awaited
  <2> QED
    BY <1>1, <1>2, <1>6, <2>2, <2>5 DEF Promise, StreamNext, Promised!streamVars
<1> QED BY <1>4, <1>5, <1>6 DEF TypeOK

\* The consumer is given the head of what is awaited.
LEMMA DeliverStep ==
    ASSUME TypeOK, Promise, Deliver
    PROVE  Promise' /\ StreamNext
<1>1. /\ seen' = Append(seen, Head(inbox)) /\ inbox' = Tail(inbox) /\ inbox # <<>>
      /\ consumer = "iterating" /\ closed' = closed
      /\ consumer' = After(Head(inbox))
  BY DEF Deliver
<1>2. inbox \in Seq(Event) /\ Tail(inbox) \in Seq(Event)
  <2>1. inbox \in Seq(Event)
    BY DEF TypeOK
  <2> QED BY <1>1, <2>1
<1>3. CASE ~ closed
  <2>1. Unended(inbox) /\ Unended(Tail(inbox)) /\ Head(inbox).kind # "closed"
    BY <1>1, <1>2, <1>3, UnendedTail DEF Promise
  <2>2. Awaited = inbox /\ Awaited' = Tail(inbox) /\ consumer' = "iterating"
    BY <1>1, <1>2, <2>1, UpToNone DEF Awaited, After
  <2>3. Promised!Deliver
    BY <1>1, <2>2 DEF Promised!Deliver
  <2> QED BY <1>1, <1>3, <2>1, <2>2, <2>3 DEF Promise, StreamNext
<1>4. CASE closed
  <2>1. PICK k \in 1 .. Len(inbox) : EndsAt(inbox, k)
    BY <1>1, <1>4 DEF Promise
  <2>2. /\ SubSeq(inbox, 1, k) # <<>> /\ Head(SubSeq(inbox, 1, k)) = Head(inbox)
        /\ k = 1 => Head(inbox).kind = "closed" /\ Tail(SubSeq(inbox, 1, k)) = <<>>
        /\ k # 1 => /\ Head(inbox).kind # "closed"
                    /\ k - 1 \in 1 .. Len(Tail(inbox)) /\ EndsAt(Tail(inbox), k - 1)
                    /\ SubSeq(Tail(inbox), 1, k - 1) = Tail(SubSeq(inbox, 1, k))
    BY <1>2, <2>1, EndMovesUp
  <2>3. Awaited = SubSeq(inbox, 1, k)
    BY <1>1, <1>2, <2>1, UpToEnd DEF Awaited
  <2>4. Awaited' = Tail(SubSeq(inbox, 1, k)) /\ Promise'
    <3>1. CASE k = 1
      BY <1>1, <1>4, <2>2, <3>1 DEF Awaited, After, Promise
    <3>2. CASE k # 1
      <4>1. consumer' = "iterating"
        BY <1>1, <2>2, <3>2 DEF After
      <4>2. UpToClosed(Tail(inbox)) = SubSeq(Tail(inbox), 1, k - 1)
        BY <1>2, <2>2, <3>2, UpToEnd
      <4> QED BY <1>1, <1>4, <2>2, <3>2, <4>1, <4>2 DEF Awaited, Promise
    <3> QED BY <3>1, <3>2
  <2>5. Promised!Deliver
    BY <1>1, <2>2, <2>3, <2>4 DEF Promised!Deliver
  <2> QED BY <2>4, <2>5 DEF StreamNext
<1> QED BY <1>3, <1>4

\* Every step is a step of the stream, or none to it.
LEMMA StreamStep == TypeOK /\ Promise /\ [Next]_vars => Promise' /\ StreamNext
<1> SUFFICES ASSUME TypeOK, Promise, [Next]_vars PROVE Promise' /\ StreamNext
  OBVIOUS
<1>1. CASE \E reason \in Reason : /\ EmitClosed(reason) /\ FirstCause(reason)
                                 /\ seen' = seen /\ consumer' = consumer
  BY <1>1, EmitClosedStep
<1>2. CASE UNCHANGED <<seen, inbox, closed, consumer>>
  BY <1>2 DEF Promise, Unended, EndsAt, Awaited, UpToClosed, ClosedIn, StreamNext,
              Promised!streamVars
<1>3. CASE \E m \in Shapes : ReaderMessage(m)
  BY <1>3, MessageStep
<1>4. CASE Deliver
  BY <1>4, DeliverStep
<1> QED BY <1>1, <1>2, <1>3, <1>4, StepKinds DEF streamVars

\* Nothing waits in a session that has not begun.
LEMMA InitPromise == Init => Promise /\ Promised!Init
<1> SUFFICES ASSUME Init PROVE Promise /\ Promised!Init
  OBVIOUS
<1>1. inbox = <<>> /\ seen = <<>> /\ closed = FALSE /\ consumer = "iterating"
  BY DEF Init, Untouched
<1>2. Unended(inbox) /\ inbox \in Seq(Event)
  BY <1>1 DEF Unended
<1>3. Awaited = inbox
  BY <1>1, <1>2, UpToNone DEF Awaited
<1> QED BY <1>1, <1>2, <1>3 DEF Promise, Promised!Init

(***************************************************************************)
(* The session implements the FIFO stream with one terminal event, for any *)
(* number of closers, messages and frames: its initial state is the        *)
(* stream's, and each of its steps emits, ends, delivers or does nothing   *)
(* to the stream (live.py:216-227, 255-266).                               *)
(***************************************************************************)
THEOREM StreamImplemented == Spec => StreamPromised
<1>1. TypeOK /\ Promise /\ [Next]_vars => StreamNext
  BY StreamStep
<1>2. TypeOK /\ Promise /\ [Next]_vars => Promise'
  BY StreamStep
<1>3. Init => Promise /\ Promised!Init
  BY InitPromise
<1> QED
  BY <1>1, <1>2, <1>3, TypeCorrect, PTL
  DEF Spec, StreamPromised, Promised!Spec, StreamNext

-----------------------------------------------------------------------------
(* Words, turns and audio: what one more event at the end of a stream adds.*)

\* The words of a turn rise.
Rises(e) ==
    \A p, q \in DOMAIN e.parts : p < q => KeyOf(e, p) < KeyOf(e, q)

\* The words of a turn come after those of a stream.
Above(s, e) ==
    \A i \in TurnsIn(s) :
        \A p \in DOMAIN s[i].parts, q \in DOMAIN e.parts : KeyOf(s[i], p) < KeyOf(e, q)

LastTurn(s, i) ==
    i \in TurnsIn(s) /\ \A l \in i + 1 .. Len(s) : s[l].kind # "transcript"

\* A turn is divided from the last of a stream if one speaker says both.
Follows(s, e, ks) ==
    \A i \in DOMAIN s : LastTurn(s, i) /\ s[i].role = e.role => Divides(ks, s[i], e)

\* One more event.
LEMMA OneMore ==
    ASSUME NEW S, NEW s \in Seq(S), NEW e \in S
    PROVE  LET t == Append(s, e)
               k == Len(s) + 1
           IN  /\ Len(s) \in Nat /\ Len(t) = k /\ DOMAIN s = 1 .. Len(s) /\ DOMAIN t = 1 .. k
               /\ t[k] = e /\ \A i \in 1 .. Len(s) : t[i] = s[i]
               /\ k \notin 1 .. Len(s) /\ 1 .. k = (1 .. Len(s)) \cup {k}
  BY AppendProperties

\* A turn more, or none.
LEMMA TurnsMore ==
    ASSUME NEW S, NEW s \in Seq(S), NEW e \in S
    PROVE  /\ TurnsIn(s) \subseteq 1 .. Len(s)
           /\ e.kind = "transcript" => TurnsIn(Append(s, e)) = TurnsIn(s) \cup {Len(s) + 1}
           /\ e.kind # "transcript" => TurnsIn(Append(s, e)) = TurnsIn(s)
<1> DEFINE t == Append(s, e)
           k == Len(s) + 1
<1>1. /\ DOMAIN s = 1 .. Len(s) /\ DOMAIN t = 1 .. k
      /\ t[k] = e /\ \A i \in 1 .. Len(s) : t[i] = s[i]
      /\ k \notin 1 .. Len(s) /\ 1 .. k = (1 .. Len(s)) \cup {k}
  BY OneMore
<1> HIDE DEF t, k
<1>2. TurnsIn(t) = TurnsIn(s) \cup (IF e.kind = "transcript" THEN {k} ELSE {})
  BY <1>1 DEF TurnsIn
<1> QED BY <1>1, <1>2 DEF TurnsIn, t, k

\* The order of the words.
LEMMA OrderMore ==
    ASSUME NEW S, NEW s \in Seq(S), NEW e \in S
    PROVE  WordsInOrder(Append(s, e)) <=>
              /\ WordsInOrder(s)
              /\ e.kind = "transcript" => Rises(e) /\ Above(s, e)
<1> DEFINE t == Append(s, e)
           k == Len(s) + 1
<1>1. /\ Len(s) \in Nat /\ t[k] = e /\ \A i \in 1 .. Len(s) : t[i] = s[i]
      /\ TurnsIn(s) \subseteq 1 .. Len(s)
      /\ e.kind = "transcript" => TurnsIn(t) = TurnsIn(s) \cup {k}
      /\ e.kind # "transcript" => TurnsIn(t) = TurnsIn(s)
  BY OneMore, TurnsMore
<1> HIDE DEF t
<1>2. \A i \in TurnsIn(s) : i < k /\ ~ (k < i) /\ i # k /\ t[i] = s[i]
  BY <1>1
<1> HIDE DEF k
<1>3. k \notin TurnsIn(s) /\ ~ (k < k)
  BY <1>1 DEF k
<1>4. CASE e.kind # "transcript"
  BY <1>1, <1>2, <1>4 DEF WordsInOrder, t
<1>5. CASE e.kind = "transcript"
  <2>1. ASSUME WordsInOrder(t) PROVE WordsInOrder(s) /\ Rises(e) /\ Above(s, e)
    <3>1. WordsInOrder(s)
      BY <1>1, <1>2, <1>5, <2>1 DEF WordsInOrder
    <3>2. Rises(e)
      BY <1>1, <1>5, <2>1 DEF WordsInOrder, Rises
    <3>3. Above(s, e)
      BY <1>1, <1>2, <1>5, <2>1 DEF WordsInOrder, Above
    <3> QED BY <3>1, <3>2, <3>3
  <2>2. ASSUME WordsInOrder(s), Rises(e), Above(s, e),
               NEW i \in TurnsIn(t), NEW j \in TurnsIn(t),
               NEW p \in DOMAIN t[i].parts, NEW q \in DOMAIN t[j].parts,
               i < j \/ (i = j /\ p < q)
        PROVE  KeyOf(t[i], p) < KeyOf(t[j], q)
    <3>1. CASE i \in TurnsIn(s) /\ j \in TurnsIn(s)
      BY <1>2, <2>2, <3>1 DEF WordsInOrder
    <3>2. CASE i = k /\ j = k
      BY <1>1, <1>3, <2>2, <3>2 DEF Rises
    <3>3. CASE i \in TurnsIn(s) /\ j = k
      BY <1>1, <1>2, <2>2, <3>3 DEF Above
    <3>4. CASE i = k /\ j \in TurnsIn(s)
      BY <1>2, <2>2, <3>4
    <3> QED BY <1>1, <1>5, <2>2, <3>1, <3>2, <3>3, <3>4
  <2>3. WordsInOrder(s) /\ Rises(e) /\ Above(s, e) => WordsInOrder(t)
    BY <2>2 DEF WordsInOrder
  <2> QED BY <1>5, <2>1, <2>3 DEF t
<1> QED BY <1>4, <1>5

\* The words.
LEMMA WordsMore ==
    ASSUME NEW S, NEW s \in Seq(S), NEW e \in S
    PROVE  /\ e.kind = "transcript" => WordsIn(Append(s, e)) = WordsIn(s) \cup WordsOf(e)
           /\ e.kind # "transcript" => WordsIn(Append(s, e)) = WordsIn(s)
<1> DEFINE t == Append(s, e)
           k == Len(s) + 1
<1>1. /\ t[k] = e /\ \A i \in TurnsIn(s) : t[i] = s[i]
      /\ e.kind = "transcript" => TurnsIn(t) = TurnsIn(s) \cup {k}
      /\ e.kind # "transcript" => TurnsIn(t) = TurnsIn(s)
  BY OneMore, TurnsMore
<1> HIDE DEF t, k
<1>2. \A i \in TurnsIn(s) : WordsOf(t[i]) = WordsOf(s[i])
  BY <1>1
<1>3. WordsOf(t[k]) = WordsOf(e)
  BY <1>1
<1>4. e.kind = "transcript" => WordsIn(t) = WordsIn(s) \cup WordsOf(e)
  <2> HIDE DEF WordsOf
  <2> QED BY <1>1, <1>2, <1>3 DEF WordsIn
<1>5. e.kind # "transcript" => WordsIn(t) = WordsIn(s)
  BY <1>1, <1>2 DEF WordsIn
<1> QED BY <1>4, <1>5 DEF t

\* The turns.
LEMMA SplitMore ==
    ASSUME NEW S, NEW s \in Seq(S), NEW e \in S, NEW ks
    PROVE  OneTurnUnless(Append(s, e), ks) <=>
              /\ OneTurnUnless(s, ks)
              /\ e.kind = "transcript" => Follows(s, e, ks)
<1> DEFINE t == Append(s, e)
           k == Len(s) + 1
<1>1. /\ Len(s) \in Nat /\ DOMAIN s = 1 .. Len(s)
      /\ t[k] = e /\ \A i \in 1 .. Len(s) : t[i] = s[i]
      /\ TurnsIn(s) \subseteq 1 .. Len(s)
      /\ e.kind = "transcript" => TurnsIn(t) = TurnsIn(s) \cup {k}
      /\ e.kind # "transcript" => TurnsIn(t) = TurnsIn(s)
  BY OneMore, TurnsMore
<1> HIDE DEF t
<1> DEFINE Next2(r, i, j) == /\ i < j /\ r[i].role = r[j].role
                             /\ \A l \in i + 1 .. j - 1 : r[l].kind # "transcript"
<1>2. ASSUME NEW i \in TurnsIn(s), NEW j \in TurnsIn(s)
      PROVE  (Next2(t, i, j) => Divides(ks, t[i], t[j])) <=>
             (Next2(s, i, j) => Divides(ks, s[i], s[j]))
  <2>1. t[i] = s[i] /\ t[j] = s[j] /\ \A l \in i + 1 .. j - 1 : t[l] = s[l]
    BY <1>1
  <2> QED BY <2>1
<1>3. ASSUME NEW i \in TurnsIn(s)
      PROVE  Next2(t, i, k) <=> LastTurn(s, i) /\ s[i].role = e.role
  <2>1. i < k /\ t[i] = s[i] /\ k - 1 = Len(s) /\ \A l \in i + 1 .. Len(s) : t[l] = s[l]
    BY <1>1
  <2> QED BY <1>1, <2>1 DEF LastTurn
<1>4. \A i \in TurnsIn(t) : ~ Next2(t, k, i)
  BY <1>1
<1>5. OneTurnUnless(s, ks) <=> \A i, j \in TurnsIn(s) : Next2(s, i, j) => Divides(ks, s[i], s[j])
  BY DEF OneTurnUnless
<1>6. OneTurnUnless(t, ks) <=> \A i, j \in TurnsIn(t) : Next2(t, i, j) => Divides(ks, t[i], t[j])
  BY DEF OneTurnUnless
<1>7. Follows(s, e, ks) <=> \A i \in TurnsIn(s) : Next2(t, i, k) => Divides(ks, t[i], t[k])
  <2>1. \A i \in TurnsIn(s) : t[i] = s[i] /\ i \in DOMAIN s
    BY <1>1
  <2>2. \A i \in DOMAIN s : LastTurn(s, i) => i \in TurnsIn(s)
    BY DEF LastTurn
  <2> HIDE DEF Next2
  <2> QED BY <1>1, <1>3, <2>1, <2>2 DEF Follows
<1> HIDE DEF Next2
<1>8. CASE e.kind = "transcript"
  BY <1>1, <1>2, <1>4, <1>5, <1>6, <1>7, <1>8 DEF t
<1>9. CASE e.kind # "transcript"
  BY <1>1, <1>2, <1>5, <1>6, <1>9 DEF t
<1> QED BY <1>8, <1>9

\* The audio.
LEMMA ChunksMore ==
    ASSUME NEW S, NEW s \in Seq(S), NEW e \in S
    PROVE  /\ e.kind # "audio" =>
                 /\ ChunksInOrder(Append(s, e)) <=> ChunksInOrder(s)
                 /\ ChunkIds(Append(s, e)) = ChunkIds(s)
           /\ e.kind = "audio" =>
                 /\ ChunksInOrder(s) /\ (\A id \in ChunkIds(s) : id < e.id)
                       => ChunksInOrder(Append(s, e))
                 /\ ChunkIds(Append(s, e)) = ChunkIds(s) \cup {e.id}
<1> DEFINE t == Append(s, e)
           k == Len(s) + 1
<1>1. /\ Len(s) \in Nat /\ DOMAIN s = 1 .. Len(s) /\ DOMAIN t = 1 .. k
      /\ t[k] = e /\ \A i \in 1 .. Len(s) : t[i] = s[i]
      /\ k \notin 1 .. Len(s) /\ 1 .. k = (1 .. Len(s)) \cup {k}
  BY OneMore
<1> HIDE DEF t
<1>2. \A i \in ChunksIn(s) : i < k /\ ~ (k < i) /\ t[i] = s[i]
  BY <1>1 DEF ChunksIn
<1>3. ~ (k < k)
  BY <1>1
<1> HIDE DEF k
<1>4. ChunksIn(t) = ChunksIn(s) \cup (IF e.kind = "audio" THEN {k} ELSE {})
  BY <1>1 DEF ChunksIn
<1>5. ASSUME e.kind # "audio"
      PROVE  (ChunksInOrder(t) <=> ChunksInOrder(s)) /\ ChunkIds(t) = ChunkIds(s)
  BY <1>2, <1>4, <1>5 DEF ChunksInOrder, ChunkIds
<1>6. ASSUME e.kind = "audio"
      PROVE  /\ ChunkIds(t) = ChunkIds(s) \cup {e.id}
             /\ ChunksInOrder(s) /\ (\A id \in ChunkIds(s) : id < e.id) => ChunksInOrder(t)
  <2>1. ChunkIds(t) = ChunkIds(s) \cup {e.id}
    BY <1>1, <1>2, <1>4, <1>6 DEF ChunkIds
  <2>2. \A i \in ChunksIn(s) : s[i].id \in ChunkIds(s)
    BY DEF ChunkIds
  <2>3. ASSUME ChunksInOrder(s), \A id \in ChunkIds(s) : id < e.id PROVE ChunksInOrder(t)
    BY <1>1, <1>2, <1>3, <1>4, <1>6, <2>2, <2>3 DEF ChunksInOrder
  <2> QED BY <2>1, <2>3
<1> QED BY <1>5, <1>6 DEF t

-----------------------------------------------------------------------------
(* Words, turns and audio: what the accumulator makes of a message.        *)

\* A stream s tells what was heard, h, and was divided by ks.
Told(s, h, ks) ==
    /\ WordsInOrder(s) /\ WordsIn(s) = Text(h)
    /\ OneTurnUnless(s, ks)
    /\ ChunksInOrder(s) /\ ChunkIds(s) = Audio(h)

\* So does a stream with a turn still open behind it.
Tale(s, t, h, ks) ==
    /\ s \in Seq(Event) /\ t \in Turn /\ (t.role = "none" <=> t.parts = <<>>)
    /\ Told(Append(s, Transcript(t)), h, ks)

\* The same, of the stream and of the turn.
Parts(s, e, h, ks) ==
    /\ WordsInOrder(s) /\ Rises(e) /\ Above(s, e)
    /\ WordsIn(s) \cup WordsOf(e) = Text(h)
    /\ OneTurnUnless(s, ks) /\ Follows(s, e, ks)
    /\ ChunksInOrder(s) /\ ChunkIds(s) = Audio(h)

\* A turn behind a stream adds its words and divides as it should.
LEMMA ToldParts ==
    ASSUME NEW s \in Seq(Event), NEW t \in Turn, NEW h, NEW ks
    PROVE  Told(Append(s, Transcript(t)), h, ks) <=> Parts(s, Transcript(t), h, ks)
<1> DEFINE Any == Event \cup {Transcript(u) : u \in Turn}
           e == Transcript(t)
<1>1. s \in Seq(Any) /\ e \in Any /\ e.kind = "transcript"
  BY DEF Transcript
<1> HIDE DEF Any, e
<1>2. WordsInOrder(Append(s, e)) <=> WordsInOrder(s) /\ Rises(e) /\ Above(s, e)
  BY <1>1, OrderMore
<1>3. WordsIn(Append(s, e)) = WordsIn(s) \cup WordsOf(e)
  BY <1>1, WordsMore
<1>4. OneTurnUnless(Append(s, e), ks) <=> OneTurnUnless(s, ks) /\ Follows(s, e, ks)
  BY <1>1, SplitMore
<1>5. /\ ChunksInOrder(Append(s, e)) <=> ChunksInOrder(s)
      /\ ChunkIds(Append(s, e)) = ChunkIds(s)
  BY <1>1, ChunksMore
<1>6. Told(Append(s, e), h, ks) <=> Parts(s, e, h, ks)
  BY <1>2, <1>3, <1>4, <1>5 DEF Told, Parts
<1> QED BY <1>6 DEF e

\* A turn of a stream has a speaker.
LEMMA TurnSpoken ==
    ASSUME NEW s \in Seq(Event), NEW i \in TurnsIn(s)
    PROVE  s[i].role \in {"caller", "model"} /\ s[i].parts \in Seq(1 .. MaxMessages)
<1>1. s[i] \in Event /\ s[i].kind = "transcript"
  BY ElementOfSeq DEF TurnsIn
<1> QED BY <1>1 DEF Event, Said, Interrupted

\* Nothing said and nothing open adds nothing.
LEMMA SilentTurn ==
    ASSUME NEW s \in Seq(Event), NEW t \in Turn, t.role = "none", t.parts = <<>>,
           NEW h, NEW ks
    PROVE  Told(Append(s, Transcript(t)), h, ks) <=> Told(s, h, ks)
<1> DEFINE e == Transcript(t)
<1>1. e.parts = <<>> /\ e.role = "none" /\ DOMAIN e.parts = {}
  BY DEF Transcript
<1> HIDE DEF e
<1>2. Rises(e) /\ Above(s, e) /\ WordsOf(e) = {}
  BY <1>1 DEF Rises, Above, WordsOf
<1>3. Follows(s, e, ks)
  BY <1>1, TurnSpoken DEF Follows, LastTurn
<1>4. Parts(s, e, h, ks) <=> Told(s, h, ks)
  BY <1>2, <1>3 DEF Parts, Told
<1> QED BY <1>4, ToldParts DEF e

\* A flush moves the open turn into the stream, and no word of it.
LEMMA TaleFlush ==
    ASSUME NEW s \in Seq(Event), NEW st \in Translation, NEW h, NEW ks,
           Tale(s \o st.events, st.turn, h, ks)
    PROVE  /\ Tale(s \o Flush(st).events, Flush(st).turn, h, ks)
           /\ Flush(st) \in Translation /\ Flush(st).turn.parts = <<>>
           /\ st.turn.parts = <<>> => Flush(st) = st
           /\ st.turn.parts # <<>> =>
                 s \o Flush(st).events = Append(s \o st.events, Transcript(st.turn))
<1>1. st.turn \in Turn /\ st.events \in Seq(Said) /\ Flush(st) \in Translation
  BY FlushTyped DEF Translation
<1>2. st.turn.role = "none" <=> st.turn.parts = <<>>
  BY DEF Tale
<1>3. CASE st.turn.parts = <<>>
  BY <1>1, <1>2, <1>3 DEF Flush
<1>4. CASE st.turn.parts # <<>>
  <2> DEFINE e == Transcript(st.turn)
  <2>1. Flush(st) = [turn |-> NoTurn, events |-> Append(st.events, e)]
    BY <1>2, <1>4 DEF Flush
  <2>2. e \in Said
    BY <1>1, <1>2, <1>4 DEF Transcript, Said, Turn
  <2> HIDE DEF e
  <2>3. /\ st.events \in Seq(Event) /\ e \in Event /\ s \o st.events \in Seq(Event)
        /\ s \o Append(st.events, e) = Append(s \o st.events, e)
        /\ Append(s \o st.events, e) \in Seq(Event)
    BY <1>1, <2>2, AppendMoved DEF Event
  <2>4. NoTurn \in Turn /\ NoTurn.role = "none" /\ NoTurn.parts = <<>>
    BY EmptySeq DEF NoTurn, Turn
  <2>5. Told(Append(s \o st.events, e), h, ks)
    BY DEF Tale, e
  <2>6. Told(Append(Append(s \o st.events, e), Transcript(NoTurn)), h, ks)
    BY <2>3, <2>4, <2>5, SilentTurn
  <2>7. Tale(Append(s \o st.events, e), NoTurn, h, ks)
    BY <2>3, <2>4, <2>6 DEF Tale
  <2>8. Flush(st).turn = NoTurn /\ Flush(st).events = Append(st.events, e)
    BY <2>1
  <2> QED BY <1>1, <1>4, <2>3, <2>4, <2>7, <2>8 DEF e
<1> QED BY <1>3, <1>4

\* A fragment later than all that was heard goes to the end of its turn.
LEMMA TaleExtend ==
    ASSUME NEW s, NEW t, NEW h, NEW ks, Tale(s, t, h, ks),
           NEW role \in {"caller", "model"}, NEW id \in 1 .. MaxMessages,
           \A w \in Text(h) : Key(w.field, w.id) < Key(role, id),
           t.parts = <<>> \/ t.role = role,
           t.parts = <<>> =>
              \A i \in DOMAIN s : LastTurn(s, i) /\ s[i].role = role =>
                 \E k \in ks : s[i].parts[Len(s[i].parts)] <= k /\ k < id
    PROVE  Tale(s, [role |-> role, parts |-> Append(t.parts, id)],
                h \cup {[field |-> role, id |-> id]}, ks)
<1> DEFINE u == [role |-> role, parts |-> Append(t.parts, id)]
           w == [field |-> role, id |-> id]
           e == Transcript(t)
           f == Transcript(u)
           n == Len(t.parts)
<1>1. /\ s \in Seq(Event) /\ t \in Turn /\ (t.role = "none" <=> t.parts = <<>>)
      /\ Parts(s, e, h, ks)
  BY ToldParts DEF Tale
<1>2. /\ t.parts \in Seq(1 .. MaxMessages) /\ n \in Nat /\ DOMAIN t.parts = 1 .. n
      /\ Append(t.parts, id) \in Seq(1 .. MaxMessages)
      /\ DOMAIN Append(t.parts, id) = 1 .. n + 1 /\ Append(t.parts, id)[n + 1] = id
      /\ \A p \in 1 .. n : Append(t.parts, id)[p] = t.parts[p]
      /\ 1 .. n + 1 = (1 .. n) \cup {n + 1}
  BY <1>1, AppendProperties DEF Turn
<1>3. u \in Turn /\ u.role # "none" /\ u.parts # <<>>
  BY <1>2 DEF Turn
<1>4. /\ e.kind = "transcript" /\ e.role = t.role /\ e.parts = t.parts
      /\ f.kind = "transcript" /\ f.role = role /\ f.parts = Append(t.parts, id)
  BY DEF Transcript
<1> HIDE DEF u, e, f, n
<1>5. \A p \in 1 .. n : t.role = role /\ KeyOf(f, p) = KeyOf(e, p)
  <2>1. n > 0 => t.parts # <<>>
    BY DEF n
  <2> QED BY <1>2, <1>4, <2>1 DEF KeyOf
<1>6. KeyOf(f, n + 1) = Key(role, id)
  BY <1>2, <1>4 DEF KeyOf
<1>7. /\ \A p \in 1 .. n : KeyOf(e, p) < Key(role, id)
      /\ \A i \in TurnsIn(s) : \A p \in DOMAIN s[i].parts : KeyOf(s[i], p) < Key(role, id)
  <2>1. \A p \in 1 .. n : [field |-> e.role, id |-> e.parts[p]] \in Text(h)
    BY <1>1, <1>2, <1>4 DEF Parts, WordsOf
  <2>2. \A i \in TurnsIn(s) : \A p \in DOMAIN s[i].parts :
           [field |-> s[i].role, id |-> s[i].parts[p]] \in Text(h)
    BY <1>1 DEF Parts, WordsIn, WordsOf
  <2> QED BY <2>1, <2>2 DEF KeyOf
<1>8. Rises(f)
  <2> SUFFICES ASSUME NEW p \in 1 .. n + 1, NEW q \in 1 .. n + 1, p < q
               PROVE  KeyOf(f, p) < KeyOf(f, q)
    BY <1>2, <1>4 DEF Rises
  <2>1. p \in 1 .. n
    BY <1>2
  <2>2. CASE q \in 1 .. n
    BY <1>1, <1>2, <1>4, <1>5, <2>1, <2>2 DEF Parts, Rises
  <2>3. CASE q = n + 1
    BY <1>5, <1>6, <1>7, <2>1, <2>3
  <2> QED BY <1>2, <2>2, <2>3
<1>9. Above(s, f)
  <2> SUFFICES ASSUME NEW i \in TurnsIn(s), NEW p \in DOMAIN s[i].parts, NEW q \in 1 .. n + 1
               PROVE  KeyOf(s[i], p) < KeyOf(f, q)
    BY <1>2, <1>4 DEF Above
  <2>1. CASE q \in 1 .. n
    BY <1>1, <1>2, <1>4, <1>5, <2>1 DEF Parts, Above
  <2>2. CASE q = n + 1
    BY <1>6, <1>7, <2>2
  <2> QED BY <1>2, <2>1, <2>2
<1>10. WordsIn(s) \cup WordsOf(f) = Text(h \cup {w})
  <2>1. WordsOf(f) = WordsOf(e) \cup {w}
    BY <1>2, <1>4, <1>5 DEF WordsOf
  <2>2. Text(h \cup {w}) = Text(h) \cup {w}
    BY DEF Text
  <2> HIDE DEF w
  <2> QED BY <1>1, <2>1, <2>2 DEF Parts
<1>11. Follows(s, f, ks)
  <2>1. CASE t.parts = <<>>
    <3>1. f.parts[1] = id
      BY <1>2, <1>4, <2>1 DEF n
    <3> QED BY <1>4, <2>1, <3>1 DEF Follows, Divides
  <2>2. CASE t.parts # <<>>
    <3>1. 1 \in 1 .. n
      BY <1>2, <2>2 DEF n
    <3>2. f.parts[1] = e.parts[1] /\ f.role = e.role
      BY <1>2, <1>4, <2>2, <3>1
    <3> QED BY <1>1, <3>2 DEF Parts, Follows, Divides
  <2> QED BY <2>1, <2>2
<1>12. Audio(h \cup {w}) = Audio(h)
  BY DEF Audio
<1>13. Parts(s, f, h \cup {w}, ks)
  BY <1>1, <1>8, <1>9, <1>10, <1>11, <1>12 DEF Parts
<1>14. Tale(s, u, h \cup {w}, ks)
  BY <1>1, <1>3, <1>13, ToldParts DEF Tale, f
<1> QED BY <1>14 DEF u

\* The last turn of a stream was ended by a turn_complete.
Rests(s, ks) ==
    \A i \in DOMAIN s : LastTurn(s, i) =>
       \E k \in ks : s[i].parts[Len(s[i].parts)] <= k

\* Audio and a barge-in pass the open turn by.
LEMMA TaleAside ==
    ASSUME NEW s, NEW t, NEW h, NEW ks, Tale(s, t, h, ks),
           NEW e \in Said, e.kind # "transcript",
           e.kind = "audio" => \A id \in Audio(h) : id < e.id
    PROVE  /\ Tale(Append(s, e), t,
                   h \cup (IF e.kind = "audio" THEN {[field |-> "audio", id |-> e.id]} ELSE {}),
                   ks)
           /\ Rests(s, ks) => Rests(Append(s, e), ks)
<1> DEFINE r == Append(s, e)
           f == Transcript(t)
           g == h \cup (IF e.kind = "audio" THEN {[field |-> "audio", id |-> e.id]} ELSE {})
<1>1. /\ s \in Seq(Event) /\ t \in Turn /\ (t.role = "none" <=> t.parts = <<>>)
      /\ Parts(s, f, h, ks)
  BY ToldParts DEF Tale
<1>2. e \in Event /\ r \in Seq(Event)
  BY <1>1, AppendProperties DEF Event
<1>3. /\ Len(s) \in Nat /\ DOMAIN s = 1 .. Len(s) /\ Len(r) = Len(s) + 1
      /\ \A i \in 1 .. Len(s) : r[i] = s[i]
      /\ TurnsIn(r) = TurnsIn(s) /\ TurnsIn(s) \subseteq 1 .. Len(s)
  BY <1>1, <1>2, OneMore, TurnsMore
<1>4. \A i \in TurnsIn(s) : r[i] = s[i]
  BY <1>3
<1>5. WordsInOrder(r) /\ WordsIn(r) = WordsIn(s) /\ OneTurnUnless(r, ks)
  BY <1>1, <1>2, OrderMore, WordsMore, SplitMore DEF Parts
<1>6. ChunksInOrder(r) /\ ChunkIds(r) = Audio(g)
  <2>1. CASE e.kind = "audio"
    <3>1. Audio(g) = Audio(h) \cup {e.id}
      <4> DEFINE a == [field |-> "audio", id |-> e.id]
      <4>1. g = h \cup {a} /\ a.field = "audio" /\ a.id = e.id
        BY <2>1
      <4> HIDE DEF a, g
      <4> QED BY <4>1 DEF Audio
    <3> HIDE DEF g, r
    <3>2. r = Append(s, e)
      BY DEF r
    <3> QED BY <1>1, <1>2, <2>1, <3>1, <3>2, ChunksMore DEF Parts
  <2>2. CASE e.kind # "audio"
    <3>1. g = h
      BY <2>2
    <3> QED BY <1>1, <1>2, <2>2, <3>1, ChunksMore DEF Parts
  <2> QED BY <2>1, <2>2
<1>7. Text(g) = Text(h)
  BY DEF Text
<1> HIDE DEF r, f, g
<1>8. ASSUME NEW i \in DOMAIN r, LastTurn(r, i) PROVE LastTurn(s, i) /\ r[i] = s[i]
  <2>1. i \in TurnsIn(s) /\ i \in 1 .. Len(s)
    BY <1>3, <1>8 DEF LastTurn
  <2>2. \A l \in i + 1 .. Len(s) : l \in i + 1 .. Len(r) /\ r[l] = s[l]
    BY <1>3, <2>1
  <2> QED BY <1>3, <1>8, <2>1, <2>2 DEF LastTurn
<1>9. Above(r, f)
  BY <1>1, <1>3, <1>4 DEF Parts, Above
<1>10. \A i \in DOMAIN r : LastTurn(r, i) => i \in DOMAIN s
  BY <1>3 DEF LastTurn
<1>11. Follows(r, f, ks)
  BY <1>1, <1>8, <1>10 DEF Parts, Follows
<1>12. Parts(r, f, g, ks)
  BY <1>1, <1>5, <1>6, <1>7, <1>9, <1>11 DEF Parts
<1>13. Tale(r, t, g, ks)
  BY <1>1, <1>2, <1>12, ToldParts DEF Tale, f
<1>14. Rests(s, ks) => Rests(r, ks)
  BY <1>8, <1>10 DEF Rests
<1> QED BY <1>13, <1>14 DEF r, g

\* A turn put behind a stream is its last.
LEMMA LastIsNew ==
    ASSUME NEW S, NEW s \in Seq(S), NEW e \in S, e.kind = "transcript",
           NEW i, LastTurn(Append(s, e), i)
    PROVE  i = Len(s) + 1 /\ Append(s, e)[i] = e
<1> DEFINE t == Append(s, e)
           k == Len(s) + 1
<1>1. /\ Len(s) \in Nat /\ Len(t) = k /\ t[k] = e /\ k \in TurnsIn(t)
      /\ TurnsIn(t) \subseteq 1 .. k
  BY OneMore, TurnsMore
<1> HIDE DEF t
<1>2. i \in 1 .. k /\ \A l \in i + 1 .. k : t[l].kind # "transcript"
  BY <1>1 DEF LastTurn, t
<1>3. i = k
  BY <1>1, <1>2
<1> QED BY <1>1, <1>3 DEF t

\* A stream divided is divided by more.
LEMMA DividedMore ==
    ASSUME NEW s, NEW t, NEW h, NEW ks, NEW ls, ks \subseteq ls
    PROVE  /\ Tale(s, t, h, ks) => Tale(s, t, h, ls)
           /\ Rests(s, ks) => Rests(s, ls)
  BY DEF Tale, Told, OneTurnUnless, Divides, Rests

\* A fragment is added to the open turn, or to a new one behind it.
LEMMA TaleAdd ==
    ASSUME NEW s \in Seq(Event), NEW st \in Translation, NEW h, NEW ks,
           Tale(s \o st.events, st.turn, h, ks),
           NEW role \in {"caller", "model"}, NEW id \in 1 .. MaxMessages,
           \A w \in Text(h) : Key(w.field, w.id) < Key(role, id),
           \A k \in ks : k < id,
           st.turn.parts = <<>> => Rests(s \o st.events, ks)
    PROVE  LET a == AddFragment(st, role, id)
           IN  /\ a \in Translation /\ a.turn.parts # <<>>
               /\ Tale(s \o a.events, a.turn, h \cup {[field |-> role, id |-> id]}, ks)
<1> DEFINE base == IF role # st.turn.role THEN Flush(st) ELSE st
           q == s \o base.events
           u == [role |-> role, parts |-> Append(base.turn.parts, id)]
           a == AddFragment(st, role, id)
           h2 == h \cup {[field |-> role, id |-> id]}
<1>1. base \in Translation /\ Tale(q, base.turn, h, ks)
  BY FlushTyped, TaleFlush
<1>2. base.turn.parts = <<>> \/ base.turn.role = role
  BY TaleFlush
<1>3. ASSUME base.turn.parts = <<>>, NEW i \in DOMAIN q, LastTurn(q, i), q[i].role = role
      PROVE  \E k \in ks : q[i].parts[Len(q[i].parts)] <= k /\ k < id
  <2>1. CASE st.turn.parts = <<>>
    <3>1. base = st
      BY <2>1, TaleFlush
    <3>2. Rests(q, ks)
      BY <2>1, <3>1
    <3> QED BY <1>3, <3>2 DEF Rests
  <2>2. CASE st.turn.parts # <<>>
    <3>1. role # st.turn.role
      BY <1>3, <2>2
    <3> DEFINE r == s \o st.events
               e == Transcript(st.turn)
               Any == Event \cup {Transcript(v) : v \in Turn}
    <3>2. q = Append(r, e)
      BY <2>2, <3>1, TaleFlush
    <3>3. /\ r \in Seq(Any) /\ e \in Any /\ e.kind = "transcript" /\ e.role = st.turn.role
      <4>1. st.turn \in Turn /\ r \in Seq(Event)
        BY DEF Tale
      <4> HIDE DEF r
      <4> QED BY <4>1 DEF Transcript
    <3> HIDE DEF r, e, q, Any
    <3>4. q[i] = e
      BY <1>3, <3>2, <3>3, LastIsNew
    <3> QED BY <1>3, <3>1, <3>3, <3>4
  <2> QED BY <2>1, <2>2
<1>4. Tale(q, u, h2, ks)
  <2> HIDE DEF q, base
  <2> QED BY <1>1, <1>2, <1>3, TaleExtend
<1>5. a = [base EXCEPT !.turn = u]
  BY DEF AddFragment
<1>6. a.turn = u /\ a.events = base.events /\ a \in Translation
  <2>1. a \in Translation
    BY AddTyped
  <2> HIDE DEF a, base
  <2> QED BY <1>1, <1>5, <2>1 DEF Translation
<1>7. u.parts # <<>>
  <2>1. base.turn.parts \in Seq(1 .. MaxMessages)
    BY <1>1 DEF Translation, Turn
  <2>2. Len(Append(base.turn.parts, id)) = Len(base.turn.parts) + 1
    BY <2>1
  <2>3. Len(base.turn.parts) + 1 # 0 /\ Len(<<>>) = 0
    BY <2>1
  <2> QED BY <2>2, <2>3
<1> HIDE DEF u, a, base, h2
<1>8. Tale(s \o a.events, a.turn, h2, ks)
  BY <1>4, <1>6
<1> QED BY <1>6, <1>7, <1>8 DEF a, h2

\* What was heard up to a message.
HeardBy(h, n) == h \subseteq [field : {"caller", "model", "audio"}, id : 1 .. n]

\* A message adds its fragments and its audio to the tale, and no more; what
\* it completes rests.
LEMMA TaleTranslate ==
    ASSUME NEW s \in Seq(Event), NEW t \in Turn, NEW h, NEW ks, Tale(s, t, h, ks),
           t.parts = <<>> => Rests(s, ks),
           NEW m, NEW id \in 1 .. MaxMessages, HeardBy(h, id - 1), ks \subseteq 1 .. id - 1
    PROVE  LET tr == Translate(t, m, id)
               g == h \cup {[field |-> f, id |-> id] : f \in m \cap {"caller", "model", "audio"}}
               ls == IF "complete" \in m THEN ks \cup {id} ELSE ks
           IN  /\ Tale(s \o tr.events, tr.turn, g, ls)
               /\ tr.turn.parts = <<>> => Rests(s \o tr.events, ls)
<1> DEFINE s0 == Fresh(t)
           s1 == IF "caller" \in m THEN AddFragment(s0, "caller", id) ELSE s0
           s2 == IF "model" \in m THEN AddFragment(s1, "model", id) ELSE s1
           audio == IF "audio" \in m THEN <<AudioChunk(id)>> ELSE <<>>
           barge == IF "interrupted" \in m THEN <<Interrupted>> ELSE <<>>
           sa == [s2 EXCEPT !.events = s2.events \o audio]
           s3 == [s2 EXCEPT !.events = (s2.events \o audio) \o barge]
           h1 == h \cup (IF "caller" \in m THEN {[field |-> "caller", id |-> id]} ELSE {})
           h2 == h1 \cup (IF "model" \in m THEN {[field |-> "model", id |-> id]} ELSE {})
           g == h2 \cup (IF "audio" \in m THEN {[field |-> "audio", id |-> id]} ELSE {})
           ls == IF "complete" \in m THEN ks \cup {id} ELSE ks
           State(st, k) == /\ st \in Translation
                           /\ Tale(s \o st.events, st.turn, k, ks)
                           /\ st.turn.parts = <<>> => Rests(s \o st.events, ks)
<1>0. /\ id \in Nat /\ \A k \in ks : k < id
      /\ \A w \in h : w.field \in {"caller", "model", "audio"} /\ w.id \in 1 .. id - 1
  BY BoundsAssumption DEF HeardBy
<1>1. State(s0, h)
  <2>1. s0 \in Translation /\ s0.turn = t /\ s0.events = <<>>
    BY EmptySeq DEF Fresh, Translation
  <2>2. s \o s0.events = s
    BY <2>1
  <2> HIDE DEF s0
  <2> QED BY <2>1, <2>2
<1>2. State(s1, h1)
  <2>1. CASE "caller" \in m
    <3>1. \A w \in Text(h) : Key(w.field, w.id) < Key("caller", id)
      BY <1>0 DEF Text, Key
    <3>2. s1 = AddFragment(s0, "caller", id) /\ h1 = h \cup {[field |-> "caller", id |-> id]}
      BY <2>1
    <3> HIDE DEF s0, s1, h1
    <3> QED BY <1>0, <1>1, <3>1, <3>2, TaleAdd
  <2>2. CASE "caller" \notin m
    <3>1. s1 = s0 /\ h1 = h
      BY <2>2
    <3> QED BY <1>1, <3>1
  <2> QED BY <2>1, <2>2
<1>3. State(s2, h2)
  <2>1. CASE "model" \in m
    <3>1. \A w \in Text(h1) : Key(w.field, w.id) < Key("model", id)
      BY <1>0 DEF Text, Key
    <3>2. s2 = AddFragment(s1, "model", id) /\ h2 = h1 \cup {[field |-> "model", id |-> id]}
      BY <2>1
    <3> HIDE DEF s1, s2, h1, h2
    <3> QED BY <1>0, <1>2, <3>1, <3>2, TaleAdd
  <2>2. CASE "model" \notin m
    <3>1. s2 = s1 /\ h2 = h1
      BY <2>2
    <3> HIDE DEF s1, s2, h1, h2
    <3> QED BY <1>2, <3>1
  <2> QED BY <2>1, <2>2
<1>4. ASSUME NEW st, NEW k, State(st, k), NEW e \in Said, e.kind # "transcript",
             e.kind = "audio" => \A i \in Audio(k) : i < e.id
      PROVE  State([st EXCEPT !.events = st.events \o <<e>>],
                   k \cup (IF e.kind = "audio" THEN {[field |-> "audio", id |-> e.id]} ELSE {}))
  <2> DEFINE su == [st EXCEPT !.events = st.events \o <<e>>]
             q == s \o st.events
  <2>1. /\ st.events \in Seq(Event) /\ e \in Event /\ st.events \in Seq(Said) /\ st.turn \in Turn
    BY <1>4 DEF Translation, Event
  <2>2. su.turn = st.turn /\ su.events = Append(st.events, e) /\ su \in Translation
    <3>1. st.events \o <<e>> = Append(st.events, e) /\ Append(st.events, e) \in Seq(Said)
      BY <2>1, AppendProperties
    <3> QED BY <1>4, <2>1, <3>1 DEF Translation
  <2>3. s \o su.events = Append(q, e)
    BY <2>1, <2>2, AppendMoved
  <2> HIDE DEF su, q
  <2>4. Tale(q, st.turn, k, ks) /\ (st.turn.parts = <<>> => Rests(q, ks))
    BY <1>4 DEF q
  <2> QED BY <1>4, <2>2, <2>3, <2>4, TaleAside DEF su
<1>5. State(sa, g)
  <2>1. CASE "audio" \in m
    <3> DEFINE e == AudioChunk(id)
    <3>1. e \in Said /\ e.kind = "audio" /\ e.id = id
      BY DEF AudioChunk, Said
    <3>2. \A i \in Audio(h2) : i < id
      BY <1>0 DEF Audio
    <3>3. /\ sa = [s2 EXCEPT !.events = s2.events \o <<e>>]
          /\ g = h2 \cup (IF e.kind = "audio" THEN {[field |-> "audio", id |-> e.id]} ELSE {})
      BY <2>1, <3>1
    <3> HIDE DEF e, s2, sa, h2, g, State
    <3>4. State([s2 EXCEPT !.events = s2.events \o <<e>>],
                h2 \cup (IF e.kind = "audio" THEN {[field |-> "audio", id |-> e.id]} ELSE {}))
      BY <1>3, <1>4, <3>1, <3>2
    <3> QED BY <3>3, <3>4
  <2>2. CASE "audio" \notin m
    <3>1. s2.events \o audio = s2.events
      BY <1>3, <2>2 DEF Translation
    <3>2. sa = s2 /\ g = h2
      <4> HIDE DEF s2, audio
      <4>1. sa = s2
        BY <1>3, <3>1 DEF Translation
      <4> QED BY <2>2, <4>1
    <3> HIDE DEF s2, sa, h2, g
    <3> QED BY <1>3, <3>2
  <2> QED BY <2>1, <2>2
<1>6. State(s3, g)
  <2>0. sa.events = s2.events \o audio /\ s3 = [sa EXCEPT !.events = sa.events \o barge]
    <3> HIDE DEF s2, audio, barge
    <3> QED BY <1>3 DEF Translation
  <2>1. CASE "interrupted" \in m
    <3>1. Interrupted \in Said /\ Interrupted.kind = "interrupted"
      BY DEF Interrupted, Said
    <3>2. s3 = [sa EXCEPT !.events = sa.events \o <<Interrupted>>]
      BY <2>0, <2>1
    <3>3. g = g \cup (IF Interrupted.kind = "audio"
                      THEN {[field |-> "audio", id |-> Interrupted.id]} ELSE {})
      BY <3>1
    <3> HIDE DEF s3, sa, g
    <3> QED BY <1>4, <1>5, <3>1, <3>2, <3>3
  <2>2. CASE "interrupted" \notin m
    <3> HIDE DEF sa, s3
    <3>1. sa.events \o barge = sa.events
      BY <1>5, <2>2 DEF Translation
    <3>2. s3 = sa
      BY <1>5, <2>0, <3>1 DEF Translation
    <3> HIDE DEF g
    <3> QED BY <1>5, <3>2
  <2> QED BY <2>1, <2>2
<1> DEFINE tr == Translate(t, m, id)
<1>7. tr = IF "complete" \in m THEN Flush(s3) ELSE s3
  BY DEF Translate
<1>8. g = h \cup {[field |-> f, id |-> id] : f \in m \cap {"caller", "model", "audio"}}
  OBVIOUS
<1>9. \A w \in g : w.id <= id
  BY <1>0
<1> HIDE DEF s3, g, tr
<1>10. CASE "complete" \notin m
  BY <1>6, <1>7, <1>8, <1>10 DEF tr
<1>11. CASE "complete" \in m
  <2> DEFINE q == s \o s3.events
             e == Transcript(s3.turn)
  <2>1. /\ Tale(s \o tr.events, tr.turn, g, ks)
        /\ s3.turn.parts = <<>> => tr = s3
        /\ s3.turn.parts # <<>> => s \o tr.events = Append(q, e)
    BY <1>6, <1>7, <1>11, TaleFlush
  <2>2. ks \subseteq ls /\ id \in ls
    BY <1>11
  <2>3. Tale(s \o tr.events, tr.turn, g, ls)
    BY <2>1, <2>2, DividedMore
  <2>4. Rests(s \o tr.events, ls)
    <3>1. CASE s3.turn.parts = <<>>
      BY <1>6, <2>1, <2>2, <3>1, DividedMore
    <3>2. CASE s3.turn.parts # <<>>
      <4>1. /\ q \in Seq(Event) /\ s3.turn \in Turn /\ Parts(q, e, g, ks)
        BY <1>6, ToldParts DEF Tale
      <4> DEFINE n == Len(s3.turn.parts)
                 Any == Event \cup {Transcript(v) : v \in Turn}
      <4>2. e.parts = s3.turn.parts /\ e.kind = "transcript" /\ n \in DOMAIN e.parts
            /\ q \in Seq(Any) /\ e \in Any
        BY <3>2, <4>1 DEF Transcript, Turn
      <4> HIDE DEF q, e
      <4>3. [field |-> e.role, id |-> e.parts[n]] \in g
        BY <4>1, <4>2 DEF Parts, WordsOf, Text
      <4>4. e.parts[Len(e.parts)] <= id
        BY <1>9, <4>2, <4>3
      <4> HIDE DEF Any
      <4>5. Rests(Append(q, e), ls)
        BY <2>2, <4>2, <4>4, LastIsNew DEF Rests
      <4> QED BY <2>1, <3>2, <4>5
    <3> QED BY <3>1, <3>2
  <2> QED BY <1>8, <1>11, <2>3, <2>4 DEF tr
<1> QED BY <1>10, <1>11


-----------------------------------------------------------------------------
(* Words, turns and audio: the session.                                    *)

\* Before the end, a stream is all before the Closed.
LEMMA BeforeNone ==
    ASSUME NEW s \in Seq(Event), Unended(s)
    PROVE  BeforeClosed(s) = s
<1>1. ClosedIn(s) = {}
  BY DEF ClosedIn, Unended
<1> QED BY <1>1 DEF BeforeClosed

\* An ended stream has its events before the Closed.
LEMMA BeforeEnd ==
    ASSUME NEW s \in Seq(Event), NEW k \in 1 .. Len(s), EndsAt(s, k)
    PROVE  BeforeClosed(s) = SubSeq(s, 1, k - 1)
<1>1. ClosedIn(s) = {k}
  BY DEF ClosedIn, EndsAt
<1>2. (CHOOSE i \in ClosedIn(s) : TRUE) = k
  BY <1>1
<1> QED BY <1>1, <1>2 DEF BeforeClosed

\* The Closed adds nothing before it.
LEMMA BeforePut ==
    ASSUME NEW s \in Seq(Event), Unended(s), NEW reason \in Reason
    PROVE  BeforeClosed(Append(s, Closed(reason))) = s
<1> DEFINE e == Closed(reason)
           t == Append(s, e)
<1>1. t \in Seq(Event) /\ Len(t) \in 1 .. Len(t) /\ EndsAt(t, Len(t))
  BY EndPut
<1>2. e \in Event
  BY DEF Closed, Event
<1> HIDE DEF e
<1>3. Len(t) - 1 = Len(s) /\ Len(s) \in Nat /\ \A i \in 1 .. Len(s) : t[i] = s[i]
  BY <1>2, AppendProperties
<1> HIDE DEF t
<1>4. BeforeClosed(t) = SubSeq(t, 1, Len(s))
  BY <1>1, <1>3, BeforeEnd
<1>5. SubSeq(t, 1, Len(s)) = s
  <2> DEFINE a == SubSeq(t, 1, Len(s))
  <2>1. a \in Seq(Event) /\ Len(a) = Len(s) /\ \A i \in 1 .. Len(s) : a[i] = s[i]
    BY <1>1, <1>3
  <2> HIDE DEF a
  <2>2. a = s
    BY <2>1, SeqEqual
  <2> QED BY <2>2 DEF a
<1> QED BY <1>4, <1>5 DEF t, e

\* What comes behind the Closed adds nothing before it.
LEMMA BeforeStays ==
    ASSUME NEW s \in Seq(Event), NEW t \in Seq(Said), NEW k \in 1 .. Len(s), EndsAt(s, k)
    PROVE  BeforeClosed(s \o t) = BeforeClosed(s)
<1>1. k \in 1 .. Len(s \o t) /\ EndsAt(s \o t, k)
  BY EndStaysPut
<1>2. t \in Seq(Event) /\ s \o t \in Seq(Event)
  <2>1. t \in Seq(Event)
    BY DEF Event
  <2> QED BY <2>1
<1>3. BeforeClosed(s) = SubSeq(s, 1, k - 1)
  BY BeforeEnd
<1>4. BeforeClosed(s \o t) = SubSeq(s \o t, 1, k - 1)
  BY <1>1, <1>2, BeforeEnd
<1>5. SubSeq(s \o t, 1, k - 1) = SubSeq(s, 1, k - 1)
  <2>1. /\ Len(s) \in Nat /\ k - 1 <= Len(s) /\ Len(s) <= Len(s \o t) /\ Len(s \o t) \in Nat
        /\ \A i \in 1 .. Len(s) : (s \o t)[i] = s[i]
    BY <1>2
  <2> QED BY <1>2, <2>1
<1> QED BY <1>3, <1>4, <1>5

(* While the session is open the stream and the open turn tell what was    *)
(* heard; the last turn of a stream with no turn open behind it was ended  *)
(* by a turn_complete.  From the end on, what is before the Closed tells   *)
(* it.                                                                     *)
Telling ==
    /\ HeardBy(heard, messages) /\ completes \subseteq 1 .. messages
    /\ ~ closed => /\ Tale(Stream, turn, heard, completes)
                   /\ turn.parts = <<>> => Rests(Stream, completes)
    /\ closed => Told(Visible, heard, completes)

\* The stream before and after its end.
LEMMA StreamShape ==
    ASSUME TypeOK, SessionEnded
    PROVE  /\ Stream \in Seq(Event)
           /\ ~ closed => Unended(Stream) /\ Visible = Stream
           /\ closed => \E k \in 1 .. Len(Stream) : EndsAt(Stream, k)
<1>1. Stream \in Seq(Event)
  BY DEF TypeOK, Stream
<1>2. ~ closed => Unended(Stream)
  BY DEF SessionEnded, Ended, Unended
<1>3. closed => \E k \in 1 .. Len(Stream) : EndsAt(Stream, k)
  BY DEF SessionEnded, Ended, EndsAt
<1>4. ~ closed => Visible = Stream
  BY <1>1, <1>2, BeforeNone DEF Visible
<1> QED BY <1>1, <1>2, <1>3, <1>4

\* A message is told, or comes after the end.
LEMMA TellMessage ==
    ASSUME TypeOK, SessionEnded, Telling, NEW m \in Shapes, ReaderMessage(m)
    PROVE  Telling'
<1> DEFINE id == messages + 1
           tr == Translate(turn, m, id)
           new == {[field |-> f, id |-> id] : f \in m \cap {"caller", "model", "audio"}}
<1>1. /\ messages \in Nat /\ id \in 1 .. MaxMessages /\ id - 1 = messages /\ messages' = id
      /\ turn \in Turn /\ closed' = closed /\ seen' = seen
      /\ turn' = tr.turn /\ inbox' = inbox \o tr.events
      /\ heard' = IF closed THEN heard ELSE heard \cup new
      /\ completes' = IF "complete" \in m THEN completes \cup {id} ELSE completes
  BY BoundsAssumption DEF ReaderMessage, TypeOK
<1>2. tr.events \in Seq(Said) /\ tr.events \in Seq(Event)
  <2>1. tr.events \in Seq(Said)
    BY <1>1, TranslateTyped
  <2> HIDE DEF tr
  <2> QED BY <2>1 DEF Event
<1>3. HeardBy(heard, messages) /\ completes \subseteq 1 .. messages
  BY DEF Telling
<1>4. HeardBy(heard', messages') /\ completes' \subseteq 1 .. messages'
  <2>1. completes' \subseteq 1 .. messages'
    BY <1>1, <1>3
  <2>2. \A f \in {"caller", "model", "audio"} :
           [field |-> f, id |-> id] \in [field : {"caller", "model", "audio"}, id : 1 .. id]
    BY <1>1
  <2>3. \A w \in heard : w \in [field : {"caller", "model", "audio"}, id : 1 .. id]
    BY <1>1, <1>3 DEF HeardBy
  <2> QED BY <1>1, <2>1, <2>2, <2>3 DEF HeardBy
<1> HIDE DEF tr
<1>5. Stream' = Stream \o tr.events
  <2> DEFINE said == tr.events
  <2>1. seen \in Seq(Event) /\ inbox \in Seq(Event) /\ said \in Seq(Event)
    BY <1>2 DEF TypeOK
  <2>2. Stream' = seen \o (inbox \o said)
    BY <1>1 DEF Stream
  <2> HIDE DEF said
  <2>3. Stream' = (seen \o inbox) \o said
    BY <2>1, <2>2, ConcatAssociative
  <2> QED BY <2>3 DEF Stream, said
<1>6. CASE ~ closed
  <2>1. /\ Stream \in Seq(Event) /\ Tale(Stream, turn, heard, completes)
        /\ turn.parts = <<>> => Rests(Stream, completes)
    BY <1>6, StreamShape DEF Telling
  <2>2. heard' = heard \cup new
    BY <1>1, <1>6
  <2> DEFINE ls == IF "complete" \in m THEN completes \cup {id} ELSE completes
  <2> HIDE DEF id
  <2>3. HeardBy(heard, id - 1) /\ completes \subseteq 1 .. id - 1
    BY <1>1, <1>3
  <2>4. /\ Tale(Stream \o tr.events, tr.turn, heard \cup new, ls)
        /\ tr.turn.parts = <<>> => Rests(Stream \o tr.events, ls)
    BY <1>1, <2>1, <2>3, TaleTranslate DEF tr
  <2> HIDE DEF new, ls
  <2>5. heard' = heard \cup new /\ completes' = ls
    BY <1>1, <2>2 DEF ls
  <2>6. /\ Tale(Stream \o tr.events, tr.turn, heard', completes')
        /\ tr.turn.parts = <<>> => Rests(Stream \o tr.events, completes')
    BY <2>4, <2>5
  <2> QED BY <1>1, <1>4, <1>5, <1>6, <2>6 DEF Telling
<1>7. CASE closed
  <2>1. PICK k \in 1 .. Len(Stream) : EndsAt(Stream, k)
    BY <1>7, StreamShape
  <2>2. Visible' = Visible
    BY <1>2, <1>5, <2>1, StreamShape, BeforeStays DEF Visible
  <2>3. heard' = heard /\ completes \subseteq completes'
    BY <1>1, <1>7
  <2>4. Told(Visible, heard, completes')
    BY <1>7, <2>3 DEF Telling, Told, OneTurnUnless, Divides
  <2> QED BY <1>1, <1>4, <1>7, <2>2, <2>3, <2>4 DEF Telling
<1> QED BY <1>6, <1>7

\* _emit_closed puts the open turn before the Closed.
LEMMA TellEmit ==
    ASSUME TypeOK, SessionEnded, Telling, NEW reason \in Reason,
           EmitClosed(reason), FirstCause(reason), seen' = seen,
           UNCHANGED <<messages, heard, completes>>
    PROVE  Telling'
<1>1. CASE closed
  <2>1. inbox' = inbox /\ turn' = turn /\ closed' = closed
    BY <1>1 DEF EmitClosed, streamVars
  <2>2. Stream' = Stream
    BY <2>1 DEF Stream
  <2> QED BY <1>1, <2>1, <2>2 DEF Telling, Visible
<1>2. CASE ~ closed
  <2> DEFINE st0 == Fresh(turn)
             st == Flush(st0)
             q == Stream \o st.events
  <2>1. /\ closed' = TRUE /\ turn' = st.turn
        /\ inbox' = (inbox \o st.events) \o <<Closed(reason)>>
    BY <1>2 DEF EmitClosed
  <2>2. Stream \in Seq(Event) /\ Unended(Stream) /\ Tale(Stream, turn, heard, completes)
    BY <1>2, StreamShape DEF Telling
  <2>3. st0 \in Translation /\ Stream \o st0.events = Stream /\ st0.turn = turn
    <3>1. st0.events = <<>> /\ st0.turn = turn /\ st0 \in Translation
      BY EmptySeq DEF Fresh, Translation, TypeOK
    <3> QED BY <2>2, <3>1
  <2>4. /\ Tale(q, st.turn, heard, completes)
        /\ st \in Translation /\ st.turn.parts = <<>>
    <3> HIDE DEF st0
    <3>1. Tale(Stream \o st0.events, st0.turn, heard, completes)
      BY <2>2, <2>3
    <3> HIDE DEF Stream
    <3>2. /\ Tale(Stream \o Flush(st0).events, Flush(st0).turn, heard, completes)
          /\ Flush(st0) \in Translation /\ Flush(st0).turn.parts = <<>>
      BY <2>2, <2>3, <3>1, TaleFlush
    <3> QED BY <3>2
  <2> HIDE DEF st, st0
  <2>5. st.events \in Seq(Said) /\ st.events \in Seq(Event)
    BY <2>4 DEF Translation, Event
  <2>6. q \in Seq(Event) /\ Unended(q)
    BY <2>2, <2>5, UnendedSaid DEF Tale
  <2>7. Told(q, heard, completes)
    BY <2>4, SilentTurn DEF Tale
  <2>8. Stream' = Append(q, Closed(reason))
    <3> DEFINE e == Closed(reason)
    <3>1. e \in Event /\ seen \in Seq(Event) /\ inbox \in Seq(Event)
      BY DEF Closed, Event, TypeOK
    <3> HIDE DEF e
    <3>2. (inbox \o st.events) \o <<e>> = Append(inbox \o st.events, e)
      BY <2>5, <3>1
    <3>3. seen \o Append(inbox \o st.events, e) = Append(seen \o (inbox \o st.events), e)
      BY <2>5, <3>1, AppendMoved
    <3>4. seen \o (inbox \o st.events) = (seen \o inbox) \o st.events
      <4> DEFINE said == st.events
      <4>1. said \in Seq(Event)
        BY <2>5
      <4> HIDE DEF said
      <4>2. seen \o (inbox \o said) = (seen \o inbox) \o said
        BY <3>1, <4>1, ConcatAssociative
      <4> QED BY <4>2 DEF said
    <3>5. Stream' = seen \o ((inbox \o st.events) \o <<e>>)
      BY <2>1 DEF Stream, e
    <3>6. Stream' = Append((seen \o inbox) \o st.events, e)
      BY <3>2, <3>3, <3>4, <3>5
    <3> QED BY <3>6 DEF e, Stream
  <2> HIDE DEF q
  <2>9. Visible' = q
    BY <2>6, <2>8, BeforePut DEF Visible
  <2> QED BY <2>1, <2>7, <2>9 DEF Telling
<1> QED BY <1>1, <1>2

\* Every step keeps Telling.
LEMMA TellStep == TypeOK /\ SessionEnded /\ Telling /\ [Next]_vars => Telling'
<1> SUFFICES ASSUME TypeOK, SessionEnded, Telling, [Next]_vars PROVE Telling'
  OBVIOUS
<1> DEFINE Ends == \E reason \in Reason : EmitClosed(reason) /\ FirstCause(reason)
           Rest == UNCHANGED <<seen, messages, heard, completes>>
<1>1. CASE Ends /\ Rest
  BY <1>1, TellEmit
<1>2. CASE Stream' = Stream /\ UNCHANGED <<turn, closed, messages, heard, completes>>
  BY <1>2 DEF Telling, Visible
<1>3. CASE Rest /\ UNCHANGED streamVars
  BY <1>2, <1>3 DEF Stream, streamVars
<1>4. CASE \E m \in Shapes : ReaderMessage(m)
  BY <1>4, TellMessage
<1>5. CASE Deliver
  BY <1>2, <1>5, DeliverKeeps
<1> QED BY <1>1, <1>3, <1>4, <1>5, StepKinds

\* A session that has not begun has nothing to tell.
LEMMA InitTelling == Init => Telling
<1> SUFFICES ASSUME Init PROVE Telling
  OBVIOUS
<1>1. /\ inbox = <<>> /\ seen = <<>> /\ turn = NoTurn /\ closed = FALSE
      /\ heard = {} /\ completes = {} /\ messages = 0
  BY DEF Init, Untouched
<1>2. Stream = <<>>
  BY <1>1 DEF Stream
<1> DEFINE none == <<>>
<1>3. none \in Seq(Event) /\ DOMAIN none = {}
  BY EmptySeq
<1>4. turn \in Turn /\ turn.role = "none" /\ turn.parts = <<>>
  BY <1>1, EmptySeq DEF NoTurn, Turn
<1> HIDE DEF none
<1>5. TurnsIn(none) = {} /\ ChunksIn(none) = {}
  BY <1>3 DEF TurnsIn, ChunksIn
<1>6. Text(heard) = {} /\ Audio(heard) = {}
  BY <1>1 DEF Text, Audio
<1>7. Told(none, heard, completes)
  BY <1>5, <1>6 DEF Told, WordsInOrder, WordsIn, OneTurnUnless, ChunksInOrder, ChunkIds
<1>8. Told(Append(none, Transcript(turn)), heard, completes)
  BY <1>3, <1>4, <1>7, SilentTurn
<1>9. Tale(none, turn, heard, completes)
  BY <1>3, <1>4, <1>8 DEF Tale
<1>10. Rests(none, completes)
  BY <1>3 DEF Rests
<1>11. HeardBy(heard, messages) /\ completes \subseteq 1 .. messages
  BY <1>1 DEF HeardBy
<1> QED BY <1>1, <1>2, <1>9, <1>10, <1>11 DEF Telling, none

\* Telling in every reachable state.
LEMMA AlwaysTelling == Spec => [](TypeOK /\ SessionEnded /\ Telling)
  BY InitTelling, TellStep, AlwaysEnded, PTL DEF Spec

\* What is spoken tells what was heard.
LEMMA SpokenTold ==
    ASSUME TypeOK, SessionEnded, Telling
    PROVE  Told(Spoken, heard, completes)
  BY StreamShape DEF Telling, Tale, Spoken

(***************************************************************************)
(* No word is lost, repeated or moved: every fragment received before the  *)
(* end is in exactly one turn before the Closed, or in the turn still      *)
(* open, in the order received (live.py:72-76, 255-260).                   *)
(***************************************************************************)
THEOREM EveryWordOnceHolds == Spec => []EveryWordOnce
<1>1. TypeOK /\ SessionEnded /\ Telling => EveryWordOnce
  BY SpokenTold DEF Told, EveryWordOnce
<1> QED BY <1>1, AlwaysTelling, PTL

(***************************************************************************)
(* Nothing but a turn_complete splits what one speaker says: two of one    *)
(* speaker's turns in a row have one between them (live.py:148-162), which *)
(* for the caller is less than live.py:134-137 say.                        *)
(***************************************************************************)
THEOREM OnlyCompleteSplitsHolds == Spec => []OnlyCompleteSplits
<1>1. TypeOK /\ SessionEnded /\ Telling => OnlyCompleteSplits
  BY SpokenTold DEF Told, OnlyCompleteSplits
<1> QED BY <1>1, AlwaysTelling, PTL

(***************************************************************************)
(* Audio is never held behind the accumulator and keeps its order: a chunk *)
(* received is in the stream at once (live.py:299-301).                    *)
(***************************************************************************)
THEOREM AudioNeverHeldHolds == Spec => []AudioNeverHeld
<1>1. TypeOK /\ SessionEnded /\ Telling => AudioNeverHeld
  <2> SUFFICES ASSUME TypeOK, SessionEnded, Telling PROVE AudioNeverHeld
    OBVIOUS
  <2>1. CASE ~ closed
    <3>1. /\ Stream \in Seq(Event) /\ turn \in Turn /\ Visible = Stream
          /\ Parts(Stream, Transcript(turn), heard, completes)
      BY <2>1, StreamShape, ToldParts DEF Telling, Tale
    <3> QED BY <3>1 DEF Parts, AudioNeverHeld
  <2>2. CASE closed
    BY <2>2 DEF Telling, Told, AudioNeverHeld
  <2> QED BY <2>1, <2>2
<1> QED BY <1>1, AlwaysTelling, PTL
-----------------------------------------------------------------------------
(* The story of a session: what it reports up to its Closed.               *)

Reported == UpToClosed(Stream)

\* A story goes on, or ends with the Closed, or is over.
LEMMA ReportedStep ==
    ASSUME TypeOK, SessionEnded, [Next]_vars
    PROVE  \/ UNCHANGED <<Reported, closed>>
           \/ /\ ~ closed /\ closed' = closed
              /\ Promised!IsPrefix(Reported, Reported')
              /\ Reported' \in Seq(Event) /\ Unended(Reported')
           \/ /\ ~ closed /\ closed' = TRUE
              /\ Promised!IsPrefix(Reported, Reported')
              /\ Reported' \in Seq(Event) /\ Len(Reported') \in 1 .. Len(Reported')
              /\ EndsAt(Reported', Len(Reported'))
<1>1. CASE UNCHANGED <<Stream, closed>>
  BY <1>1 DEF Reported
<1>2. CASE Deliver \/ UNCHANGED <<streamVars, seen>>
  BY <1>1, <1>2, DeliverKeeps DEF Stream, streamVars
<1>3. ASSUME closed, NEW said \in Seq(Said), Stream' = Stream \o said
      PROVE  Reported' = Reported
  <2>1. PICK k \in 1 .. Len(Stream) : EndsAt(Stream, k)
    BY <1>3, StreamShape
  <2>2. Stream \in Seq(Event) /\ Stream \o said \in Seq(Event)
    <3>1. Stream \in Seq(Event) /\ said \in Seq(Event)
      BY StreamShape DEF Event
    <3> QED BY <3>1
  <2>3. /\ k \in 1 .. Len(Stream \o said) /\ EndsAt(Stream \o said, k)
        /\ SubSeq(Stream \o said, 1, k) = SubSeq(Stream, 1, k)
    BY <2>1, <2>2, EndStaysPut
  <2>4. UpToClosed(Stream) = SubSeq(Stream, 1, k)
    BY <2>1, <2>2, UpToEnd
  <2>5. UpToClosed(Stream \o said) = SubSeq(Stream \o said, 1, k)
    BY <2>2, <2>3, UpToEnd
  <2> QED BY <1>3, <2>3, <2>4, <2>5 DEF Reported
<1>4. ASSUME ~ closed, NEW said \in Seq(Said), Stream' = Stream \o said
      PROVE  /\ Promised!IsPrefix(Reported, Reported')
             /\ Reported' \in Seq(Event) /\ Unended(Reported')
  <2>1. Stream \in Seq(Event) /\ Unended(Stream) /\ said \in Seq(Event)
    BY <1>4, StreamShape DEF Event
  <2>2. Stream \o said \in Seq(Event)
    BY <2>1
  <2>3. Unended(Stream \o said)
    BY <2>1, UnendedSaid
  <2>4. UpToClosed(Stream) = Stream /\ UpToClosed(Stream \o said) = Stream \o said
    BY <2>1, <2>2, <2>3, UpToNone
  <2>5. Promised!IsPrefix(Stream, Stream \o said)
    BY <2>1, Prefix
  <2> QED BY <1>4, <2>2, <2>3, <2>4, <2>5 DEF Reported
<1>5. ASSUME NEW m \in Shapes, ReaderMessage(m)
      PROVE  closed' = closed /\ \E said \in Seq(Said) : Stream' = Stream \o said
  BY <1>5, MessageGrows DEF ReaderMessage
<1>6. ASSUME ~ closed, seen' = seen,
             NEW reason \in Reason, EmitClosed(reason), FirstCause(reason)
      PROVE  /\ closed' = TRUE /\ Promised!IsPrefix(Reported, Reported')
             /\ Reported' \in Seq(Event) /\ Len(Reported') \in 1 .. Len(Reported')
             /\ EndsAt(Reported', Len(Reported'))
  <2>1. PICK last \in Seq(Said) : Stream' = Append(Stream \o last, Closed(reason))
    BY <1>6, EmitGrows
  <2>2. closed' = TRUE
    BY <1>6 DEF EmitClosed
  <2> DEFINE e == Closed(reason)
             t == Append(Stream \o last, e)
             more == Append(last, e)
  <2>3. /\ Stream \in Seq(Event) /\ Unended(Stream) /\ last \in Seq(Event) /\ e \in Event
        /\ UpToClosed(Stream) = Stream
    BY <1>6, StreamShape, UpToNone DEF Event, Closed
  <2>4. Stream \o last \in Seq(Event)
    BY <2>3
  <2>5. Unended(Stream \o last)
    BY <2>3, UnendedSaid
  <2>6. /\ t \in Seq(Event) /\ Len(t) \in 1 .. Len(t)
        /\ EndsAt(t, Len(t)) /\ SubSeq(t, 1, Len(t)) = t
    BY <2>4, <2>5, EndPut
  <2> HIDE DEF e
  <2>7. more \in Seq(Event) /\ t = Stream \o more
    <3>1. more \in Seq(Event)
      BY <2>3
    <3>2. Stream \o Append(last, e) = Append(Stream \o last, e)
      <4> HIDE DEF t, more
      <4> QED BY <2>3, AppendMoved
    <3> QED BY <3>1, <3>2
  <2> HIDE DEF t, more
  <2>8. UpToClosed(t) = t
    BY <2>6, UpToEnd
  <2>9. Promised!IsPrefix(Stream, t)
    BY <2>3, <2>7, Prefix
  <2>10. Reported = Stream /\ Reported' = t
    BY <2>1, <2>3, <2>8 DEF Reported, t, e
  <2> QED BY <2>2, <2>6, <2>9, <2>10
<1>7. CASE /\ seen' = seen
           /\ \E reason \in Reason : EmitClosed(reason) /\ FirstCause(reason)
  <2>1. CASE closed
    BY <1>2, <1>7, <2>1 DEF EmitClosed
  <2>2. CASE ~ closed
    BY <1>6, <1>7, <2>2
  <2> QED BY <2>1, <2>2
<1>8. CASE \E m \in Shapes : ReaderMessage(m)
  BY <1>3, <1>4, <1>5, <1>8
<1>9. \/ Deliver \/ UNCHANGED <<streamVars, seen>>
      \/ seen' = seen /\ \E reason \in Reason : EmitClosed(reason) /\ FirstCause(reason)
      \/ \E m \in Shapes : ReaderMessage(m)
  BY StepKinds
<1> QED BY <1>2, <1>7, <1>8, <1>9
=============================================================================
