--------------------------- MODULE LiveSessionSafety ---------------------------
(***************************************************************************)
(* What a live session must get right whatever its tasks do: the safety    *)
(* properties and the refinement.                                          *)
(***************************************************************************)
EXTENDS LiveSession

Stream == seen \o inbox
ClosedAt == {i \in DOMAIN Stream : Stream[i].kind = "closed"}

Turn == [role : {"none", "caller", "model"}, parts : Seq(1..MaxMessages)]
Said == [kind : {"transcript"}, role : {"caller", "model"}, parts : Seq(1..MaxMessages)]
        \cup [kind : {"audio"}, id : 1..MaxMessages]
        \cup {Interrupted}
Reason == {"local", "remote", "remote_error", "send_failed"}
Event == Said \cup [kind : {"closed"}, reason : Reason]

(* Every variable has its type.                                            *)
TypeOK ==
    /\ opening \in {"connecting", "greeting", "live", "failed"}
    /\ inbox \in Seq(Event) /\ seen \in Seq(Event)
    /\ outbox \in Seq(1..MaxFrames) /\ sent \in Seq(1..MaxFrames)
    /\ turn \in Turn
    /\ closed \in BOOLEAN /\ tornDown \in BOOLEAN /\ gotMessage \in BOOLEAN
    /\ reader \in {"none", "receiving", "done"}
    /\ drain \in {"none", "waiting", "sending", "done"}
    /\ cancelled \subseteq {"reader", "drain"}
    /\ closer \in [Closers -> {"idle", "awaitReader", "awaitDrain",
                               "closeTransport", "exitManager", "done", "raised"}]
    /\ transport \in {"none", "open", "closed"}
    /\ manager \in {"none", "entered", "exited"}
    /\ consumer \in {"iterating", "ended"}
    /\ messages \in 0..MaxMessages /\ frames \in 0..MaxFrames
    /\ heard \subseteq [field : {"caller", "model", "audio"}, id : 1..MaxMessages]
    /\ completes \subseteq 1..MaxMessages
    /\ cause \in Reason \cup {"none"}

(* One Closed per session however its endings race: the local close, the   *)
(* reader's exits and a failed send all reach _emit_closed (live.py:255).  *)
OneClosed == Cardinality(ClosedAt) = IF closed THEN 1 ELSE 0

(* The reason names what ended the session first: a local hang-up is never *)
(* labelled a remote failure by the reader it cancels (live.py:232-238).   *)
EndingNamed ==
    \A i \in ClosedAt : Stream[i].reason = cause

(* The socket is closed only when both tasks are stopped, whichever task   *)
(* of those that may call close() got there first (live.py:232-238).       *)
TasksStoppedFirst ==
    transport = "closed" =>
        reader = "done" /\ drain = "done" /\ cancelled = {}

(* Caller audio reaches the socket in order, without a gap or a repeat.    *)
FramesInOrder == sent \o outbox = [i \in 1..frames |-> i]

ClosedIn(s) == {i \in DOMAIN s : s[i].kind = "closed"}

\* A queue up to its Closed: the reader may append behind it once the drain or
\* a close() has emitted it, and nobody ever takes that.
UpToClosed(s) ==
    IF ClosedIn(s) = {} THEN s ELSE SubSeq(s, 1, CHOOSE i \in ClosedIn(s) : TRUE)

BeforeClosed(s) ==
    IF ClosedIn(s) = {} THEN s
    ELSE SubSeq(s, 1, (CHOOSE i \in ClosedIn(s) : TRUE) - 1)

-----------------------------------------------------------------------------
(* Words, turns and audio.                                                 *)

\* What events() yields before the Closed, and the turn still open.
Visible == BeforeClosed(Stream)
Spoken == IF closed THEN Visible ELSE Append(Visible, Transcript(turn))

TurnsIn(s) == {i \in DOMAIN s : s[i].kind = "transcript"}
ChunksIn(s) == {i \in DOMAIN s : s[i].kind = "audio"}

\* Fragments are received in this order: by message, the caller's first.
Key(role, id) == 2 * id + (IF role = "model" THEN 1 ELSE 0)
KeyOf(e, p) == Key(e.role, e.parts[p])

WordsOf(e) == {[field |-> e.role, id |-> e.parts[p]] : p \in DOMAIN e.parts}
WordsIn(s) == UNION {WordsOf(s[i]) : i \in TurnsIn(s)}
Text(h) == {w \in h : w.field # "audio"}

WordsInOrder(s) ==
    \A i, j \in TurnsIn(s) :
        \A p \in DOMAIN s[i].parts, q \in DOMAIN s[j].parts :
            i < j \/ (i = j /\ p < q) => KeyOf(s[i], p) < KeyOf(s[j], q)

(* No word is lost, repeated or moved: every fragment received before the  *)
(* end is in exactly one turn before the Closed, or in the turn still      *)
(* open, in the order received (live.py:72-76, 255-260).                   *)
EveryWordOnce == WordsInOrder(Spoken) /\ WordsIn(Spoken) = Text(heard)

\* A turn_complete came between two turns.
Divides(ks, e, f) == \E k \in ks : e.parts[Len(e.parts)] <= k /\ k < f.parts[1]

OneTurnUnless(s, ks) ==
    \A i, j \in TurnsIn(s) :
        /\ i < j /\ s[i].role = s[j].role
        /\ \A l \in i + 1 .. j - 1 : s[l].kind # "transcript"
        => Divides(ks, s[i], s[j])

(* Nothing but a turn_complete ever splits what one speaker says: two of   *)
(* one speaker's turns in a row, the second perhaps still open, have one   *)
(* between them (live.py:148-162).  For the model that is its whole turn   *)
(* (133).  For the caller it is less than the promise: 134-137 close a     *)
(* caller's turn at a role switch or the end alone, but the flush of       *)
(* 318-319 takes whatever turn is open; see CallerTurnsWhole.              *)
OnlyCompleteSplits == OneTurnUnless(Spoken, completes)

ChunkIds(s) == {s[i].id : i \in ChunksIn(s)}
Audio(h) == {w.id : w \in {v \in h : v.field = "audio"}}
ChunksInOrder(s) == \A i, j \in ChunksIn(s) : i < j => s[i].id < s[j].id

(* Audio is never held behind the accumulator and keeps its order: a chunk *)
(* received is in the stream at once (live.py:299-301).                    *)
AudioNeverHeld == ChunksInOrder(Visible) /\ ChunkIds(Visible) = Audio(heard)

-----------------------------------------------------------------------------
(* The stream that is promised.                                            *)

\* What events() will yet yield.
Awaited == IF consumer = "ended" THEN <<>> ELSE UpToClosed(inbox)

(* The session implements the FIFO stream with one terminal event: whatever *)
(* its tasks do, the consumer is given each event once, in order, and the   *)
(* Closed last (live.py:216-227, 255-266).                                  *)
Promised == INSTANCE EventStream WITH
    pending <- Awaited, given <- seen, ended <- closed

StreamPromised == Promised!Spec
=============================================================================
