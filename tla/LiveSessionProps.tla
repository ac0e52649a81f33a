--------------------------- MODULE LiveSessionProps ---------------------------
(***************************************************************************)
(* What must happen in a live session in the end, and what two of its      *)
(* comments say of an opening that fails and of a caller's turn.           *)
(***************************************************************************)
EXTENDS LiveSessionSafety

(* No exit of any task leaves events() awaiting a queue nothing will fill  *)
(* (live.py:271-276).                                                      *)
StreamEnds ==
    (reader = "done" \/ drain = "done" \/ tornDown) ~> (consumer = "ended")

(* Once some task has begun close(), the SDK's connection manager is       *)
(* exited or the SDK's own close raised: awaiting the cancelled tasks      *)
(* cannot block for ever.                                                  *)
CloseCompletes ==
    tornDown ~> (manager = "exited" \/ \E c \in Closers : closer[c] = "raised")

(* Its exit is handed to the session "so close() can complete it"          *)
(* (live.py:420-422): no opening leaves the manager entered with no        *)
(* session for anyone to close.                                            *)
FailedOpenLeaksNothing == opening = "failed" => manager # "entered"

(* "A caller turn is closed by a ROLE SWITCH [...] or by session close"    *)
(* (live.py:134-138), and a transcript is "ONE WHOLE TURN -- never a       *)
(* fragment" (71-72): between two transcripts of the caller the model      *)
(* spoke.                                                                  *)
CallerTurnsWhole ==
    \A i, j \in TurnsIn(Spoken) :
        i < j /\ Spoken[i].role = "caller" /\ Spoken[j].role = "caller"
        => \E k \in TurnsIn(Spoken) : i < k /\ k < j /\ Spoken[k].role = "model"
=============================================================================
