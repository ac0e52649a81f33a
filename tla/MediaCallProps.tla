---------------------------- MODULE MediaCallProps ----------------------------
(***************************************************************************)
(* What the ending of a call must get right, stated over MediaCall.        *)
(***************************************************************************)
EXTENDS MediaCall

States == {"none", "accepted", "inCall", "events", "get", "sending", "lock",
           "stopOutbound", "closing", "stopPump", "delivering", "done", "crashed"}

\* The states in which a task is between acquiring the lock and releasing it.
InTeardown == {"stopOutbound", "closing", "stopPump", "delivering"}

Reasons == {"none", "twilio_stop", "ws_disconnect", "error", "twilio_send_failed",
            "gemini_local", "gemini_remote", "gemini_remote_error",
            "gemini_send_failed"}

(* Every variable of the call has its type, and the event loop neither     *)
(* holds a task twice nor forgets one that can go on.                      *)
TypeOK ==
    /\ ready \in Seq(Tasks)
    /\ task \in [Enders -> States]
    /\ stopped \subseteq {"pump", "outbound"}
    /\ why \in [Enders -> Reasons]
    /\ lock \in Enders \cup {"nobody"}
    /\ waiters \in Seq(Enders)
    /\ done \in BOOLEAN /\ senderClosed \in BOOLEAN
    /\ outQueue \in Nat
    /\ finalised \subseteq {"gemini", "twilio"}
    /\ pushed \subseteq {"gemini", "twilio"}
    /\ \A i, j \in DOMAIN ready : ready[i] = ready[j] => i = j
    /\ \A t \in Tasks : Awake(t) => InReady(t)

(* However the endings of one call race, on_call_end is given at most one  *)
(* record, only when the bridge is flushed, Gemini closed and both other   *)
(* tasks are over, and it never blames Gemini for the hang-up our own      *)
(* teardown decided: the pump meets that Closed only behind the lock       *)
(* (server.py:475-479, 504-515, 541-545).                                  *)
RecordOnceAndLast ==
    /\ Len(records) <= 1
    /\ \A i \in DOMAIN records : records[i].reason # "gemini_local"
    /\ records # <<>> =>
        /\ done /\ senderClosed /\ finalised # {}
        /\ transport = "closed" /\ manager = "exited"
        /\ \A t \in {"pump", "outbound"} :
               task[t] \in Over \/ (lock = t /\ task[t] = "delivering")

Stream == seen \o inbox
ClosedAt == {i \in DOMAIN Stream : Stream[i].kind = "closed"}

\* What the session reported up to its Closed, or until now.
UpToClosed ==
    IF ClosedAt = {} THEN Stream
                     ELSE SubSeq(Stream, 1, CHOOSE i \in ClosedAt : TRUE)

\* How a record names what Gemini did, and the endings that are not Gemini's.
Blame == [remote |-> "gemini_remote", remote_error |-> "gemini_remote_error",
          send_failed |-> "gemini_send_failed"]
OwnEndings == {"twilio_stop", "ws_disconnect", "error", "twilio_send_failed"}

(* However its tasks interleave, a call tells at most one record, and only *)
(* when the session's stream is closed: with every turn of it, and blaming *)
(* Gemini only for what really closed it (server.py:475-545).              *)
Story == INSTANCE CallStory WITH
    story <- UpToClosed, over <- closed, told <- records, Ours <- OwnEndings

StoryTold == Story!Spec

(* The record holds every turn the session reported before it closed, the  *)
(* one flushed by our own close included, although the pump that copies    *)
(* them is cancelled (server.py:517-522, live.py:258-260).                 *)
RecordHasEveryTurn ==
    \A i \in DOMAIN records : Story!CopiesTurns(records[i].transcript, UpToClosed)

(* A teardown that is over has handed off its record: "an ending added     *)
(* later cannot skip the record" (server.py:369-371).                      *)
EndingHasRecord == done /\ lock = "nobody" => records # <<>>

\* What may take a record with it: the session's close() raised, or the pump
\* died of an exception.
RecordLost == task["pump"] = "crashed" \/ \E t \in Enders : closer[t] = "raised"

(* What holds of it: nothing else skips the record, however the endings    *)
(* race and whichever task runs the teardown.                              *)
OnlyRaisingLosesRecord ==
    done /\ lock = "nobody" => records # <<>> \/ RecordLost

(* A task that met an ending is never stuck behind the lock: the holder    *)
(* does not await a task that awaits the holder (server.py:138-146).       *)
NoTaskStuck ==
    \A t \in Enders : (task[t] = "lock") ~> (task[t] \in Over)

(* Once the session's stream has ended, or a socket ending was met, the    *)
(* call's record is handed off, unless something raised.                   *)
EndingReachesRecord ==
    (consumer = "ended" \/ \E t \in Enders : task[t] = "lock")
        ~> (records # <<>> \/ RecordLost)
=============================================================================
