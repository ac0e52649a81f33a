------------------------------ MODULE EventStream ------------------------------
(***************************************************************************)
(* What one live session promises the server that consumes it: a FIFO      *)
(* stream of events, given out in the order they were put in, that ends    *)
(* with exactly one `closed` event and nothing after it.                   *)
(***************************************************************************)
EXTENDS Naturals, Sequences, SequencesExt

VARIABLES
    pending,    \* events emitted and not yet consumed
    given,      \* events consumed
    ended       \* the closed event has been emitted

streamVars == <<pending, given, ended>>

IsClosed(e) == e.kind = "closed"

Init == pending = <<>> /\ given = <<>> /\ ended = FALSE

\* Events are emitted, none of them the closed one.
Emit ==
    /\ ~ended
    /\ IsPrefix(pending, pending')
    /\ \A i \in DOMAIN pending' : ~IsClosed(pending'[i])
    /\ UNCHANGED <<given, ended>>

\* The stream ends: the last events, then the closed one.
End ==
    /\ ~ended /\ ended' = TRUE
    /\ pending' # <<>>
    /\ IsPrefix(pending, pending')
    /\ \A i \in DOMAIN pending' : IsClosed(pending'[i]) <=> i = Len(pending')
    /\ UNCHANGED given

Deliver ==
    /\ pending # <<>>
    /\ given' = Append(given, Head(pending))
    /\ pending' = Tail(pending)
    /\ UNCHANGED ended

Spec == Init /\ [][Emit \/ End \/ Deliver]_streamVars
=============================================================================
