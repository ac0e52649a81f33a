------------------------------- MODULE Registry -------------------------------
(***************************************************************************)
(* The registry of pending sessions, src/decana/twilio/server.py: the      *)
(* voice webhook opens a session and registers it under its CallSid, the   *)
(* media socket's start message adopts it, and each of both first sweeps   *)
(* the sessions whose socket never came.                                   *)
(*                                                                         *)
(* A session is named by the webhook that opened it.  The event loop is    *)
(* single threaded: a request runs alone (`running`) until an await        *)
(* suspends it, and close() of a session that is already torn down does    *)
(* not.  dict order is not kept: a sweep visits its snapshot in any order. *)
(***************************************************************************)
EXTENDS Naturals, FiniteSets

CONSTANTS
    Calls, Webhooks, Sockets,
    CallOf,         \* the CallSid of each webhook and socket
    TTL, MaxTime,   \* pending_ttl_s; bound on the clock
    Faults,         \* what may raise: "open", "close", "begin"
    None

Requests == Webhooks \cup Sockets

ASSUME CallOfAssumption == CallOf \in [Requests -> Calls]
ASSUME DisjointAssumption == Webhooks \cap Sockets = {}
ASSUME NoneAssumption == None \notin Requests
ASSUME TimeAssumption == TTL \in Nat /\ MaxTime \in Nat
ASSUME FaultsAssumption == Faults \subseteq {"open", "close", "begin"}

VARIABLES
    now,        \* the clock
    registry,   \* the pending session of each CallSid
    session,    \* the life of the session each webhook opens
    pc,         \* where each request stands
    at,         \* the request's own `now`
    snapshot,   \* the sweep's entries still to visit
    awaiting,   \* the session whose close() the request awaits
    mine,       \* the session a socket took out of the registry
    running     \* the request that has not reached an await, if any

vars == <<now, registry, session, pc, at, snapshot, awaiting, mine, running>>

Init ==
    /\ now = 0
    /\ registry = [c \in Calls |-> None]
    /\ session = [w \in Webhooks |-> "unopened"]
    /\ pc = [r \in Requests |-> "idle"]
    /\ at = [r \in Requests |-> 0]
    /\ snapshot = [r \in Requests |-> {}]
    /\ awaiting = [r \in Requests |-> None]
    /\ mine = [k \in Sockets |-> None]
    /\ running = None

\* Mutated form: calls with nothing pending are visited too.
EveryKey(reg) == {reg[c] : c \in Calls}

Entries(reg) == {reg[c] : c \in Calls} \ {None}

Arrives(r) ==
    /\ running = None
    /\ pc[r] = "idle"
    /\ at' = [at EXCEPT ![r] = now]
    /\ pc' = [pc EXCEPT ![r] = "sweep"]
    /\ running' = r

\* Request r calls close() on s; a session already torn down returns at once.
Close(r, s) ==
    IF session[s] = "open"
    THEN /\ session' = [session EXCEPT ![s] = "closing"]
         /\ awaiting' = [awaiting EXCEPT ![r] = s]
         /\ running' = None
    ELSE /\ running' = r
         /\ UNCHANGED <<session, awaiting>>

\* The request goes on after an await, or has not reached one yet.
Runs(r) == running \in {None, r} /\ awaiting[r] = None

-----------------------------------------------------------------------------
(* The sweep, shared by both requests.                                     *)

Expired(r, w) == at[r] - at[w] > TTL

\* Mutated form: the sweep never gets past an entry.
StillThere(r, w) == snapshot[r]

Remaining(r, w) == snapshot[r] \ {w}

\* Mutated form: an expired entry is dropped and its session left open.
DropOnly(r, w) == running' = r /\ UNCHANGED <<session, awaiting>>

DropAndClose(r, w) == Close(r, w)

\* The guarded pop takes whatever the key holds NOW; what is closed is the
\* snapshot's session.
SweepEntry(r, w) ==
    /\ pc[r] = "sweep" /\ Runs(r)
    /\ w \in snapshot[r]
    /\ snapshot' = [snapshot EXCEPT ![r] = Remaining(r, w)]
    /\ IF Expired(r, w) /\ registry[CallOf[w]] # None
       THEN /\ registry' = [registry EXCEPT ![CallOf[w]] = None]
            /\ DropAndClose(r, w)
       ELSE /\ running' = r
            /\ UNCHANGED <<registry, session, awaiting>>
    /\ UNCHANGED <<now, pc, at, mine>>

\* The session a request awaits is closed, or its close() raises.
CloseReturns(r) ==
    /\ running = None /\ awaiting[r] # None
    /\ session' = [session EXCEPT ![awaiting[r]] = "closed"]
    /\ awaiting' = [awaiting EXCEPT ![r] = None]
    /\ \/ running' = r /\ UNCHANGED pc
       \/ /\ "close" \in Faults
          /\ pc' = [pc EXCEPT ![r] = "failed"]
          /\ running' = None
    /\ UNCHANGED <<now, registry, at, snapshot, mine>>

-----------------------------------------------------------------------------
(* POST /voice.                                                            *)

Voice(w) ==
    /\ Arrives(w)
    /\ snapshot' = [snapshot EXCEPT ![w] = Entries(registry)]
    /\ UNCHANGED <<now, registry, session, awaiting, mine>>

OpenSession(w) ==
    /\ pc[w] = "sweep" /\ Runs(w) /\ snapshot[w] = {}
    /\ pc' = [pc EXCEPT ![w] = "opening"]
    /\ running' = None
    /\ UNCHANGED <<now, registry, session, at, snapshot, awaiting, mine>>

OpenFails(w) ==
    /\ pc[w] = "opening" /\ running = None
    /\ "open" \in Faults
    /\ pc' = [pc EXCEPT ![w] = "failed"]
    /\ UNCHANGED <<now, registry, session, at, snapshot, awaiting, mine, running>>

Held(c) == registry[c]

\* The factory returns; _register looks up the session to supersede.
Opened(w) ==
    /\ pc[w] = "opening" /\ running = None
    /\ pc' = [pc EXCEPT ![w] = "superseding"]
    /\ LET superseded == Held(CallOf[w])
           opened == [session EXCEPT ![w] = "open"]
       IN  IF superseded # None /\ session[superseded] = "open"
           THEN /\ session' = [opened EXCEPT ![superseded] = "closing"]
                /\ awaiting' = [awaiting EXCEPT ![w] = superseded]
                /\ running' = None
           ELSE /\ session' = opened
                /\ running' = w
                /\ UNCHANGED awaiting
    /\ UNCHANGED <<now, registry, at, snapshot, mine>>

\* The write comes after the await, whatever the key holds by then.
Register(w) ==
    /\ pc[w] = "superseding" /\ Runs(w)
    /\ registry' = [registry EXCEPT ![CallOf[w]] = w]
    /\ pc' = [pc EXCEPT ![w] = "done"]
    /\ running' = None
    /\ UNCHANGED <<now, session, at, snapshot, awaiting, mine>>

-----------------------------------------------------------------------------
(* The media socket's start message, and the end of its call.              *)

\* Mutated form: the session is looked up and not taken out.
LeftIn(c) == registry

TakenOut(c) == [registry EXCEPT ![c] = None]

Start(k) ==
    /\ Arrives(k)
    /\ mine' = [mine EXCEPT ![k] = registry[CallOf[k]]]
    /\ registry' = TakenOut(CallOf[k])
    /\ snapshot' = [snapshot EXCEPT ![k] = Entries(registry')]
    /\ UNCHANGED <<now, session, awaiting>>

BeginCall(k) ==
    /\ pc[k] = "sweep" /\ Runs(k) /\ snapshot[k] = {}
    /\ \/ /\ pc' = [pc EXCEPT ![k] = IF mine[k] = None THEN "refused" ELSE "inCall"]
       \/ /\ "begin" \in Faults /\ mine[k] # None
          /\ pc' = [pc EXCEPT ![k] = "failed"]
    /\ running' = None
    /\ UNCHANGED <<now, registry, session, at, snapshot, awaiting, mine>>

\* The call's teardown closes its session.
HangUp(k) ==
    /\ pc[k] = "inCall" /\ running = None
    /\ pc' = [pc EXCEPT ![k] = "ending"]
    /\ Close(k, mine[k])
    /\ UNCHANGED <<now, registry, at, snapshot, mine>>

CallOver(k) ==
    /\ pc[k] = "ending" /\ Runs(k)
    /\ pc' = [pc EXCEPT ![k] = "done"]
    /\ running' = None
    /\ UNCHANGED <<now, registry, session, at, snapshot, awaiting, mine>>

Tick ==
    /\ running = None /\ now < MaxTime
    /\ now' = now + 1
    /\ UNCHANGED <<registry, session, pc, at, snapshot, awaiting, mine, running>>

-----------------------------------------------------------------------------
SweepStep(r) == \E w \in Webhooks : SweepEntry(r, w)
VoiceStep(w) == OpenSession(w) \/ OpenFails(w) \/ Opened(w) \/ Register(w)
SocketStep(k) == BeginCall(k) \/ CallOver(k)

Next == \/ Tick
        \/ \E r \in Requests : SweepStep(r) \/ CloseReturns(r)
        \/ \E w \in Webhooks : Voice(w) \/ VoiceStep(w)
        \/ \E k \in Sockets : Start(k) \/ SocketStep(k) \/ HangUp(k)

(* A request that began goes on, and an awaited close() or factory call    *)
(* returns.  Requests need not come, and a call need not end.              *)
Fairness ==
    /\ \A r \in Requests : WF_vars(SweepStep(r)) /\ WF_vars(CloseReturns(r))
    /\ \A w \in Webhooks : WF_vars(VoiceStep(w))
    /\ \A k \in Sockets : WF_vars(SocketStep(k))

Spec == Init /\ [][Next]_vars /\ Fairness

-----------------------------------------------------------------------------
(* Every variable has its type.                                            *)
TypeOK ==
    /\ now \in Nat
    /\ registry \in [Calls -> Webhooks \cup {None}]
    /\ session \in [Webhooks -> {"unopened", "open", "closing", "closed"}]
    /\ pc \in [Requests -> {"idle", "sweep", "opening", "superseding", "inCall",
                            "ending", "done", "refused", "failed"}]
    /\ at \in [Requests -> Nat]
    /\ snapshot \in [Requests -> SUBSET Webhooks]
    /\ awaiting \in [Requests -> Webhooks \cup {None}]
    /\ mine \in [Sockets -> Webhooks \cup {None}]
    /\ running \in Requests \cup {None}

\* What OneHolder needs to be inductive: a session is handed on only once its
\* webhook is done, and a request awaits a close() only inside a step of its.
Suspended ==
    \A r \in Requests : awaiting[r] # None =>
        pc[r] \in {"sweep", "superseding", "ending"}
Registered ==
    \A c \in Calls : registry[c] # None =>
        CallOf[registry[c]] = c /\ pc[registry[c]] = "done"
Adopted ==
    \A k \in Sockets : mine[k] # None =>
        pc[mine[k]] = "done" /\ CallOf[mine[k]] = CallOf[k] /\ pc[k] # "idle"

(* A session has one holder: it is pending under one CallSid or adopted by *)
(* one socket, never both and never twice, whatever requests interleave    *)
(* (server.py:361-363, 187-191).                                           *)
OneHolder ==
    /\ \A c, d \in Calls : registry[c] # None /\ registry[c] = registry[d] => c = d
    /\ \A j, k \in Sockets : mine[j] # None /\ mine[j] = mine[k] => j = k
    /\ \A c \in Calls, k \in Sockets : mine[k] # None => registry[c] # mine[k]

HolderInv == TypeOK /\ Suspended /\ Registered /\ Adopted /\ OneHolder

\* Twilio may retry the webhook of call c.
Retried(c) == \E v, w \in Webhooks : v # w /\ CallOf[v] = c /\ CallOf[w] = c

Orphaned(w) ==
    /\ session[w] = "open"
    /\ pc[w] # "superseding"
    /\ \A c \in Calls : registry[c] # w
    /\ \A k \in Sockets : mine[k] = w => pc[k] \notin {"sweep", "inCall"}

(* No session is orphaned: one that is open is pending, adopted by a       *)
(* running call, or in the hands of the webhook about to register it.  "A  *)
(* bare dict write would orphan the first session" (server.py:204-208).    *)
NoOrphan == \A w \in Webhooks : ~Orphaned(w)

(* What holds of it: the session of a call whose webhook is not retried is *)
(* orphaned only by the socket that took it and then failed to start the   *)
(* call, whatever the sweeps and the requests of other calls do.           *)
OrphanedByStartOnly ==
    \A w \in Webhooks : Orphaned(w) /\ ~Retried(CallOf[w]) =>
        \E k \in Sockets : mine[k] = w /\ pc[k] = "failed"

(* A running call's session is closed by nobody else when its webhook was  *)
(* not retried: a sweep never reaches the session of a call whose socket   *)
(* came, however late (server.py:356-359).                                 *)
CallKeepsSession ==
    \A k \in Sockets :
        /\ pc[k] \in {"sweep", "inCall"} /\ mine[k] # None
        /\ ~Retried(CallOf[k])
        => session[mine[k]] = "open"

(* A request that began is answered: no sweep, supersede or adoption waits *)
(* for another for ever.                                                   *)
RequestsFinish ==
    \A r \in Requests : (pc[r] = "sweep") ~>
        (pc[r] \in {"done", "failed", "refused", "inCall", "ending"})
=============================================================================
