---------------------------- MODULE RegistryProofs ----------------------------
(***************************************************************************)
(* Theorems about Registry, for any calls, webhooks, sockets, bounds and   *)
(* faults: the types, that a session has one holder, and that a session no *)
(* retry touched is neither leaked nor closed under its call.              *)
(***************************************************************************)
EXTENDS Registry, TLAPS

USE DEF Requests

\* Every step keeps every variable in its type.
LEMMA TypeStep == TypeOK /\ [Next]_vars => TypeOK'
<1> SUFFICES ASSUME TypeOK, [Next]_vars PROVE TypeOK'
  OBVIOUS
<1> USE CallOfAssumption, NoneAssumption
<1>1. CASE Tick
  BY <1>1 DEF Tick, TypeOK
<1>2. ASSUME NEW r \in Requests, SweepStep(r) PROVE TypeOK'
  <2>1. PICK w \in Webhooks : SweepEntry(r, w)
    BY <1>2 DEF SweepStep
  <2>2. CASE Expired(r, w) /\ registry[CallOf[w]] # None
    BY <2>1, <2>2 DEF SweepEntry, Remaining, DropAndClose, Close, Runs, TypeOK
  <2>3. CASE ~(Expired(r, w) /\ registry[CallOf[w]] # None)
    BY <2>1, <2>3 DEF SweepEntry, Remaining, Runs, TypeOK
  <2> QED BY <2>2, <2>3
<1>3. ASSUME NEW r \in Requests, CloseReturns(r) PROVE TypeOK'
  BY <1>3 DEF CloseReturns, TypeOK
<1>4. ASSUME NEW w \in Webhooks, Voice(w) PROVE TypeOK'
  BY <1>4 DEF Voice, Arrives, Entries, TypeOK
<1>5. ASSUME NEW w \in Webhooks, OpenSession(w) PROVE TypeOK'
  BY <1>5 DEF OpenSession, Runs, TypeOK
<1>6. ASSUME NEW w \in Webhooks, OpenFails(w) PROVE TypeOK'
  BY <1>6 DEF OpenFails, TypeOK
<1>7. ASSUME NEW w \in Webhooks, Opened(w) PROVE TypeOK'
  BY <1>7 DEF Opened, Held, TypeOK
<1>8. ASSUME NEW w \in Webhooks, Register(w) PROVE TypeOK'
  BY <1>8 DEF Register, Runs, TypeOK
<1>9. ASSUME NEW k \in Sockets, Start(k) PROVE TypeOK'
  BY <1>9 DEF Start, Arrives, TakenOut, Entries, TypeOK
<1>10. ASSUME NEW k \in Sockets, BeginCall(k) PROVE TypeOK'
  BY <1>10 DEF BeginCall, Runs, TypeOK
<1>11. ASSUME NEW k \in Sockets, HangUp(k) PROVE TypeOK'
  BY <1>11 DEF HangUp, Close, TypeOK
<1>12. ASSUME NEW k \in Sockets, CallOver(k) PROVE TypeOK'
  BY <1>12 DEF CallOver, Runs, TypeOK
<1>13. CASE UNCHANGED vars
  BY <1>13 DEF vars, TypeOK
<1> QED
  BY <1>1, <1>2, <1>3, <1>4, <1>5, <1>6, <1>7, <1>8, <1>9, <1>10, <1>11,
     <1>12, <1>13 DEF Next, VoiceStep, SocketStep

(***************************************************************************)
(* Type correctness: every request leaves every variable in its type, and  *)
(* a sweep visits only sessions (server.py:173-214, 310-363).              *)
(***************************************************************************)
THEOREM TypeCorrect == Spec => []TypeOK
<1>1. Init => TypeOK
  BY DEF Init, TypeOK
<1> QED
  BY <1>1, TypeStep, PTL DEF Spec

(***************************************************************************)
(* The inductive invariant of OneHolder.  Only Register puts a session     *)
(* into the registry, once, as its webhook ends; only Start moves it to a  *)
(* socket, and takes it out of the registry in the same step.              *)
(***************************************************************************)
LEMMA InitHolder == Init => HolderInv
  BY CallOfAssumption, NoneAssumption
  DEF Init, HolderInv, TypeOK, Suspended, Registered, Adopted, OneHolder

\* Every step keeps the inductive invariant.
LEMMA HolderStep == HolderInv /\ [Next]_vars => HolderInv'
<1> SUFFICES ASSUME HolderInv, [Next]_vars PROVE HolderInv'
  OBVIOUS
<1> USE CallOfAssumption, NoneAssumption, DisjointAssumption
<1>0. TypeOK /\ TypeOK'
  BY TypeStep DEF HolderInv
<1>1. CASE Tick
  BY <1>0, <1>1
  DEF Tick, HolderInv, Suspended, Registered, Adopted, OneHolder
<1>2. ASSUME NEW r \in Requests, SweepStep(r) PROVE HolderInv'
  <2>1. PICK w \in Webhooks : SweepEntry(r, w)
    BY <1>2 DEF SweepStep
  <2>2. \A c \in Calls : registry'[c] \in {registry[c], None}
    BY <1>0, <2>1 DEF SweepEntry, TypeOK
  <2>3. pc' = pc /\ mine' = mine
    BY <2>1 DEF SweepEntry
  <2>4. Suspended'
    <3>1. \A q \in Requests : q # r => awaiting'[q] = awaiting[q]
      BY <1>0, <2>1 DEF SweepEntry, DropAndClose, Close, TypeOK
    <3>2. pc[r] = "sweep"
      BY <2>1 DEF SweepEntry
    <3> QED
      BY <2>3, <3>1, <3>2 DEF HolderInv, Suspended
  <2> QED
    BY <1>0, <2>2, <2>3, <2>4 DEF HolderInv, Registered, Adopted, OneHolder
<1>3. ASSUME NEW r \in Requests, CloseReturns(r) PROVE HolderInv'
  <2>1. pc[r] \in {"sweep", "superseding", "ending"}
    BY <1>3 DEF CloseReturns, HolderInv, Suspended
  <2>2. registry' = registry /\ mine' = mine
    BY <1>3 DEF CloseReturns
  <2>3. \A q \in Requests : q # r => pc'[q] = pc[q] /\ awaiting'[q] = awaiting[q]
    BY <1>0, <1>3 DEF CloseReturns, TypeOK
  <2>4. awaiting'[r] = None /\ pc'[r] # "idle"
    BY <1>0, <1>3, <2>1 DEF CloseReturns, TypeOK
  <2> QED
    BY <1>0, <2>1, <2>2, <2>3, <2>4
    DEF HolderInv, Suspended, Registered, Adopted, OneHolder, TypeOK
<1>4. ASSUME NEW w \in Webhooks, Voice(w) PROVE HolderInv'
  BY <1>0, <1>4
  DEF Voice, Arrives, HolderInv, Suspended, Registered, Adopted, OneHolder, TypeOK
<1>5. ASSUME NEW w \in Webhooks, OpenSession(w) PROVE HolderInv'
  BY <1>0, <1>5
  DEF OpenSession, Runs, HolderInv, Suspended, Registered, Adopted, OneHolder, TypeOK
<1>6. ASSUME NEW w \in Webhooks, OpenFails(w) PROVE HolderInv'
  BY <1>0, <1>6
  DEF OpenFails, HolderInv, Suspended, Registered, Adopted, OneHolder, TypeOK
<1>7. ASSUME NEW w \in Webhooks, Opened(w) PROVE HolderInv'
  BY <1>0, <1>7
  DEF Opened, Held, HolderInv, Suspended, Registered, Adopted, OneHolder, TypeOK
<1>8. ASSUME NEW w \in Webhooks, Register(w) PROVE HolderInv'
  <2>1. /\ \A c \in Calls : registry[c] # w
        /\ \A k \in Sockets : mine[k] # w
    BY <1>0, <1>8 DEF Register, HolderInv, Registered, Adopted, TypeOK
  <2> QED
    BY <1>0, <1>8, <2>1
    DEF Register, Runs, HolderInv, Suspended, Registered, Adopted, OneHolder, TypeOK
<1>9. ASSUME NEW k \in Sockets, Start(k) PROVE HolderInv'
  <2> DEFINE w == registry[CallOf[k]]
  <2>1. /\ pc[k] = "idle" /\ CallOf[k] \in Calls
        /\ mine' = [mine EXCEPT ![k] = w]
        /\ registry' = [registry EXCEPT ![CallOf[k]] = None]
        /\ pc' = [pc EXCEPT ![k] = "sweep"]
        /\ UNCHANGED awaiting
    BY <1>0, <1>9 DEF Start, Arrives, TakenOut, TypeOK
  <2>2. Suspended'
    BY <1>0, <2>1 DEF HolderInv, Suspended, TypeOK
  <2>3. Registered'
    BY <1>0, <2>1 DEF HolderInv, Registered, TypeOK
  <2>4. Adopted'
    BY <1>0, <2>1 DEF HolderInv, Registered, Adopted, TypeOK
  <2>5. OneHolder'
    <3>1. \A j \in Sockets : mine[j] # None => mine[j] # w
      BY <1>0, <2>1 DEF HolderInv, OneHolder, TypeOK
    <3>2. \A c \in Calls : c # CallOf[k] /\ registry[c] # None => registry[c] # w
      BY <1>0, <2>1 DEF HolderInv, OneHolder, TypeOK
    <3> QED
      BY <1>0, <2>1, <3>1, <3>2 DEF HolderInv, OneHolder, TypeOK
  <2> QED
    BY <1>0, <2>2, <2>3, <2>4, <2>5 DEF HolderInv
<1>10. ASSUME NEW k \in Sockets, BeginCall(k) PROVE HolderInv'
  <2>1. UNCHANGED <<registry, awaiting, mine>> /\ awaiting[k] = None
    BY <1>10 DEF BeginCall, Runs
  <2>2. /\ \A q \in Requests : q # k => pc'[q] = pc[q]
        /\ pc'[k] # "idle"
    BY <1>0, <1>10 DEF BeginCall, TypeOK
  <2>3. \A w \in Webhooks : pc'[w] = pc[w]
    BY <2>2
  <2>4. Registered'
    BY <1>0, <2>1, <2>3 DEF HolderInv, Registered, TypeOK
  <2>5. Adopted'
    BY <1>0, <2>1, <2>2, <2>3 DEF HolderInv, Adopted, TypeOK
  <2> QED
    BY <1>0, <2>1, <2>2, <2>4, <2>5 DEF HolderInv, Suspended, OneHolder
<1>11. ASSUME NEW k \in Sockets, HangUp(k) PROVE HolderInv'
  BY <1>0, <1>11
  DEF HangUp, Close, HolderInv, Suspended, Registered, Adopted, OneHolder, TypeOK
<1>12. ASSUME NEW k \in Sockets, CallOver(k) PROVE HolderInv'
  BY <1>0, <1>12
  DEF CallOver, Runs, HolderInv, Suspended, Registered, Adopted, OneHolder, TypeOK
<1>13. CASE UNCHANGED vars
  BY <1>0, <1>13
  DEF vars, HolderInv, Suspended, Registered, Adopted, OneHolder
<1> QED
  BY <1>1, <1>2, <1>3, <1>4, <1>5, <1>6, <1>7, <1>8, <1>9, <1>10, <1>11,
     <1>12, <1>13 DEF Next, VoiceStep, SocketStep

(***************************************************************************)
(* However webhooks, retries, sockets, sweeps and failures interleave, no  *)
(* session is ever pending twice, adopted twice, or both: the pop that     *)
(* adopts it is atomic and its one write was its webhook's last step       *)
(* (server.py:187-191, 210-214, 361-363).                                  *)
(***************************************************************************)
THEOREM HolderSafe == Spec => []OneHolder
<1>1. HolderInv => OneHolder
  BY DEF HolderInv
<1> QED
  BY InitHolder, HolderStep, <1>1, PTL DEF Spec

(***************************************************************************)
(* Following the session of a webhook that is not retried.  Its key in the *)
(* registry is its own, so it is None or the session itself: superseding   *)
(* and sweeping can never meet another one's session there.                *)
(***************************************************************************)
\* A session is opened once, by its webhook.
Unborn ==
    \A w \in Webhooks :
        pc[w] \in {"idle", "sweep", "opening"} => session[w] = "unopened"

\* Only a session being closed is awaited, and by the one that closes it.
AwaitedCloses ==
    \A r \in Requests : awaiting[r] # None =>
        /\ session[awaiting[r]] = "closing"
        /\ \A q \in Requests : awaiting[q] = awaiting[r] => q = r

InUse(k, w) == mine[k] = w /\ pc[k] \in {"sweep", "inCall"}

\* Where session w is while it is open, and that it is open there.
Followed(w) ==
    /\ pc[w] = "superseding" => session[w] = "open" /\ awaiting[w] = None
    /\ registry[CallOf[w]] = w => session[w] = "open"
    /\ \A k \in Sockets : InUse(k, w) => session[w] = "open"
    /\ session[w] = "open" =>
          \/ pc[w] = "superseding"
          \/ registry[CallOf[w]] = w
          \/ \E k \in Sockets : InUse(k, w) \/ (mine[k] = w /\ pc[k] = "failed")

Alone(w) == \A v \in Webhooks : CallOf[v] = CallOf[w] => v = w

FollowInv ==
    /\ HolderInv /\ Unborn /\ AwaitedCloses
    /\ \A w \in Webhooks : Alone(w) => Followed(w)

\* A webhook that is not retried is alone under its CallSid.
LEMMA AloneUnlessRetried ==
    \A w \in Webhooks : ~Retried(CallOf[w]) => Alone(w)
BY DEF Retried, Alone

\* The key of an unretried webhook holds its own session or none.
LEMMA OwnKey ==
    ASSUME HolderInv, NEW w \in Webhooks, Alone(w), registry[CallOf[w]] # None
    PROVE  registry[CallOf[w]] = w /\ pc[w] = "done"
<1>1. CallOf[w] \in Calls /\ registry[CallOf[w]] \in Webhooks
  BY CallOfAssumption DEF HolderInv, TypeOK
<1> QED
  BY <1>1 DEF HolderInv, Registered, Alone

\* Nothing is open when the server starts.
LEMMA InitFollow == Init => FollowInv
<1> SUFFICES ASSUME Init PROVE FollowInv
  OBVIOUS
<1>1. HolderInv
  BY InitHolder
<1> QED
  BY <1>1, CallOfAssumption, NoneAssumption
  DEF Init, FollowInv, Unborn, AwaitedCloses, Followed, InUse

\* Sessions are born closed to others, and awaited only while they close.
LEMMA BirthStep ==
    ASSUME FollowInv, [Next]_vars
    PROVE  Unborn' /\ AwaitedCloses'
<1> USE CallOfAssumption, NoneAssumption, DisjointAssumption
<1>0. TypeOK /\ TypeOK' /\ HolderInv /\ Unborn /\ AwaitedCloses
  BY TypeStep DEF HolderInv, FollowInv
<1>1. CASE Tick
  BY <1>0, <1>1 DEF Tick, Unborn, AwaitedCloses
<1>2. ASSUME NEW r \in Requests, SweepStep(r) PROVE Unborn' /\ AwaitedCloses'
  <2>1. PICK w \in Webhooks : SweepEntry(r, w)
    BY <1>2 DEF SweepStep
  <2>2. CASE Expired(r, w) /\ registry[CallOf[w]] # None
    BY <1>0, <2>1, <2>2
    DEF SweepEntry, DropAndClose, Close, Unborn, AwaitedCloses, TypeOK
  <2>3. CASE ~(Expired(r, w) /\ registry[CallOf[w]] # None)
    BY <1>0, <2>1, <2>3 DEF SweepEntry, Unborn, AwaitedCloses
  <2> QED BY <2>2, <2>3
<1>3. ASSUME NEW r \in Requests, CloseReturns(r) PROVE Unborn' /\ AwaitedCloses'
  <2> DEFINE s == awaiting[r]
  <2>1. /\ s \in Webhooks /\ session[s] = "closing"
        /\ session' = [session EXCEPT ![s] = "closed"]
        /\ awaiting' = [awaiting EXCEPT ![r] = None]
        /\ pc[r] \notin {"idle", "opening"}
        /\ pc' = pc \/ pc' = [pc EXCEPT ![r] = "failed"]
    BY <1>0, <1>3
    DEF CloseReturns, AwaitedCloses, HolderInv, Suspended, TypeOK
  <2>2. Unborn'
    BY <1>0, <2>1 DEF Unborn, TypeOK
  <2>3. ASSUME NEW q \in Requests, awaiting'[q] # None
        PROVE  /\ session'[awaiting'[q]] = "closing"
               /\ \A p \in Requests : awaiting'[p] = awaiting'[q] => p = q
    <3>1. q # r /\ awaiting'[q] = awaiting[q]
      BY <1>0, <2>1, <2>3 DEF TypeOK
    <3>2. awaiting[q] # s /\ session[awaiting[q]] = "closing"
      BY <1>0, <1>3, <2>3, <3>1 DEF AwaitedCloses, CloseReturns
    <3>3. session'[awaiting'[q]] = "closing"
      BY <1>0, <2>1, <2>3, <3>1, <3>2 DEF TypeOK
    <3> QED
      BY <1>0, <2>1, <2>3, <3>1, <3>3 DEF AwaitedCloses, TypeOK
  <2> QED BY <2>2, <2>3 DEF AwaitedCloses
<1>4. ASSUME NEW w \in Webhooks, Voice(w) PROVE Unborn' /\ AwaitedCloses'
  BY <1>0, <1>4 DEF Voice, Arrives, Unborn, AwaitedCloses, TypeOK
<1>5. ASSUME NEW w \in Webhooks, OpenSession(w) PROVE Unborn' /\ AwaitedCloses'
  BY <1>0, <1>5 DEF OpenSession, Unborn, AwaitedCloses, TypeOK
<1>6. ASSUME NEW w \in Webhooks, OpenFails(w) PROVE Unborn' /\ AwaitedCloses'
  BY <1>0, <1>6 DEF OpenFails, Unborn, AwaitedCloses, TypeOK
<1>7. ASSUME NEW w \in Webhooks, Opened(w) PROVE Unborn' /\ AwaitedCloses'
  BY <1>0, <1>7
  DEF Opened, Held, HolderInv, Registered, Unborn, AwaitedCloses, TypeOK
<1>8. ASSUME NEW w \in Webhooks, Register(w) PROVE Unborn' /\ AwaitedCloses'
  BY <1>0, <1>8 DEF Register, Unborn, AwaitedCloses, TypeOK
<1>9. ASSUME NEW k \in Sockets, Start(k) PROVE Unborn' /\ AwaitedCloses'
  BY <1>0, <1>9 DEF Start, Arrives, Unborn, AwaitedCloses, TypeOK
<1>10. ASSUME NEW k \in Sockets, BeginCall(k) PROVE Unborn' /\ AwaitedCloses'
  BY <1>0, <1>10 DEF BeginCall, Unborn, AwaitedCloses, TypeOK
<1>11. ASSUME NEW k \in Sockets, HangUp(k) PROVE Unborn' /\ AwaitedCloses'
  BY <1>0, <1>11 DEF HangUp, Close, Unborn, AwaitedCloses, TypeOK
<1>12. ASSUME NEW k \in Sockets, CallOver(k) PROVE Unborn' /\ AwaitedCloses'
  BY <1>0, <1>12 DEF CallOver, Unborn, AwaitedCloses, TypeOK
<1>13. CASE UNCHANGED vars
  BY <1>0, <1>13 DEF vars, Unborn, AwaitedCloses
<1> QED
  BY <1>1, <1>2, <1>3, <1>4, <1>5, <1>6, <1>7, <1>8, <1>9, <1>10, <1>11,
     <1>12, <1>13 DEF Next, VoiceStep, SocketStep

\* Every step keeps track of the session of an unretried webhook.
LEMMA FollowStep ==
    ASSUME FollowInv, [Next]_vars, NEW w \in Webhooks, Alone(w)
    PROVE  Followed(w)'
<1> USE CallOfAssumption, NoneAssumption, DisjointAssumption
<1>0. /\ TypeOK /\ TypeOK' /\ HolderInv /\ Unborn /\ AwaitedCloses
      /\ Followed(w) /\ Suspended /\ Registered /\ Adopted /\ OneHolder
      /\ CallOf[w] \in Calls /\ w # None /\ w \in Requests
  BY TypeStep DEF HolderInv, FollowInv
<1>00. registry[CallOf[w]] # None => registry[CallOf[w]] = w /\ pc[w] = "done"
  BY <1>0, OwnKey
<1>1. CASE Tick
  BY <1>0, <1>1 DEF Tick, Followed, InUse
<1>2. ASSUME NEW r \in Requests, SweepStep(r) PROVE Followed(w)'
  <2>1. PICK v \in Webhooks : SweepEntry(r, v)
    BY <1>2 DEF SweepStep
  <2>2. pc' = pc /\ mine' = mine
    BY <2>1 DEF SweepEntry
  <2>3. CASE Expired(r, v) /\ registry[CallOf[v]] # None
    <3>1. registry' = [registry EXCEPT ![CallOf[v]] = None] /\ Close(r, v)
      BY <2>1, <2>3 DEF SweepEntry, DropAndClose
    <3>2. CASE v = w
      <4>1. registry[CallOf[w]] = w /\ pc[w] = "done"
        BY <1>00, <2>3, <3>2
      <4>2. \A k \in Sockets : mine[k] # w
        BY <1>0, <4>1 DEF OneHolder
      <4>3. session'[w] # "open" /\ registry'[CallOf[w]] = None
        BY <1>0, <3>1, <3>2 DEF Close, TypeOK
      <4> QED
        BY <1>0, <2>2, <4>1, <4>2, <4>3 DEF Followed, InUse
    <3>3. CASE v # w
      <4>1. CallOf[v] # CallOf[w]
        BY <3>3 DEF Alone
      <4>2. registry'[CallOf[w]] = registry[CallOf[w]]
        BY <1>0, <3>1, <4>1 DEF TypeOK
      <4>3. session'[w] = session[w]
        BY <1>0, <3>1, <3>3 DEF Close, TypeOK
      <4>4. awaiting'[w] = awaiting[w] \/ pc[w] = "sweep"
        BY <1>0, <2>1, <3>1 DEF SweepEntry, Close, TypeOK
      <4> QED
        BY <1>0, <2>2, <4>2, <4>3, <4>4 DEF Followed, InUse
    <3> QED BY <3>2, <3>3
  <2>4. CASE ~(Expired(r, v) /\ registry[CallOf[v]] # None)
    BY <1>0, <2>1, <2>4 DEF SweepEntry, Followed, InUse
  <2> QED BY <2>3, <2>4
<1>3. ASSUME NEW r \in Requests, CloseReturns(r) PROVE Followed(w)'
  <2>1. /\ registry' = registry /\ mine' = mine
        /\ session' = [session EXCEPT ![awaiting[r]] = "closed"]
        /\ awaiting' = [awaiting EXCEPT ![r] = None]
        /\ awaiting[r] \in Webhooks /\ session[awaiting[r]] = "closing"
    BY <1>0, <1>3 DEF CloseReturns, AwaitedCloses, TypeOK
  <2>2. session[w] = "open" <=> session'[w] = "open"
    BY <1>0, <2>1 DEF TypeOK
  <2>3. pc[w] = "superseding" => w # r
    BY <1>0, <1>3 DEF CloseReturns, Followed
  <2>4. /\ \A q \in Requests : q # r => pc'[q] = pc[q]
        /\ pc'[r] = pc[r] \/ pc'[r] = "failed"
    BY <1>0, <1>3 DEF CloseReturns, TypeOK
  <2>5. pc'[w] = "superseding" => pc[w] = "superseding" /\ awaiting'[w] = None
    BY <1>0, <2>1, <2>3, <2>4 DEF Followed, TypeOK
  <2>6. pc[w] = "superseding" => pc'[w] = "superseding"
    BY <1>0, <2>3, <2>4
  <2>7. \A k \in Sockets : InUse(k, w)' => InUse(k, w)
    BY <2>1, <2>4 DEF InUse
  <2>8. \A k \in Sockets : InUse(k, w) \/ (mine[k] = w /\ pc[k] = "failed") =>
            InUse(k, w)' \/ (mine'[k] = w /\ pc'[k] = "failed")
    BY <2>1, <2>4 DEF InUse
  <2> QED
    BY <1>0, <2>1, <2>2, <2>5, <2>6, <2>7, <2>8 DEF Followed
<1>4. ASSUME NEW v \in Webhooks, Voice(v) PROVE Followed(w)'
  BY <1>0, <1>4 DEF Voice, Arrives, Followed, InUse, TypeOK
<1>5. ASSUME NEW v \in Webhooks, OpenSession(v) PROVE Followed(w)'
  BY <1>0, <1>5 DEF OpenSession, Followed, InUse, TypeOK
<1>6. ASSUME NEW v \in Webhooks, OpenFails(v) PROVE Followed(w)'
  BY <1>0, <1>6 DEF OpenFails, Followed, InUse, TypeOK
<1>7. ASSUME NEW v \in Webhooks, Opened(v) PROVE Followed(w)'
  <2> DEFINE u == registry[CallOf[v]]
  <2>1. /\ pc[v] = "opening" /\ pc' = [pc EXCEPT ![v] = "superseding"]
        /\ UNCHANGED <<registry, mine>>
    BY <1>7 DEF Opened
  <2>2. CASE v = w
    <3>1. registry[CallOf[w]] = None
      BY <1>00, <2>1, <2>2
    <3>2. session' = [session EXCEPT ![w] = "open"] /\ awaiting' = awaiting
      BY <1>7, <2>2, <3>1 DEF Opened, Held
    <3>3. awaiting[w] = None
      BY <1>0, <2>1, <2>2 DEF Suspended
    <3>4. pc'[w] = "superseding" /\ session'[w] = "open"
      BY <1>0, <2>1, <2>2, <3>2 DEF TypeOK
    <3> QED
      BY <1>0, <2>1, <3>1, <3>2, <3>3, <3>4 DEF Followed
  <2>3. CASE v # w
    <3>1. CallOf[v] # CallOf[w]
      BY <2>3 DEF Alone
    <3>2. u # w
      BY <1>0, <3>1 DEF Registered
    <3>3. session'[w] = session[w] /\ awaiting'[w] = awaiting[w]
      BY <1>0, <1>7, <2>3, <3>2 DEF Opened, Held, TypeOK
    <3>4. \A q \in Requests : q # v => pc'[q] = pc[q]
      BY <1>0, <2>1 DEF TypeOK
    <3>5. \A k \in Sockets : pc'[k] = pc[k]
      BY <3>4
    <3> QED
      BY <1>0, <2>1, <2>3, <3>3, <3>4, <3>5 DEF Followed, InUse
  <2> QED BY <2>2, <2>3
<1>8. ASSUME NEW v \in Webhooks, Register(v) PROVE Followed(w)'
  <2>1. /\ registry' = [registry EXCEPT ![CallOf[v]] = v]
        /\ pc[v] = "superseding" /\ pc' = [pc EXCEPT ![v] = "done"]
        /\ UNCHANGED <<session, awaiting, mine>>
    BY <1>8 DEF Register
  <2>2. CASE v = w
    BY <1>0, <2>1, <2>2 DEF Followed, InUse, TypeOK
  <2>3. CASE v # w
    <3>1. CallOf[v] # CallOf[w]
      BY <2>3 DEF Alone
    <3> QED
      BY <1>0, <2>1, <2>3, <3>1 DEF Followed, InUse, TypeOK
  <2> QED BY <2>2, <2>3
<1>9. ASSUME NEW j \in Sockets, Start(j) PROVE Followed(w)'
  <2>1. /\ pc[j] = "idle" /\ mine[j] = None
        /\ mine' = [mine EXCEPT ![j] = registry[CallOf[j]]]
        /\ registry' = [registry EXCEPT ![CallOf[j]] = None]
        /\ pc' = [pc EXCEPT ![j] = "sweep"]
        /\ UNCHANGED <<session, awaiting>>
    BY <1>0, <1>9 DEF Start, Arrives, TakenOut, Adopted
  <2>2. CASE registry[CallOf[j]] = w
    <3>1. CallOf[j] = CallOf[w] /\ pc[w] = "done" /\ session[w] = "open"
      BY <1>0, <2>2 DEF Registered, Followed
    <3>2. InUse(j, w)'
      BY <1>0, <2>1, <2>2 DEF InUse, TypeOK
    <3> QED
      BY <1>0, <2>1, <3>1, <3>2 DEF Followed, TypeOK
  <2>3. CASE registry[CallOf[j]] # w
    <3>1. \A k \in Sockets : mine'[k] = w <=> mine[k] = w
      BY <1>0, <2>1, <2>3 DEF TypeOK
    <3>2. registry'[CallOf[w]] = w <=> registry[CallOf[w]] = w
      BY <1>0, <2>1, <2>3 DEF TypeOK
    <3>3. /\ \A k \in Sockets : mine[k] = w => pc'[k] = pc[k]
          /\ pc'[w] = pc[w]
      BY <1>0, <2>1 DEF TypeOK
    <3> QED
      BY <1>0, <2>1, <3>1, <3>2, <3>3 DEF Followed, InUse
  <2> QED BY <2>2, <2>3
<1>10. ASSUME NEW j \in Sockets, BeginCall(j) PROVE Followed(w)'
  <2>1. UNCHANGED <<registry, session, awaiting, mine>>
    BY <1>10 DEF BeginCall
  <2>2. /\ \A q \in Requests : q # j => pc'[q] = pc[q]
        /\ pc[j] = "sweep"
        /\ mine[j] # None => pc'[j] \in {"inCall", "failed"}
    BY <1>0, <1>10 DEF BeginCall, TypeOK
  <2>3. pc'[w] = pc[w]
    BY <1>0, <2>2
  <2> QED
    BY <1>0, <2>1, <2>2, <2>3 DEF Followed, InUse
<1>11. ASSUME NEW j \in Sockets, HangUp(j) PROVE Followed(w)'
  <2>1. /\ pc[j] = "inCall" /\ pc' = [pc EXCEPT ![j] = "ending"]
        /\ Close(j, mine[j]) /\ UNCHANGED <<registry, mine>>
    BY <1>11 DEF HangUp
  <2>2. pc'[w] = pc[w] /\ awaiting'[w] = awaiting[w]
    BY <1>0, <2>1 DEF Close, TypeOK
  <2>3. CASE mine[j] = w
    <3>1. \A k \in Sockets : mine[k] = w => k = j
      BY <1>0, <2>3 DEF OneHolder
    <3>2. registry[CallOf[w]] # w /\ pc[w] = "done"
      BY <1>0, <2>3 DEF OneHolder, Adopted
    <3>3. session'[w] # "open" /\ pc'[j] = "ending"
      BY <1>0, <2>1, <2>3 DEF Close, TypeOK
    <3> QED
      BY <1>0, <2>1, <2>2, <3>1, <3>2, <3>3 DEF Followed, InUse
  <2>4. CASE mine[j] # w
    <3>1. session'[w] = session[w]
      BY <1>0, <2>1, <2>4 DEF Close, TypeOK
    <3>2. \A k \in Sockets : mine[k] = w => pc'[k] = pc[k]
      BY <1>0, <2>1, <2>4 DEF TypeOK
    <3> QED
      BY <1>0, <2>1, <2>2, <3>1, <3>2 DEF Followed, InUse
  <2> QED BY <2>3, <2>4
<1>12. ASSUME NEW j \in Sockets, CallOver(j) PROVE Followed(w)'
  BY <1>0, <1>12 DEF CallOver, Followed, InUse, TypeOK
<1>13. CASE UNCHANGED vars
  BY <1>0, <1>13 DEF vars, Followed, InUse
<1> QED
  BY <1>1, <1>2, <1>3, <1>4, <1>5, <1>6, <1>7, <1>8, <1>9, <1>10, <1>11,
     <1>12, <1>13 DEF Next, VoiceStep, SocketStep

\* The whole invariant, in every reachable state.
LEMMA FollowAlways == Spec => []FollowInv
<1>1. FollowInv /\ [Next]_vars => FollowInv'
  <2> SUFFICES ASSUME FollowInv, [Next]_vars PROVE FollowInv'
    OBVIOUS
  <2>1. HolderInv'
    BY HolderStep DEF FollowInv
  <2>2. Unborn' /\ AwaitedCloses'
    BY BirthStep
  <2>3. \A w \in Webhooks : Alone(w)' => Followed(w)'
    BY FollowStep DEF Alone
  <2> QED BY <2>1, <2>2, <2>3 DEF FollowInv
<1> QED
  BY InitFollow, <1>1, PTL DEF Spec

(***************************************************************************)
(* A session no retry touched is orphaned only by the socket that adopted  *)
(* it and then failed to start its call: until then its key in the         *)
(* registry is its own, and whoever pops it closes it or takes it over     *)
(* (server.py:187-192, 210-214, 361-363, 405-428).                         *)
(***************************************************************************)
THEOREM OrphanedByStartOnlyHolds == Spec => []OrphanedByStartOnly
<1>1. FollowInv => OrphanedByStartOnly
  <2> SUFFICES ASSUME FollowInv, NEW w \in Webhooks, Orphaned(w), ~Retried(CallOf[w])
               PROVE  \E k \in Sockets : mine[k] = w /\ pc[k] = "failed"
    BY DEF OrphanedByStartOnly
  <2>1. Followed(w) /\ CallOf[w] \in Calls
    BY AloneUnlessRetried, CallOfAssumption DEF FollowInv
  <2> QED
    BY <2>1 DEF Followed, InUse, Orphaned
<1> QED
  BY FollowAlways, <1>1, PTL

(***************************************************************************)
(* Nobody closes the session of a running call whose webhook was not       *)
(* retried, however late its socket came and whatever sweeps are under     *)
(* way: the adoption took the only entry a sweep could pop                 *)
(* (server.py:187-192, 356-363).                                           *)
(***************************************************************************)
THEOREM CallKeepsSessionHolds == Spec => []CallKeepsSession
<1>1. FollowInv => CallKeepsSession
  <2> SUFFICES ASSUME FollowInv, NEW k \in Sockets, pc[k] \in {"sweep", "inCall"},
                      mine[k] # None, ~Retried(CallOf[k])
               PROVE  session[mine[k]] = "open"
    BY DEF CallKeepsSession
  <2> DEFINE w == mine[k]
  <2>1. w \in Webhooks /\ CallOf[w] = CallOf[k]
    BY DEF FollowInv, HolderInv, TypeOK, Adopted
  <2>2. Followed(w) /\ InUse(k, w)
    BY <2>1, AloneUnlessRetried DEF FollowInv, InUse
  <2> QED
    BY <2>1, <2>2 DEF Followed
<1> QED
  BY FollowAlways, <1>1, PTL
=============================================================================
