--------------------------- MODULE SpendGuardProofs ---------------------------
(***************************************************************************)
(* Theorems about SpendGuard, for any processes, cap and number of days:   *)
(* the types, and that the cap holds across crashes.                       *)
(***************************************************************************)
EXTENDS SpendGuard, TLAPS

USE DEF Days, Ledger, State, Corrupt, Goto

\* Every step keeps every variable in its type.
LEMMA TypeStep == GuardTypeOK /\ [GuardNext]_guardVars => GuardTypeOK'
<1> SUFFICES ASSUME GuardTypeOK, [GuardNext]_guardVars PROVE GuardTypeOK'
  OBVIOUS
<1> USE LastDayAssumption, CapAssumption DEF GuardTypeOK
<1>1. CASE Midnight
  BY <1>1 DEF Midnight
<1>2. ASSUME NEW p \in Procs, TrySpend(p) PROVE GuardTypeOK'
  <2>1. PICK fails \in Fails :
           /\ misread' = IF fails THEN [misread EXCEPT ![today] = @ + 1] ELSE misread
           /\ IF Allowed(Load(fails))
              THEN loaded' = [loaded EXCEPT ![p] = Load(fails)]
                   /\ overlapped' = (overlapped \/ Writing # {}) /\ Goto(p, "loaded")
              ELSE Goto(p, "parked") /\ UNCHANGED <<loaded, overlapped>>
    BY <1>2 DEF TrySpend
  <2>2. Load(fails) \in Ledger
    BY DEF Load, Parsed, Fresh
  <2>3. misread' \in [Days -> Nat]
    BY <2>1
  <2>4. loaded' \in [Procs -> Ledger]
    <3> HIDE DEF Ledger
    <3> QED BY <2>1, <2>2
  <2>5. pc' \in [Procs -> {"idle", "loaded", "truncated", "granted", "parked"}]
    BY <2>1
  <2>6. overlapped' \in BOOLEAN
    BY <2>1
  <2>7. UNCHANGED <<today, ledger, granted>>
    BY <1>2 DEF TrySpend
  <2> QED BY <2>3, <2>4, <2>5, <2>6, <2>7
<1>3. ASSUME NEW p \in Procs, Truncate(p) PROVE GuardTypeOK'
  BY <1>3 DEF Truncate
<1>4. ASSUME NEW p \in Procs, Record(p) PROVE GuardTypeOK'
  <2>1. loaded[p].day \in Days /\ loaded[p].spent + 1 \in Nat
    OBVIOUS
  <2>2. ledger' \in Ledger /\ granted' \in [Days -> Nat]
    BY <1>4, <2>1 DEF Record
  <2> HIDE DEF Ledger
  <2> QED BY <1>4, <2>2 DEF Record
<1>5. ASSUME NEW p \in Procs, Finish(p) PROVE GuardTypeOK'
  BY <1>5 DEF Finish
<1>6. ASSUME NEW p \in Procs, Crash(p) PROVE GuardTypeOK'
  BY <1>6 DEF Crash
<1>7. CASE UNCHANGED guardVars
  BY <1>7 DEF guardVars
<1> QED
  BY <1>1, <1>2, <1>3, <1>4, <1>5, <1>6, <1>7 DEF GuardNext

\* The initial state is typed.
LEMMA InitTyped == GuardInit => GuardTypeOK
<1> SUFFICES ASSUME GuardInit PROVE GuardTypeOK
  OBVIOUS
<1>1. 1 \in Days /\ State(1, 0) \in Ledger /\ ledger \in Ledger
  BY LastDayAssumption DEF GuardInit
<1>2. loaded \in [Procs -> Ledger]
  BY <1>1 DEF GuardInit
<1>3. granted \in [Days -> Nat] /\ misread \in [Days -> Nat]
  BY DEF GuardInit
<1> QED
  BY <1>1, <1>2, <1>3 DEF GuardInit, GuardTypeOK

(***************************************************************************)
(* Type correctness (_budget.py:31-95): the ledger is missing, corrupt or  *)
(* a count of a day that has come, whoever was killed while writing it.    *)
(***************************************************************************)
THEOREM TypeCorrect == GuardSpec => []GuardTypeOK
  BY InitTyped, TypeStep, PTL DEF GuardSpec

-----------------------------------------------------------------------------
(***************************************************************************)
(* The inductive invariant of CapHolds.  A count that may be written, be   *)
(* it on disk or in the hands of a process, covers all that was granted on *)
(* its day, but for what failed reads had let through before (`Refills`),  *)
(* and nothing was granted since: `Covers` of the two.                     *)
(***************************************************************************)
Refills(d) == Cap * misread[d]

Covers(state) ==
    /\ state.day <= today
    /\ granted[state.day] <= state.spent + Refills(state.day)
    /\ \A d \in Days : d > state.day => granted[d] = 0

\* What a process holds that may be written back.
Spendable(state) == state.kind = "state" /\ state.spent + 1 <= Cap /\ Covers(state)

CapInv ==
    ~ overlapped =>
        /\ \A d \in Days : granted[d] <= Cap + Refills(d)
        /\ \A d \in Days : d > today => granted[d] = 0
        /\ \A p, q \in Writing : p = q
        /\ \A p \in Writing : Spendable(loaded[p])
        /\ ledger.kind = "missing" => \A d \in Days : granted[d] = 0
        /\ ledger.kind = "state" => Covers(ledger)

\* Caps times failed reads is a number.
LEMMA ProductTyped ==
    ASSUME NEW c \in Nat, NEW m \in Nat
    PROVE  c * m \in Nat
  OBVIOUS

\* A count of refills is a number.
LEMMA RefillsTyped ==
    GuardTypeOK => \A d \in Days : Refills(d) \in Nat
<1> SUFFICES ASSUME GuardTypeOK, NEW d \in Days PROVE Refills(d) \in Nat
  OBVIOUS
<1>1. Cap \in Nat /\ misread[d] \in Nat
  BY CapAssumption DEF GuardTypeOK
<1> QED BY <1>1, ProductTyped DEF Refills

\* The same of the next state.
LEMMA RefillsTypedNext ==
    GuardTypeOK' => \A d \in Days : Refills(d)' \in Nat
<1> SUFFICES ASSUME GuardTypeOK', NEW d \in Days PROVE Refills(d)' \in Nat
  OBVIOUS
<1>1. Cap \in Nat /\ misread'[d] \in Nat
  BY CapAssumption DEF GuardTypeOK
<1> QED BY <1>1, ProductTyped DEF Refills

\* One more failed read is one cap more.
LEMMA OneRefill ==
    ASSUME NEW c \in Nat, NEW m \in Nat
    PROVE  c * (m + 1) = c * m + c
  OBVIOUS

\* No step takes a refill back.
LEMMA RefillsGrow ==
    ASSUME GuardTypeOK, [GuardNext]_guardVars
    PROVE  \A d \in Days : Refills(d)' >= Refills(d)
<1> SUFFICES ASSUME NEW d \in Days PROVE Refills(d)' >= Refills(d)
  OBVIOUS
<1> USE LastDayAssumption, CapAssumption
<1>1. misread' = misread \/ misread' = [misread EXCEPT ![today] = @ + 1]
  BY DEF GuardNext, guardVars, Midnight, TrySpend, Truncate, Record, Finish, Crash
<1>2. misread'[d] = misread[d] \/ misread'[d] = misread[d] + 1
  BY <1>1 DEF GuardTypeOK
<1>3. misread[d] \in Nat /\ Cap \in Nat
  BY DEF GuardTypeOK
<1>4. Cap * misread[d] \in Nat
  BY <1>3
<1>5. CASE misread'[d] = misread[d] + 1
  <2>1. Cap * misread'[d] = Cap * misread[d] + Cap
    BY <1>3, <1>5, OneRefill
  <2> QED BY <1>3, <1>4, <2>1 DEF Refills
<1>6. CASE misread'[d] = misread[d]
  BY <1>4, <1>6 DEF Refills
<1> QED BY <1>2, <1>5, <1>6

\* A step that grants nothing covers as much as before.
LEMMA CoversKept ==
    ASSUME GuardTypeOK, GuardTypeOK', [GuardNext]_guardVars,
           NEW state \in Ledger, Covers(state),
           UNCHANGED granted, today' \in Nat, today' >= today
    PROVE  Covers(state)'
<1>1. state.day \in Days /\ state.spent \in Nat
  OBVIOUS
<1>2. /\ Refills(state.day) \in Nat /\ Refills(state.day)' \in Nat
      /\ Refills(state.day)' >= Refills(state.day)
  <2>1. \A d \in Days : /\ Refills(d) \in Nat /\ Refills(d)' \in Nat
                         /\ Refills(d)' >= Refills(d)
    BY RefillsTyped, RefillsTypedNext, RefillsGrow
  <2> QED BY <1>1, <2>1
<1>3. /\ granted[state.day] \in Nat /\ today \in Nat
      /\ state.day <= today /\ granted[state.day] <= state.spent + Refills(state.day)
      /\ \A d \in Days : d > state.day => granted[d] = 0
  BY <1>1, LastDayAssumption DEF Covers, GuardTypeOK
<1>4. granted'[state.day] <= state.spent + Refills(state.day)'
  BY <1>1, <1>2, <1>3
<1>5. state.day <= today'
  BY <1>1, <1>3
<1> QED BY <1>3, <1>4, <1>5 DEF Covers

\* What is read, if it may be spent from, covers all that was granted, be it
\* only because the read that failed is counted as a refill.
LEMMA LoadCovers ==
    ASSUME GuardTypeOK, CapInv, ~ overlapped, NEW fails \in Fails, Allowed(Load(fails)),
           UNCHANGED <<today, granted>>,
           misread' = IF fails THEN [misread EXCEPT ![today] = @ + 1] ELSE misread,
           NEW state, state = Load(fails)
    PROVE  state \in Ledger /\ Spendable(state)'
<1> USE LastDayAssumption, CapAssumption
<1>0. /\ today \in Days /\ ledger \in Ledger
      /\ misread \in [Days -> Nat] /\ granted \in [Days -> Nat]
  BY DEF GuardTypeOK
<1>1. CASE fails
  <2>1. state = State(today, 0)
    BY <1>1 DEF Load, Fresh
  <2>2. misread[today] \in Nat /\ Cap \in Nat
    BY <1>0
  <2>3. Cap * misread[today] \in Nat
    BY <2>2
  <2>4. misread'[today] = misread[today] + 1
    BY <1>0, <1>1
  <2>5. Cap * misread'[today] = Cap * misread[today] + Cap
    BY <2>2, <2>4, OneRefill
  <2>6. granted[today] <= Cap + Cap * misread[today]
    BY <1>0 DEF CapInv, Refills
  <2>7. granted'[state.day] <= state.spent + Refills(state.day)'
    BY <1>0, <2>1, <2>2, <2>3, <2>5, <2>6 DEF Refills
  <2>8. Covers(state)'
    BY <1>0, <2>1, <2>7 DEF Covers, CapInv
  <2>9. state.kind = "state" /\ state.spent + 1 <= Cap
    BY DEF Allowed
  <2>10. state \in Ledger
    BY <1>0, <2>1
  <2> QED BY <2>8, <2>9, <2>10 DEF Spendable
<1>2. CASE ~ fails
  <2>0. UNCHANGED <<today, granted, misread>>
    BY <1>2
  <2>1. Covers(state) => Covers(state)'
    BY <2>0 DEF Covers, Refills
  <2>2. Refills(today) \in Nat
    BY <1>0, RefillsTyped
  <2>3. CASE ledger.kind = "state" /\ ledger.day = today
    <3>1. state = ledger
      BY <1>2, <2>3 DEF Load, Parsed
    <3> QED BY <1>0, <2>1, <2>3, <3>1 DEF CapInv, Allowed, Spendable
  <2>4. CASE ledger.kind = "state" /\ ledger.day # today
    <3>1. today > ledger.day
      BY <1>0, <2>4 DEF CapInv, Covers
    <3>2. \A d \in Days : d >= today => granted[d] = 0
      BY <1>0, <2>4, <3>1 DEF CapInv, Covers
    <3>3. state = State(today, 0)
      BY <1>2, <2>4 DEF Load, Parsed, Fresh
    <3>4. Covers(state)
      BY <1>0, <2>2, <3>2, <3>3 DEF Covers
    <3> QED BY <1>0, <2>1, <3>3, <3>4 DEF Allowed, Spendable
  <2>5. CASE ledger.kind = "missing"
    <3>1. state = State(today, 0)
      BY <1>2, <2>5 DEF Load, Fresh
    <3>2. Covers(state)
      BY <1>0, <2>2, <2>5, <3>1 DEF Covers, CapInv
    <3> QED BY <1>0, <2>1, <3>1, <3>2 DEF Allowed, Spendable
  <2>6. CASE ledger.kind = "corrupt"
    BY <1>2, <2>6 DEF Load, Parsed, Allowed
  <2> QED BY <1>0, <2>3, <2>4, <2>5, <2>6
<1> QED BY <1>1, <1>2

\* Every step keeps the inductive invariant.
LEMMA CapStep == GuardTypeOK /\ CapInv /\ [GuardNext]_guardVars => CapInv'
<1> SUFFICES ASSUME GuardTypeOK, CapInv, [GuardNext]_guardVars, ~ overlapped' PROVE CapInv'
  BY DEF CapInv
<1>0. GuardTypeOK' /\ ~ overlapped
  BY TypeStep
  DEF GuardNext, guardVars, Midnight, TrySpend, Truncate, Record, Finish, Crash, GuardTypeOK
<1>01. \A d \in Days :
           /\ Refills(d) \in Nat /\ Refills(d)' \in Nat /\ Refills(d)' >= Refills(d)
  BY <1>0, RefillsTyped, RefillsTypedNext, RefillsGrow
<1>02. Cap \in Nat /\ today \in Days /\ today' \in Days
  BY <1>0, CapAssumption DEF GuardTypeOK
<1>03. UNCHANGED granted => \A d \in Days : granted'[d] <= Cap + Refills(d)'
  <2> SUFFICES ASSUME UNCHANGED granted, NEW d \in Days
               PROVE  granted'[d] <= Cap + Refills(d)'
    OBVIOUS
  <2>1. granted[d] \in Nat /\ granted[d] <= Cap + Refills(d)
    BY <1>0 DEF CapInv, GuardTypeOK
  <2> QED BY <1>01, <1>02, <2>1
<1>04. UNCHANGED granted /\ today' >= today =>
           \A state \in Ledger : Covers(state) => Covers(state)'
  BY <1>0, <1>02, LastDayAssumption, CoversKept
<1>05. \A d \in Days : d > today => granted[d] = 0
  BY <1>0 DEF CapInv
<1> USE LastDayAssumption
<1>1. CASE Midnight
  <2>1. UNCHANGED <<ledger, pc, loaded, granted, overlapped>> /\ today' = today + 1
    BY <1>1 DEF Midnight
  <2>2. \A state \in Ledger : Covers(state) => Covers(state)'
    BY <1>02, <1>04, <2>1
  <2>3. \A d \in Days : d > today' => granted'[d] = 0
    BY <1>02, <1>05, <2>1
  <2> HIDE DEF Ledger, Days
  <2> QED
    BY <1>0, <1>03, <2>1, <2>2, <2>3 DEF CapInv, Writing, Spendable, GuardTypeOK
<1>2. ASSUME NEW p \in Procs, UNCHANGED <<today, ledger, granted>>,
             TrySpend(p) \/ Finish(p) \/ Crash(p) \/ UNCHANGED guardVars
      PROVE CapInv'
  <2>1. \A state \in Ledger : Covers(state) => Covers(state)'
    BY <1>02, <1>04, <1>2
  <2>2. \A d \in Days : d > today' => granted'[d] = 0
    BY <1>05, <1>2
  <2>3. ASSUME NEW fails \in Fails, TrySpend(p), Allowed(Load(fails)),
               misread' = IF fails THEN [misread EXCEPT ![today] = @ + 1] ELSE misread,
               loaded' = [loaded EXCEPT ![p] = Load(fails)],
               overlapped' = (overlapped \/ Writing # {}), Goto(p, "loaded")
        PROVE  CapInv'
    <3>1. Writing = {}
      BY <1>0, <2>3 DEF GuardTypeOK
    <3>10. Writing' = {p}
      <4>1. \A q \in Procs : pc[q] \notin {"loaded", "truncated"}
        BY <3>1 DEF Writing
      <4>2. pc' = [pc EXCEPT ![p] = "loaded"] /\ pc \in [Procs ->
                {"idle", "loaded", "truncated", "granted", "parked"}]
        BY <2>3 DEF GuardTypeOK
      <4> QED BY <4>1, <4>2 DEF Writing
    <3>2. PICK state \in Ledger : state = Load(fails) /\ Spendable(state)'
      BY <1>0, <1>2, <2>3, LoadCovers
    <3>3. loaded'[p] = state
      BY <2>3, <3>2 DEF GuardTypeOK
    <3>4. Spendable(loaded[p])'
      BY <3>2, <3>3 DEF Spendable, Covers, Refills
    <3> HIDE DEF Ledger, Days
    <3> QED
      BY <1>0, <1>03, <1>2, <2>1, <2>2, <3>10, <3>4 DEF CapInv, GuardTypeOK
  <2>4. ASSUME Writing' \subseteq Writing, loaded' = loaded
        PROVE  CapInv'
    <3> HIDE DEF Ledger, Days
    <3> QED
      BY <1>0, <1>03, <1>2, <2>1, <2>2, <2>4 DEF CapInv, Spendable, GuardTypeOK, Writing
  <2>5. CASE TrySpend(p)
    <3>1. PICK fails \in Fails :
             /\ misread' = IF fails THEN [misread EXCEPT ![today] = @ + 1] ELSE misread
             /\ IF Allowed(Load(fails))
                THEN /\ loaded' = [loaded EXCEPT ![p] = Load(fails)]
                     /\ overlapped' = (overlapped \/ Writing # {})
                     /\ Goto(p, "loaded")
                ELSE Goto(p, "parked") /\ UNCHANGED <<loaded, overlapped>>
      BY <2>5 DEF TrySpend
    <3>2. CASE Allowed(Load(fails))
      BY <2>3, <2>5, <3>1, <3>2
    <3>3. CASE ~ Allowed(Load(fails))
      <4>1. Writing' \subseteq Writing /\ loaded' = loaded
        BY <3>1, <3>3 DEF Writing, GuardTypeOK
      <4> QED BY <2>4, <4>1
    <3> QED BY <3>2, <3>3
  <2>6. CASE Finish(p) \/ Crash(p) \/ UNCHANGED guardVars
    <3>1. Writing' \subseteq Writing /\ loaded' = loaded
      BY <2>6 DEF Finish, Crash, guardVars, Writing, GuardTypeOK
    <3> QED BY <2>4, <3>1
  <2> QED BY <1>2, <2>5, <2>6
<1>3. ASSUME NEW p \in Procs, Truncate(p) PROVE CapInv'
  <2>1. UNCHANGED <<today, loaded, granted>> /\ ledger'.kind = "corrupt"
    BY <1>3 DEF Truncate
  <2>2. \A state \in Ledger : Covers(state) => Covers(state)'
    BY <1>02, <1>04, <2>1
  <2>3. Writing' = Writing
    BY <1>3 DEF Truncate, Writing, GuardTypeOK
  <2> HIDE DEF Ledger, Days
  <2> QED
    BY <1>0, <1>03, <1>05, <2>1, <2>2, <2>3 DEF CapInv, Spendable, GuardTypeOK, Writing
<1>4. ASSUME NEW p \in Procs, Record(p) PROVE CapInv'
  <2>1. p \in Writing /\ Spendable(loaded[p])
    BY <1>0, <1>4 DEF Record, CapInv, Writing
  <2>2. Writing' = {}
    BY <1>0, <1>4, <2>1 DEF Record, CapInv, Writing, GuardTypeOK
  <2> DEFINE day == loaded[p].day
             spent == loaded[p].spent
  <2>3. /\ day \in Days /\ spent \in Nat /\ day <= today /\ spent + 1 <= Cap
        /\ granted[day] <= spent + Refills(day)
        /\ \A d \in Days : d > day => granted[d] = 0
    BY <2>1 DEF Spendable, Covers, GuardTypeOK, Writing
  <2>4. /\ granted'[day] = granted[day] + 1 /\ granted[day] \in Nat
        /\ \A d \in Days : d # day => granted'[d] = granted[d]
    BY <1>4, <2>3 DEF Record, GuardTypeOK
  <2>5. /\ ledger' = State(day, spent + 1) /\ UNCHANGED <<today, misread>>
    BY <1>4 DEF Record
  <2>6. \A d \in Days : Refills(d)' = Refills(d)
    BY <2>5 DEF Refills
  <2> HIDE DEF day, spent
  <2>7. granted'[day] <= (spent + 1) + Refills(day)
    BY <1>01, <2>3, <2>4
  <2>8. Covers(ledger)' /\ ledger'.kind = "state"
    BY <1>02, <2>3, <2>4, <2>5, <2>6, <2>7 DEF Covers
  <2>9. \A d \in Days : granted'[d] <= Cap + Refills(d)'
    <3>1. granted'[day] <= Cap + Refills(day)
      BY <1>01, <1>02, <2>3, <2>4, <2>7
    <3> QED
      BY <1>0, <2>3, <2>4, <2>6, <3>1 DEF CapInv
  <2>10. \A d \in Days : d > today' => granted'[d] = 0
    BY <1>02, <1>05, <2>3, <2>4, <2>5
  <2> QED
    BY <2>2, <2>8, <2>9, <2>10 DEF CapInv
<1>5. CASE UNCHANGED guardVars
  BY <1>5 DEF guardVars, CapInv, Writing, Spendable, Covers, Refills
<1> QED
  BY <1>1, <1>2, <1>3, <1>4, <1>5 DEF GuardNext, TrySpend, Finish, Crash

(***************************************************************************)
(* The cap survives restarts, for any number of processes killed at any    *)
(* step, unless two were in try_spend at once; each read of an existing    *)
(* ledger that fails grants its day the cap once more, and no more than    *)
(* that (_budget.py:3-7, 50-53, 73-95).                                    *)
(***************************************************************************)
THEOREM CapHoldsAlways == GuardSpec => []CapHolds
<1>1. GuardInit => CapInv
  <2>1. GuardInit => /\ Writing = {} /\ granted = [d \in Days |-> 0]
                     /\ ledger.kind = "missing" /\ today = 1
    BY DEF GuardInit, Writing
  <2>2. GuardInit => \A d \in Days : Refills(d) \in Nat
    BY InitTyped, RefillsTyped
  <2> QED BY <2>1, <2>2, CapAssumption DEF CapInv
<1>2. GuardTypeOK /\ CapInv => CapHolds
  <2> SUFFICES ASSUME GuardTypeOK, CapInv, ~ overlapped, NEW d \in Days
               PROVE  granted[d] <= Cap * (1 + misread[d])
    BY DEF CapHolds
  <2>1. granted[d] <= Cap + Cap * misread[d]
    BY DEF CapInv, Refills
  <2>2. misread[d] \in Nat /\ Cap \in Nat
    BY CapAssumption DEF GuardTypeOK
  <2>3. Cap * (1 + misread[d]) = Cap + Cap * misread[d]
    BY <2>2
  <2> QED BY <2>1, <2>3
<1> QED
  BY <1>1, <1>2, InitTyped, TypeStep, CapStep, PTL DEF GuardSpec
=============================================================================
