------------------------------ MODULE SpendGuard ------------------------------
(***************************************************************************)
(* The daily cap on paid API calls, src/scripts/_budget.py, as the smoke   *)
(* scripts use it: read the ledger, refuse or write it back, then call.    *)
(*                                                                         *)
(* A process runs its script again and again and may be killed at any      *)
(* point; only the ledger survives.  write_text truncates the file before  *)
(* it fills it, so a kill in between leaves it empty, which is corrupt.    *)
(***************************************************************************)
EXTENDS Naturals

CONSTANTS
    Procs, Cap,
    MaxMisreads,        \* bound: reads of an existing ledger that fail on one day
    LastDay             \* bound: the days that are looked at

ASSUME CapAssumption == Cap \in Nat /\ MaxMisreads \in Nat
ASSUME LastDayAssumption == LastDay \in Nat \ {0}

VARIABLES
    today,
    ledger,     \* the file: missing, corrupt, or a day and what it spent
    pc, loaded, \* per process: where it stands, the state it read
    granted,    \* per day: calls that were let through on its account
    overlapped, \* whether a process read the ledger while another was to write it
    misread     \* per day: how often a ledger that exists could not be read

guardVars == <<today, ledger, pc, loaded, granted, overlapped, misread>>

Days == 1 .. LastDay
Ledger == [kind : {"missing", "corrupt", "state"}, day : Days, spent : Nat]
State(day, spent) == [kind |-> "state", day |-> day, spent |-> spent]
Corrupt == [kind |-> "corrupt", day |-> 1, spent |-> 0]

GuardInit ==
    /\ today = 1
    /\ ledger = [kind |-> "missing", day |-> 1, spent |-> 0]
    /\ pc = [p \in Procs |-> "idle"]
    /\ loaded = [p \in Procs |-> State(1, 0)]
    /\ granted = [d \in Days |-> 0]
    /\ overlapped = FALSE /\ misread = [d \in Days |-> 0]

Goto(p, where) == pc' = [pc EXCEPT ![p] = where]

Fresh == State(today, 0)

\* Mutated form: a text that is no state counts as nothing spent.
ParsedFailsOpen ==
    IF ledger.kind = "state" /\ ledger.day = today THEN ledger ELSE Fresh

\* Another day starts fresh; a corrupt text stays unknown.
Parsed ==
    IF ledger.kind = "corrupt" \/ ledger.day = today THEN ledger ELSE Fresh

\* Every OSError of the read is taken for a missing file.
Load(fails) == IF fails \/ ledger.kind = "missing" THEN Fresh ELSE Parsed

Fails == {FALSE, ledger.kind # "missing" /\ misread[today] < MaxMisreads}

Allowed(state) == state.kind = "state" /\ state.spent + 1 <= Cap

Writing == {p \in Procs : pc[p] \in {"loaded", "truncated"}}

\* try_spend reads the ledger and decides.
TrySpend(p) ==
    /\ pc[p] = "idle"
    /\ \E fails \in Fails :
          /\ misread' = IF fails THEN [misread EXCEPT ![today] = @ + 1] ELSE misread
          /\ IF Allowed(Load(fails))
             THEN /\ loaded' = [loaded EXCEPT ![p] = Load(fails)]
                  /\ overlapped' = (overlapped \/ Writing # {})
                  /\ Goto(p, "loaded")
             ELSE /\ Goto(p, "parked")
                  /\ UNCHANGED <<loaded, overlapped>>
    /\ UNCHANGED <<today, ledger, granted>>

Truncate(p) ==
    /\ pc[p] = "loaded"
    /\ ledger' = Corrupt
    /\ Goto(p, "truncated")
    /\ UNCHANGED <<today, loaded, granted, overlapped, misread>>

\* The count is on disk before try_spend answers True.
Record(p) ==
    /\ pc[p] = "truncated"
    /\ ledger' = State(loaded[p].day, loaded[p].spent + 1)
    /\ granted' = [granted EXCEPT ![loaded[p].day] = @ + 1]
    /\ Goto(p, "granted")
    /\ UNCHANGED <<today, loaded, overlapped, misread>>

\* The paid call, or the note that the tier is parked; then the script is run again.
Finish(p) ==
    /\ pc[p] \in {"granted", "parked"}
    /\ Goto(p, "idle")
    /\ UNCHANGED <<today, ledger, loaded, granted, overlapped, misread>>

\* Killed, or a write raised; the loop starts the script anew.
Crash(p) ==
    /\ pc[p] # "idle"
    /\ Goto(p, "idle")
    /\ UNCHANGED <<today, ledger, loaded, granted, overlapped, misread>>

Midnight ==
    /\ today < LastDay
    /\ today' = today + 1
    /\ UNCHANGED <<ledger, pc, loaded, granted, overlapped, misread>>

GuardNext ==
    \/ Midnight
    \/ \E p \in Procs : TrySpend(p) \/ Truncate(p) \/ Record(p) \/ Finish(p) \/ Crash(p)

GuardSpec == GuardInit /\ [][GuardNext]_guardVars

-----------------------------------------------------------------------------
(* Every variable has its type.                                            *)
GuardTypeOK ==
    /\ today \in Days /\ ledger \in Ledger
    /\ pc \in [Procs -> {"idle", "loaded", "truncated", "granted", "parked"}]
    /\ loaded \in [Procs -> Ledger]
    /\ granted \in [Days -> Nat]
    /\ overlapped \in BOOLEAN /\ misread \in [Days -> Nat]

(* The cap survives restarts: however often the process is killed, and     *)
(* wherever, no day grants more than its cap (_budget.py:3-7, 75, 94), but *)
(* for two weaknesses of the code.  Two processes between reading and      *)
(* writing lose each other's update.  And every read of an existing ledger *)
(* that fails grants its day the cap once more (50-53), against 39-47,     *)
(* which start afresh on a missing file alone: "unknown must mean no".     *)
CapHolds == ~ overlapped => \A d \in Days : granted[d] <= Cap * (1 + misread[d])
=============================================================================
