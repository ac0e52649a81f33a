----------------------------- MODULE MutateCheck -----------------------------
(***************************************************************************)
(* The mutation harness, src/scripts/mutate_check.py: write a mutant over  *)
(* a source file, run the tests, put the file back and verify that, in a   *)
(* `finally` and in the handler of SIGTERM and SIGINT.                     *)
(*                                                                         *)
(* A run is one invocation with a mutation of its own.  Every write opens  *)
(* the file, which truncates it, and fills it later; a handler runs        *)
(* between any two of those steps, or inside another handler, and its      *)
(* SystemExit then unwinds what it interrupted.  SIGKILL cannot be handled.*)
(***************************************************************************)
CONSTANTS Runs

VARIABLES
    file,       \* the target: torn, or the mutations it carries
    original,   \* per run: the file as it was read
    at,         \* per run: where main() stands
    handler,    \* per run: the innermost signal handler's step, or "none"
    killed,     \* whether a run was killed between its first write and its end
    raced  \* whether a run read the file while another was under way

mutateVars == <<file, original, at, handler, killed, raced>>

Contents == [torn : BOOLEAN, has : SUBSET Runs]
Pristine == [torn |-> FALSE, has |-> {}]
Torn == [torn |-> TRUE, has |-> {}]
Mutated(r) == [torn |-> FALSE, has |-> original[r].has \cup {r}]

InFinally == {"restoring", "reopened", "rewritten"}
InTry == {"armed", "opened", "mutated", "testing"}
Exited == {"notApplied", "restored", "interrupted", "fatal", "killed"}
Active == {r \in Runs : at[r] \in InTry \cup InFinally}

MutateInit ==
    /\ file = Pristine
    /\ original = [r \in Runs |-> Pristine]
    /\ at = [r \in Runs |-> "idle"]
    /\ handler = [r \in Runs |-> "none"]
    /\ killed = FALSE /\ raced = FALSE

Reach(r, where) == at' = [at EXCEPT ![r] = where]
At(r, where) == at[r] = where /\ handler[r] = "none"

\* The old text must be there once: not in a torn file, nor where it was replaced.
Applies(r) == ~ file.torn /\ r \notin file.has

Read(r) ==
    /\ At(r, "idle")
    /\ original' = [original EXCEPT ![r] = file]
    /\ raced' = (raced \/ Active # {})
    /\ Reach(r, IF Applies(r) THEN "armed" ELSE "notApplied")
    /\ UNCHANGED <<file, handler, killed>>

Open(r) ==
    /\ At(r, "armed")
    /\ file' = Torn
    /\ Reach(r, "opened")
    /\ UNCHANGED <<original, handler, killed, raced>>

Mutate(r) ==
    /\ At(r, "opened")
    /\ file' = Mutated(r)
    /\ Reach(r, "mutated")
    /\ UNCHANGED <<original, handler, killed, raced>>

\* A write that changed nothing is reported, through the `finally`.
AssertApplied(r) ==
    /\ At(r, "mutated")
    /\ Reach(r, IF file = original[r] THEN "restoring" ELSE "testing")
    /\ UNCHANGED <<file, original, handler, killed, raced>>

\* The tests end, or are stopped by their timeout, or none ran.
Test(r) ==
    /\ At(r, "testing")
    /\ Reach(r, "restoring")
    /\ UNCHANGED <<file, original, handler, killed, raced>>

Restore(r) ==
    /\ handler[r] = "none"
    /\ \/ at[r] = "restoring" /\ file' = Torn /\ Reach(r, "reopened")
       \/ at[r] = "reopened" /\ file' = original[r] /\ Reach(r, "rewritten")
       \/ /\ at[r] = "rewritten" /\ UNCHANGED file
          /\ Reach(r, IF file = original[r] THEN "restored" ELSE "fatal")
    /\ UNCHANGED <<original, handler, killed, raced>>

-----------------------------------------------------------------------------
(* Signals.                                                                *)

Signal(r) ==
    /\ r \in Active
    /\ handler' = [handler EXCEPT ![r] = "restoring"]
    /\ UNCHANGED <<file, original, at, killed, raced>>

HandlerRestores(r) ==
    /\ \/ /\ handler[r] = "restoring" /\ file' = Torn
          /\ handler' = [handler EXCEPT ![r] = "reopened"]
       \/ /\ handler[r] = "reopened" /\ file' = original[r]
          /\ handler' = [handler EXCEPT ![r] = "rewritten"]
    /\ UNCHANGED <<original, at, killed, raced>>

\* Closing the file that an interrupted write holds open flushes what it had buffered.
Flushed(r) ==
    CASE at[r] = "opened" -> {file, Mutated(r), Torn}
      [] at[r] = "reopened" -> {file, original[r]}
      [] OTHER -> {file}

\* Mutated form: the handler has restored the tree, so nothing else does.
AfterExitDirectly(r) == {"interrupted"}

\* SystemExit leaves main() through its `finally`, once main() is inside the try.
AfterExit(r) ==
    CASE at[r] = "armed" -> {"restoring", "interrupted"}
      [] at[r] \in InTry \ {"armed"} -> {"restoring"}
      [] OTHER -> {"interrupted"}

\* Verified or fatal, the handler exits.
HandlerExits(r) ==
    /\ handler[r] = "rewritten"
    /\ handler' = [handler EXCEPT ![r] = "none"]
    /\ file' \in Flushed(r)
    /\ \E where \in AfterExit(r) :
          Reach(r, IF where = "interrupted" /\ file # original[r] THEN "fatal" ELSE where)
    /\ UNCHANGED <<original, killed, raced>>

Kill(r) ==
    /\ r \in Active
    /\ Reach(r, "killed")
    /\ handler' = [handler EXCEPT ![r] = "none"]
    /\ killed' = TRUE
    /\ UNCHANGED <<file, original, raced>>

MutateNext == \E r \in Runs :
    \/ Read(r) \/ Open(r) \/ Mutate(r) \/ AssertApplied(r) \/ Test(r) \/ Restore(r)
    \/ Signal(r) \/ HandlerRestores(r) \/ HandlerExits(r) \/ Kill(r)

MutateSpec == MutateInit /\ [][MutateNext]_mutateVars

-----------------------------------------------------------------------------
(* Every variable has its type.                                            *)
MutateTypeOK ==
    /\ file \in Contents /\ original \in [Runs -> Contents]
    /\ at \in [Runs -> {"idle"} \cup InTry \cup InFinally \cup Exited]
    /\ handler \in [Runs -> {"none", "restoring", "reopened", "rewritten"}]
    /\ killed \in BOOLEAN /\ raced \in BOOLEAN

(* The tree is always restored: once no run is under way the file is as it *)
(* was, wherever any number of signals landed, unless a run was killed or  *)
(* two of them raced, which the restored-and-verified message does    *)
(* not rule out (mutate_check.py:11-20).                                   *)
TreeRestored ==
    ~ killed /\ ~ raced =>
        /\ Active = {} => file = Pristine
        /\ \A r \in Runs : at[r] # "fatal"
=============================================================================
