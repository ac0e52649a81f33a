-------------------------- MODULE MutateCheckProofs --------------------------
(***************************************************************************)
(* Theorems about MutateCheck, for any number of runs and signals: the     *)
(* types, and that the tree is restored.                                   *)
(***************************************************************************)
EXTENDS MutateCheck, TLAPS

USE DEF Contents, Pristine, Torn, Mutated, InFinally, InTry, Exited, Reach, At

\* What is written to the file is one of its contents.
LEMMA Written ==
    ASSUME MutateTypeOK
    PROVE  /\ Pristine \in Contents /\ Torn \in Contents
           /\ \A r \in Runs : original[r] \in Contents /\ Mutated(r) \in Contents
<1>1. \A r \in Runs : original[r] \in Contents
  BY DEF MutateTypeOK
<1> QED BY <1>1

\* Every step keeps every variable in its type.
LEMMA TypeStep == MutateTypeOK /\ [MutateNext]_mutateVars => MutateTypeOK'
<1> SUFFICES ASSUME MutateTypeOK, [MutateNext]_mutateVars PROVE MutateTypeOK'
  OBVIOUS
<1>0. /\ Torn \in Contents
      /\ \A r \in Runs : original[r] \in Contents /\ Mutated(r) \in Contents
  BY Written
<1> USE <1>0 DEF MutateTypeOK
<1> HIDE DEF Contents, Pristine, Torn, Mutated
<1>1. ASSUME NEW r \in Runs, Read(r) PROVE MutateTypeOK'
  BY <1>1 DEF Read
<1>2. ASSUME NEW r \in Runs, Open(r) \/ Mutate(r) PROVE MutateTypeOK'
  BY <1>2 DEF Open, Mutate
<1>3. ASSUME NEW r \in Runs, AssertApplied(r) \/ Test(r) PROVE MutateTypeOK'
  BY <1>3 DEF AssertApplied, Test
<1>4. ASSUME NEW r \in Runs, Restore(r) PROVE MutateTypeOK'
  BY <1>4 DEF Restore
<1>5. ASSUME NEW r \in Runs, Signal(r) \/ HandlerRestores(r) PROVE MutateTypeOK'
  BY <1>5 DEF Signal, HandlerRestores
<1>6. ASSUME NEW r \in Runs, HandlerExits(r) PROVE MutateTypeOK'
  <2>1. Flushed(r) \subseteq Contents
    BY <1>6 DEF Flushed
  <2>2. AfterExit(r) \subseteq {"restoring", "interrupted"}
    BY DEF AfterExit
  <2> QED BY <1>6, <2>1, <2>2 DEF HandlerExits
<1>7. ASSUME NEW r \in Runs, Kill(r) PROVE MutateTypeOK'
  BY <1>7 DEF Kill
<1>8. CASE UNCHANGED mutateVars
  BY <1>8 DEF mutateVars
<1> QED
  BY <1>1, <1>2, <1>3, <1>4, <1>5, <1>6, <1>7, <1>8 DEF MutateNext

\* The initial state is typed.
LEMMA InitTyped == MutateInit => MutateTypeOK
<1>1. Pristine \in Contents
  OBVIOUS
<1> HIDE DEF Contents, Pristine
<1> QED
  BY <1>1 DEF MutateInit, MutateTypeOK

(***************************************************************************)
(* Type correctness (mutate_check.py:52-149).                              *)
(***************************************************************************)
THEOREM TypeCorrect == MutateSpec => []MutateTypeOK
  BY InitTyped, TypeStep, PTL DEF MutateSpec

-----------------------------------------------------------------------------
(***************************************************************************)
(* The inductive invariant of TreeRestored.  Where a run stands says what  *)
(* the file holds, except while it is about to be rewritten: and then the  *)
(* run is still to rewrite and to verify it.                               *)
(***************************************************************************)
FileKnown(r) ==
    /\ handler[r] = "none" /\ at[r] \in {"armed", "rewritten"} => file = Pristine
    /\ handler[r] = "none" /\ at[r] \in {"mutated", "testing"} => file = Mutated(r)
    /\ handler[r] = "rewritten" => file = Pristine

TreeInv ==
    /\ \A r \in Runs : handler[r] # "none" => r \in Active
    /\ ~ killed /\ ~ raced =>
          /\ Active = {} => file = Pristine
          /\ \A r, s \in Active : r = s
          /\ \A r \in Active : original[r] = Pristine /\ FileKnown(r)
          /\ \A r \in Runs : at[r] # "fatal"

\* With one run under way, what it does decides all.
LEMMA OneRunStep ==
    ASSUME MutateTypeOK, TreeInv, NEW r \in Active, Active' \subseteq {r} \/ killed' \/ raced',
           original' = original,
           \A s \in Runs \ {r} : handler'[s] = handler[s] /\ at'[s] = at[s],
           handler'[r] # "none" => r \in Active',
           ~ killed' /\ ~ raced' =>
               /\ ~ killed /\ ~ raced
               /\ r \notin Active' => file' = Pristine
               /\ FileKnown(r)'
               /\ at'[r] # "fatal"
    PROVE  TreeInv'
<1>1. \A s \in Runs \ {r} : handler'[s] # "none" => s \in Active'
  BY DEF TreeInv, Active
<1> QED
  BY <1>1 DEF TreeInv, Active

\* Every step keeps the inductive invariant.
LEMMA TreeStep == MutateTypeOK /\ TreeInv /\ [MutateNext]_mutateVars => TreeInv'
<1> SUFFICES ASSUME MutateTypeOK, TreeInv, [MutateNext]_mutateVars PROVE TreeInv'
  OBVIOUS
<1>0. MutateTypeOK'
  BY TypeStep
<1>1. ASSUME NEW r \in Runs, Read(r) PROVE TreeInv'
  <2>1. \A s \in Runs : handler'[s] # "none" => s \in Active'
    BY <1>1 DEF Read, TreeInv, Active, MutateTypeOK
  <2>2. ASSUME ~ killed', ~ raced' PROVE Active = {} /\ file = Pristine
    BY <1>1, <2>2 DEF Read, TreeInv
  <2>3. ASSUME ~ killed', ~ raced' PROVE Active' \subseteq {r}
    BY <1>1, <2>2, <2>3 DEF Read, Active, MutateTypeOK
  <2>4. original'[r] = file /\ file' = file /\ handler'[r] = "none"
    BY <1>1 DEF Read, MutateTypeOK
  <2>5. at'[r] \in {"armed", "notApplied"} /\ \A s \in Runs \ {r} : at'[s] = at[s]
    BY <1>1 DEF Read, MutateTypeOK
  <2>6. ~ killed' /\ ~ raced' => ~ killed /\ ~ raced
    BY <1>1 DEF Read
  <2> QED
    BY <2>1, <2>2, <2>3, <2>4, <2>5, <2>6 DEF TreeInv, FileKnown
<1>2. ASSUME NEW r \in Active,
             Open(r) \/ Mutate(r) \/ AssertApplied(r) \/ Test(r) \/ Restore(r)
      PROVE TreeInv'
  <2>1. Active' \subseteq Active /\ handler' = handler /\ handler[r] = "none"
    BY <1>2 DEF Active, MutateTypeOK, Open, Mutate, AssertApplied, Test, Restore
  <2>2. ASSUME ~ killed, ~ raced
        PROVE /\ r \notin Active' => file' = Pristine
              /\ FileKnown(r)'
              /\ at'[r] # "fatal"
    <3>1. original[r] = Pristine /\ FileKnown(r) /\ original'[r] = Pristine
      BY <1>2, <2>2 DEF TreeInv, Open, Mutate, AssertApplied, Test, Restore
    <3>2. Mutated(r) # Pristine
      BY <3>1
    <3>3. CASE Open(r) \/ Mutate(r)
      BY <1>2, <2>1, <3>1, <3>3 DEF Open, Mutate, FileKnown, MutateTypeOK, Active
    <3>4. CASE AssertApplied(r) \/ Test(r)
      BY <1>2, <2>1, <3>1, <3>2, <3>4 DEF AssertApplied, Test, FileKnown, MutateTypeOK, Active
    <3>5. CASE Restore(r)
      BY <1>2, <2>1, <3>1, <3>5 DEF Restore, FileKnown, MutateTypeOK, Active
    <3> QED BY <1>2, <3>3, <3>4, <3>5
  <2>3. \A s \in Runs \ {r} : at'[s] = at[s]
    BY <1>2 DEF Active, MutateTypeOK, Open, Mutate, AssertApplied, Test, Restore
  <2>4. original' = original /\ killed' = killed /\ raced' = raced
    BY <1>2 DEF Open, Mutate, AssertApplied, Test, Restore
  <2>5. Active' \subseteq {r} \/ killed' \/ raced'
    BY <2>1, <2>4 DEF TreeInv
  <2> QED
    BY <2>1, <2>2, <2>3, <2>4, <2>5, OneRunStep
<1>3. ASSUME NEW r \in Active, Signal(r) \/ HandlerRestores(r) PROVE TreeInv'
  <2>1. at' = at /\ Active' = Active
    BY <1>3 DEF Signal, HandlerRestores, Active
  <2>2. \A s \in Runs \ {r} : handler'[s] = handler[s]
    BY <1>3 DEF Signal, HandlerRestores, MutateTypeOK
  <2>3. original' = original /\ killed' = killed /\ raced' = raced
    BY <1>3 DEF Signal, HandlerRestores
  <2>4. ASSUME ~ killed, ~ raced PROVE FileKnown(r)'
    BY <1>3, <2>1, <2>3, <2>4 DEF Signal, HandlerRestores, FileKnown, TreeInv, MutateTypeOK, Active
  <2>5. Active' \subseteq {r} \/ killed' \/ raced'
    BY <2>1, <2>3 DEF TreeInv
  <2>6. ~ killed /\ ~ raced => at'[r] # "fatal"
    BY <2>1 DEF TreeInv, Active
  <2> QED
    BY <2>1, <2>2, <2>3, <2>4, <2>5, <2>6, OneRunStep
<1>4. ASSUME NEW r \in Active, HandlerExits(r) PROVE TreeInv'
  <2>1. \A s \in Runs \ {r} : handler'[s] = handler[s] /\ at'[s] = at[s]
    BY <1>4 DEF HandlerExits, MutateTypeOK
  <2>2. original' = original /\ killed' = killed /\ raced' = raced
    BY <1>4 DEF HandlerExits
  <2>3. Active' \subseteq {r} \/ killed' \/ raced'
    BY <2>1, <2>2 DEF TreeInv, Active
  <2>4. handler'[r] = "none"
    BY <1>4 DEF HandlerExits, MutateTypeOK, Active
  <2>5. ASSUME ~ killed, ~ raced
        PROVE /\ r \notin Active' => file' = Pristine
              /\ FileKnown(r)'
              /\ at'[r] # "fatal"
    <3>1. original[r] = Pristine /\ file = Pristine
      BY <1>4, <2>5 DEF TreeInv, HandlerExits, FileKnown
    <3>2. PICK where \in AfterExit(r) : at' = [at EXCEPT ![r] = where]
      BY <1>4, <3>1 DEF HandlerExits
    <3>3. at'[r] \in AfterExit(r)
      BY <3>2 DEF MutateTypeOK, Active
    <3>4. CASE at[r] \in InTry
      <4>1. at'[r] = "restoring" \/ (at'[r] = "interrupted" /\ at[r] = "armed")
        BY <3>3, <3>4 DEF AfterExit
      <4>2. at[r] = "armed" => file' = Pristine
        BY <1>4, <3>1 DEF HandlerExits, Flushed
      <4>3. at'[r] = "restoring" => r \in Active'
        BY DEF Active
      <4> QED BY <2>4, <4>1, <4>2, <4>3 DEF FileKnown
    <3>5. CASE at[r] \in InFinally
      <4>1. at'[r] = "interrupted"
        BY <3>3, <3>5 DEF AfterExit
      <4>2. file' = Pristine
        BY <1>4, <3>1, <3>5 DEF HandlerExits, Flushed
      <4> QED BY <2>4, <4>1, <4>2 DEF FileKnown
    <3> QED BY <3>4, <3>5 DEF Active
  <2> QED
    BY <2>1, <2>2, <2>3, <2>4, <2>5, OneRunStep
<1>5. ASSUME NEW r \in Active, Kill(r) PROVE TreeInv'
  <2>1. handler'[r] = "none" /\ \A s \in Runs \ {r} : handler'[s] = handler[s] /\ at'[s] = at[s]
    BY <1>5 DEF Kill, MutateTypeOK, Active
  <2> QED
    BY <1>5, <2>1, OneRunStep DEF Kill
<1>6. CASE UNCHANGED mutateVars
  BY <1>6 DEF mutateVars, TreeInv, Active, FileKnown
<1>7. ASSUME NEW r \in Runs,
             \/ Open(r) \/ Mutate(r) \/ AssertApplied(r) \/ Test(r) \/ Restore(r)
             \/ Signal(r) \/ HandlerRestores(r) \/ HandlerExits(r) \/ Kill(r)
      PROVE r \in Active
  BY <1>7 DEF Open, Mutate, AssertApplied, Test, Restore, Signal, HandlerRestores,
              HandlerExits, Kill, TreeInv, Active
<1> QED
  BY <1>1, <1>2, <1>3, <1>4, <1>5, <1>6, <1>7 DEF MutateNext

(***************************************************************************)
(* "ALWAYS restore the tree": whatever signals land in whatever step, the  *)
(* file is as it was when no run is under way, and no restore fails to     *)
(* verify, unless a run was killed or two raced                       *)
(* (mutate_check.py:11-20, 52-61, 85-149).                                 *)
(***************************************************************************)
THEOREM TreeRestoredAlways == MutateSpec => []TreeRestored
<1>1. MutateInit => TreeInv
  <2> SUFFICES ASSUME MutateInit PROVE TreeInv
    OBVIOUS
  <2>1. Active = {} /\ \A r \in Runs : handler[r] = "none" /\ at[r] = "idle"
    BY DEF MutateInit, Active
  <2> QED BY <2>1 DEF MutateInit, TreeInv
<1>2. TreeInv => TreeRestored
  BY DEF TreeInv, TreeRestored
<1> QED
  BY <1>1, <1>2, InitTyped, TypeStep, TreeStep, PTL DEF MutateSpec
=============================================================================
