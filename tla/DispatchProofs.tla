---------------------------- MODULE DispatchProofs ----------------------------
(***************************************************************************)
(* Theorems about Dispatch, for any calls, any number of overlapping runs  *)
(* of each, and any faults: one SMS at most, and a truthful report of it.  *)
(***************************************************************************)
EXTENDS Dispatch, TLAPS

\* Reporting one stage's status keeps every other report.
LEMMA OneReport ==
    ASSUME outcomes \in [Runs -> Outcome], NEW r \in Runs,
           NEW stage \in Stages, NEW status \in Statuses,
           Reports(r, stage, status)
    PROVE  /\ outcomes' \in [Runs -> Outcome]
           /\ \A q \in Runs : q # r => outcomes'[q] = outcomes[q]
           /\ outcomes'[r][stage] = status
           /\ \A s \in Stages : s # stage => outcomes'[r][s] = outcomes[r][s]
<1> DEFINE o == [outcomes[r] EXCEPT ![stage] = status]
<1>1. outcomes[r] \in [Stages -> Statuses]
  BY DEF Outcome
<1>2. /\ o \in [Stages -> Statuses] /\ o[stage] = status
      /\ \A s \in Stages : s # stage => o[s] = outcomes[r][s]
  BY <1>1
<1>3. outcomes' = [outcomes EXCEPT ![r] = o]
  BY DEF Reports
<1> HIDE DEF o
<1> QED BY <1>2, <1>3 DEF Outcome

\* The two reports about the evidence leave the other two alone.
LEMMA EvidenceReport ==
    ASSUME outcomes \in [Runs -> Outcome], NEW r \in Runs, Evidence(r)
    PROVE  /\ outcomes' \in [Runs -> Outcome]
           /\ \A q \in Runs : \A s \in {"sms", "email"} :
                  outcomes'[q][s] = outcomes[q][s]
<1>1. CASE UNCHANGED outcomes
  BY <1>1
<1>2. ASSUME NEW t \in Statuses, NEW a \in Statuses,
             outcomes' = [outcomes EXCEPT
                 ![r] = [@ EXCEPT !["transcript"] = t, !["analysis"] = a]]
      PROVE  /\ outcomes' \in [Runs -> Outcome]
             /\ \A q \in Runs : \A s \in {"sms", "email"} :
                    outcomes'[q][s] = outcomes[q][s]
  <2> DEFINE o == [outcomes[r] EXCEPT !["transcript"] = t, !["analysis"] = a]
  <2>1. outcomes[r] \in [Stages -> Statuses]
    BY DEF Outcome
  <2>2. /\ o \in [Stages -> Statuses]
        /\ o["sms"] = outcomes[r]["sms"] /\ o["email"] = outcomes[r]["email"]
    BY <2>1 DEF Stages
  <2>3. outcomes' = [outcomes EXCEPT ![r] = o]
    BY <1>2
  <2> HIDE DEF o
  <2> QED BY <2>2, <2>3 DEF Outcome
<1>3. Written("files") \subseteq Statuses
  BY DEF Written, Statuses
<1> QED BY <1>1, <1>2, <1>3 DEF Evidence

\* The brief of any outcome consists of its lines, the email's as it is given.
LEMMA BriefLines ==
    ASSUME NEW o \in Outcome, NEW email \in Statuses
    PROVE  RenderBrief(o, email) \in Lines
<1>1. \A status : /\ FileLine(status) \in Texts
                  /\ SmsLine(status) \in Texts /\ EmailLine(status) \in Texts
  BY DEF FileLine, SmsLine, EmailLine, Texts
<1> QED BY <1>1 DEF RenderBrief, Lines, Texts

\* Every step keeps every variable in its type.
LEMMA TypeStep == TypeOK /\ [Next]_vars => TypeOK'
<1> SUFFICES ASSUME TypeOK, [Next]_vars PROVE TypeOK'
  OBVIOUS
<1> USE CallOfAssumption, NoneAssumption DEF Goto, Ended
<1>1. CASE Crash
  <2>1. brief' \in [Calls -> Lines \cup {None}]
    BY <1>1 DEF Crash, Torn, TypeOK
  <2> QED BY <1>1, <2>1 DEF Crash, TypeOK
<1>2. ASSUME NEW r \in Runs, Begin(r) PROVE TypeOK'
  BY <1>2 DEF Begin, TypeOK
<1>3. ASSUME NEW r \in Runs, Evidence(r) PROVE TypeOK'
  <2>1. outcomes' \in [Runs -> Outcome]
    BY <1>3, EvidenceReport DEF TypeOK
  <2> QED BY <1>3, <2>1 DEF Evidence, TypeOK
<1>4. ASSUME NEW r \in Runs, SmsSuppressed(r) \/ SmsAlreadyMarked(r) PROVE TypeOK'
  <2>1. outcomes' \in [Runs -> Outcome]
    BY <1>4, OneReport DEF SmsSuppressed, SmsAlreadyMarked, TypeOK, Stages, Statuses
  <2> QED BY <1>4, <2>1 DEF SmsSuppressed, SmsAlreadyMarked, TypeOK
<1>5. ASSUME NEW r \in Runs, SmsMark(r) \/ SmsMarkRaises(r) PROVE TypeOK'
  BY <1>5 DEF SmsMark, SmsMarkRaises, TypeOK
<1>6. ASSUME NEW r \in Runs, SmsAccepted(r) PROVE TypeOK'
  BY <1>6 DEF SmsAccepted, TypeOK
<1>7. ASSUME NEW r \in Runs, SmsReturns(r) PROVE TypeOK'
  <2>1. outcomes' \in [Runs -> Outcome]
    BY <1>7, OneReport DEF SmsReturns, Raised, TypeOK, Stages, Statuses
  <2> QED BY <1>7, <2>1 DEF SmsReturns, TypeOK
<1>8. ASSUME NEW r \in Runs, Email(r) PROVE TypeOK'
  <2>1. outcomes' \in [Runs -> Outcome]
    BY <1>8, OneReport
    DEF Email, EmailAnswers, AlwaysAttempted, TypeOK, Stages, Statuses
  <2>2. RenderBrief(outcomes[r], "none") \in Lines
    BY BriefLines DEF TypeOK, Statuses
  <2> QED BY <1>8, <2>1, <2>2 DEF Email, TypeOK
<1>9. ASSUME NEW r \in Runs, Brief(r) PROVE TypeOK'
  <2>1. outcomes[r] \in Outcome /\ outcomes[r]["email"] \in Statuses
    BY DEF TypeOK, Outcome, Stages
  <2>2. BriefText(r) \in Lines
    BY <2>1, BriefLines DEF BriefText
  <2>3. brief' \in [Calls -> Lines \cup {None}]
    BY <1>9, <2>2 DEF Brief, Torn, TypeOK
  <2> QED BY <1>9, <2>3 DEF Brief, TypeOK
<1>10. ASSUME NEW r \in Runs, Swallow(r) PROVE TypeOK'
  BY <1>10 DEF Swallow, TypeOK
<1>11. CASE UNCHANGED vars
  BY <1>11 DEF vars, TypeOK
<1> QED
  BY <1>1, <1>2, <1>3, <1>4, <1>5, <1>6, <1>7, <1>8, <1>9, <1>10, <1>11
  DEF Next, RunStep, SmsStep

\* Type correctness: every stage reports one of its statuses, and every
\* artifact on disk is one a run wrote (dispatch.py:98-158, 203-263).
THEOREM TypeCorrect == Spec => []TypeOK
<1>1. Init => TypeOK
  BY CallOfAssumption DEF Init, TypeOK, Outcome, Stages, Statuses
<1> QED BY <1>1, TypeStep, PTL DEF Spec

-----------------------------------------------------------------------------
(* The SMS.  The marker is the call's one permission to send, and the run  *)
(* that created it is the only one that can use it.                        *)

Marked == \A c \in Calls : c \in marker <=> claimedBy[c] # None
Unmarked == \A c \in Calls : c \notin marker => smsCount[c] = 0
Sending == \A r \in Runs : pc[r] = "sending" =>
               claimedBy[CallOf[r]] = r /\ smsCount[CallOf[r]] = 0
Accepted == \A r \in Runs : pc[r] = "accepted" =>
                claimedBy[CallOf[r]] = r /\ smsCount[CallOf[r]] = 1
\* A run that has not reached the marker has claimed no call.
Unclaimed == \A r \in Runs : pc[r] \in {"idle", "analysing", "sms"} =>
                 \A c \in Calls : claimedBy[c] # r

SmsInv == /\ TypeOK /\ Marked /\ Unmarked /\ Sending /\ Accepted /\ Unclaimed
          /\ AtMostOneSms /\ OkMeansSent

\* The invariant holds of no run at all.
LEMMA SmsInit == Init => SmsInv
<1> SUFFICES ASSUME Init PROVE SmsInv
  OBVIOUS
<1>1. TypeOK
  BY CallOfAssumption DEF Init, TypeOK, Outcome, Stages, Statuses
<1>2. \A c \in Calls : claimedBy[c] = None /\ smsCount[c] = 0 /\ c \notin marker
  BY DEF Init
<1>3. \A r \in Runs : pc[r] = "idle" /\ outcomes[r]["sms"] = "none"
  BY DEF Init, Stages
<1> QED
  BY <1>1, <1>2, <1>3, NoneAssumption
  DEF SmsInv, Marked, Unmarked, Sending, Accepted, Unclaimed, AtMostOneSms, OkMeansSent

\* A step that touches neither the marker nor the messages, starts no message
\* and reports none sent keeps the invariant.
LEMMA SmsElsewhere ==
    ASSUME SmsInv, TypeOK', UNCHANGED <<marker, smsCount, claimedBy>>,
           \A r \in Runs : pc'[r] \in {"sending", "accepted"} => pc'[r] = pc[r],
           \A r \in Runs : pc'[r] \in {"idle", "analysing", "sms"} =>
                             pc[r] \in {"idle", "analysing", "sms"},
           \A r \in Runs : outcomes'[r]["sms"] = "ok" => outcomes[r]["sms"] = "ok",
           \A r \in Runs : outcomes'[r]["sms"] = "alreadySent" =>
               \/ outcomes[r]["sms"] = "alreadySent"
               \/ claimedBy[CallOf[r]] \notin {r, None}
    PROVE  SmsInv'
  BY DEF SmsInv, Marked, Unmarked, Sending, Accepted, Unclaimed, AtMostOneSms, OkMeansSent

\* Every step keeps it.
LEMMA SmsKept == SmsInv /\ [Next]_vars => SmsInv'
<1> SUFFICES ASSUME SmsInv, [Next]_vars PROVE SmsInv'
  OBVIOUS
<1> USE CallOfAssumption, NoneAssumption
<1>0. TypeOK /\ TypeOK'
  BY TypeStep DEF SmsInv
<1>1. CASE Crash
  BY <1>0, <1>1, SmsElsewhere DEF Crash, Ended, TypeOK
<1>2. ASSUME NEW r \in Runs, Begin(r) \/ Swallow(r) PROVE SmsInv'
  BY <1>0, <1>2, SmsElsewhere DEF Begin, Swallow, Goto, TypeOK
<1>3. ASSUME NEW r \in Runs, Evidence(r) PROVE SmsInv'
  <2>1. \A q \in Runs : outcomes'[q]["sms"] = outcomes[q]["sms"]
    BY <1>0, <1>3, EvidenceReport DEF TypeOK
  <2> QED BY <1>0, <1>3, <2>1, SmsElsewhere DEF Evidence, Goto, TypeOK
<1>4. ASSUME NEW r \in Runs, SmsSuppressed(r) \/ SmsAlreadyMarked(r) PROVE SmsInv'
  <2>1. /\ \A q \in Runs : q # r => outcomes'[q]["sms"] = outcomes[q]["sms"]
        /\ outcomes'[r]["sms"] # "ok"
        /\ outcomes'[r]["sms"] = "alreadySent" => CallOf[r] \in marker
    BY <1>0, <1>4, OneReport
    DEF SmsSuppressed, SmsAlreadyMarked, TypeOK, Stages, Statuses
  <2>2. pc[r] = "sms" /\ CallOf[r] \in Calls
    BY <1>4 DEF SmsSuppressed, SmsAlreadyMarked
  <2>3. CallOf[r] \in marker => claimedBy[CallOf[r]] \notin {r, None}
    BY <2>2 DEF SmsInv, Marked, Unclaimed
  <2> QED
    BY <1>0, <1>4, <2>1, <2>2, <2>3, SmsElsewhere
    DEF SmsSuppressed, SmsAlreadyMarked, Goto, TypeOK
<1>5. ASSUME NEW r \in Runs, SmsMark(r) PROVE SmsInv'
  <2> DEFINE c == CallOf[r]
  <2>1. /\ c \in Calls /\ c \notin marker
        /\ marker' = marker \cup {c} /\ claimedBy' = [claimedBy EXCEPT ![c] = r]
        /\ pc' = [pc EXCEPT ![r] = "sending"]
        /\ UNCHANGED <<outcomes, smsCount>>
    BY <1>5 DEF SmsMark, OpensNew, Goto
  <2>2. claimedBy[c] = None /\ smsCount[c] = 0
    BY <2>1 DEF SmsInv, Marked, Unmarked
  <2>3. \A q \in Runs : CallOf[q] = c =>
            /\ pc[q] \notin {"sending", "accepted"}
            /\ outcomes[q]["sms"] \notin {"ok", "alreadySent"}
    BY <2>2 DEF SmsInv, Sending, Accepted, OkMeansSent
  <2> QED
    BY <1>0, <2>1, <2>2, <2>3
    DEF SmsInv, Marked, Unmarked, Sending, Accepted, Unclaimed, AtMostOneSms, OkMeansSent, TypeOK
<1>6. ASSUME NEW r \in Runs, SmsMarkRaises(r) PROVE SmsInv'
  <2> DEFINE c == CallOf[r]
  <2>1. /\ c \in Calls /\ c \notin marker
        /\ pc' = [pc EXCEPT ![r] = "markerRaised"]
        /\ UNCHANGED <<outcomes, smsCount>>
    BY <1>6 DEF SmsMarkRaises, Goto
  <2>2. CASE UNCHANGED <<marker, claimedBy>>
    BY <1>0, <2>1, <2>2, SmsElsewhere DEF TypeOK
  <2>3. CASE /\ marker' = marker \cup {c}
             /\ claimedBy' = [claimedBy EXCEPT ![c] = r]
    <3>1. claimedBy[c] = None /\ smsCount[c] = 0
      BY <2>1 DEF SmsInv, Marked, Unmarked
    <3>2. \A q \in Runs : CallOf[q] = c =>
              /\ pc[q] \notin {"sending", "accepted"}
              /\ outcomes[q]["sms"] \notin {"ok", "alreadySent"}
      BY <3>1 DEF SmsInv, Sending, Accepted, OkMeansSent
    <3> QED
      BY <1>0, <2>1, <2>3, <3>1, <3>2
      DEF SmsInv, Marked, Unmarked, Sending, Accepted, Unclaimed, AtMostOneSms, OkMeansSent, TypeOK
  <2> QED BY <1>6, <2>2, <2>3 DEF SmsMarkRaises
<1>7. ASSUME NEW r \in Runs, SmsAccepted(r) PROVE SmsInv'
  <2> DEFINE c == CallOf[r]
  <2>1. /\ c \in Calls /\ pc[r] = "sending"
        /\ smsCount' = [smsCount EXCEPT ![c] = @ + 1]
        /\ pc' = [pc EXCEPT ![r] = "accepted"]
        /\ UNCHANGED <<outcomes, marker, claimedBy>>
    BY <1>7 DEF SmsAccepted, Goto
  <2>2. claimedBy[c] = r /\ smsCount[c] = 0 /\ c \in marker
    BY <2>1 DEF SmsInv, Sending, Marked
  <2>3. smsCount'[c] = 1 /\ \A d \in Calls : d # c => smsCount'[d] = smsCount[d]
    BY <1>0, <2>1, <2>2 DEF TypeOK
  <2>4. \A q \in Runs : CallOf[q] = c =>
            /\ q # r => pc[q] \notin {"sending", "accepted"}
            /\ outcomes[q]["sms"] # "ok"
    BY <2>2 DEF SmsInv, Sending, Accepted, OkMeansSent
  <2> QED
    BY <1>0, <2>1, <2>2, <2>3, <2>4
    DEF SmsInv, Marked, Unmarked, Sending, Accepted, Unclaimed, AtMostOneSms, OkMeansSent, TypeOK
<1>8. ASSUME NEW r \in Runs, SmsReturns(r) PROVE SmsInv'
  <2>1. UNCHANGED <<marker, smsCount, claimedBy>>
    BY <1>8 DEF SmsReturns
  <2>2. pc' = [pc EXCEPT ![r] = "email"]
    BY <1>8 DEF SmsReturns, Goto
  <2>3. \A q \in Runs : q # r => outcomes'[q] = outcomes[q]
    BY <1>0, <1>8, OneReport DEF SmsReturns, Raised, TypeOK, Stages, Statuses
  <2>4. /\ outcomes'[r]["sms"] = "ok" => pc[r] = "accepted"
        /\ outcomes'[r]["sms"] # "alreadySent"
    BY <1>0, <1>8, OneReport DEF SmsReturns, Raised, TypeOK, Stages, Statuses
  <2> QED
    BY <1>0, <2>1, <2>2, <2>3, <2>4
    DEF SmsInv, Marked, Unmarked, Sending, Accepted, Unclaimed, AtMostOneSms, OkMeansSent, TypeOK
<1>9. ASSUME NEW r \in Runs, Email(r) PROVE SmsInv'
  <2>1. \A q \in Runs : outcomes'[q]["sms"] = outcomes[q]["sms"]
    BY <1>0, <1>9, OneReport
    DEF Email, EmailAnswers, AlwaysAttempted, TypeOK, Stages, Statuses
  <2> QED BY <1>0, <1>9, <2>1, SmsElsewhere DEF Email, Goto, TypeOK
<1>10. ASSUME NEW r \in Runs, Brief(r) PROVE SmsInv'
  BY <1>0, <1>10, SmsElsewhere DEF Brief, Goto, TypeOK
<1>11. CASE UNCHANGED vars
  BY <1>0, <1>11, SmsElsewhere DEF vars
<1> QED
  BY <1>1, <1>2, <1>3, <1>4, <1>5, <1>6, <1>7, <1>8, <1>9, <1>10, <1>11
  DEF Next, RunStep, SmsStep

(***************************************************************************)
(* At most one SMS per call, for any number of runs of it, however they    *)
(* overlap, fail or are killed (dispatch.py:8, 179-197): open("x") hands   *)
(* out the permission once, and it is spent by the run that got it.        *)
(***************************************************************************)
THEOREM AtMostOneSmsHolds == Spec => []AtMostOneSms
<1>1. SmsInv => AtMostOneSms
  BY DEF SmsInv
<1> QED BY SmsInit, SmsKept, <1>1, PTL DEF Spec

(***************************************************************************)
(* A run that reports its SMS "ok" claimed the call, and Twilio accepted   *)
(* exactly one message for it (dispatch.py:179-200).                       *)
(***************************************************************************)
THEOREM OkMeansSentHolds == Spec => []OkMeansSent
<1>1. SmsInv => OkMeansSent
  BY DEF SmsInv
<1> QED BY SmsInit, SmsKept, <1>1, PTL DEF Spec
-----------------------------------------------------------------------------
(* The report.  The email is taken once, and until the brief is written    *)
(* nothing of the run's outcomes changes but the email's own.              *)

EmailTaken ==
    \A r \in Runs : emailed[r] # None => pc[r] \in {"brief", "reported", "killed"}
BriefDue ==
    \A r \in Runs : pc[r] = "brief" =>
        /\ emailed[r] # None
        /\ emailed[r] = RenderBrief(outcomes[r], "none")
        /\ outcomes[r]["email"] \in {"ok", "failed"}

\* What the brief of a call says, if there is a whole one.
Says(c) ==
    /\ briefBy[c] # None /\ CallOf[briefBy[c]] = c /\ emailed[briefBy[c]] # None
    /\ \A line \in {"transcript", "analysis", "sms"} :
           brief[c][line] = emailed[briefBy[c]][line]
    /\ brief[c].email = IF outcomes[briefBy[c]]["email"] = "ok" THEN "sent" ELSE "FAILED"
    /\ brief[c].sms = "sent" => smsCount[c] = 1

BriefInv ==
    SmsInv /\ EmailTaken /\ BriefDue /\ \A c \in Calls : brief[c] # None => Says(c)

\* Nothing was reported yet.
LEMMA BriefInit == Init => BriefInv
<1> SUFFICES ASSUME Init PROVE BriefInv
  OBVIOUS
<1>1. /\ \A r \in Runs : pc[r] = "idle" /\ emailed[r] = None
      /\ \A c \in Calls : brief[c] = None
  BY DEF Init
<1> QED BY <1>1, SmsInit DEF BriefInv, EmailTaken, BriefDue

\* A message that was accepted stays accepted, and stays the only one.
LEMMA CountKept ==
    ASSUME SmsInv, SmsInv', [Next]_vars, NEW c \in Calls, smsCount[c] = 1
    PROVE  smsCount'[c] = 1
<1>1. ASSUME NEW r \in Runs, SmsAccepted(r) PROVE smsCount'[c] = 1
  <2>1. c # CallOf[r] /\ CallOf[r] \in Calls
    BY <1>1, CallOfAssumption DEF SmsAccepted, SmsInv, Sending
  <2> QED BY <1>1, <2>1 DEF SmsAccepted, SmsInv, TypeOK
<1>2. CASE UNCHANGED smsCount
  BY <1>2
<1> QED
  BY <1>1, <1>2
  DEF Next, RunStep, SmsStep, Crash, Begin, Evidence, SmsSuppressed, SmsAlreadyMarked,
      SmsMark, SmsMarkRaises, SmsReturns, Email, Brief, Swallow, vars

\* A brief goes on saying what it says while its run's email and report stand.
LEMMA SaysKept ==
    ASSUME TypeOK, NEW c \in Calls, brief[c] # None, Says(c),
           brief'[c] = brief[c], briefBy'[c] = briefBy[c],
           smsCount[c] = 1 => smsCount'[c] = 1,
           \A r \in Runs : emailed[r] # None =>
               emailed'[r] = emailed[r] /\ outcomes'[r]["email"] = outcomes[r]["email"]
    PROVE  Says(c)'
<1>1. briefBy[c] \in Runs
  BY DEF Says, TypeOK
<1> DEFINE r == briefBy[c]
<1>2. /\ emailed'[r] = emailed[r] /\ outcomes'[r]["email"] = outcomes[r]["email"]
  BY <1>1 DEF Says
<1>3. briefBy'[c] = r
  OBVIOUS
<1> QED BY <1>2, <1>3 DEF Says

\* A step that neither emails nor writes a brief, and changes the outcomes of
\* runs before their email only, keeps the invariant; a brief may be torn.
LEMMA BriefElsewhere ==
    ASSUME BriefInv, SmsInv', UNCHANGED <<briefBy, emailed>>,
           \A c \in Calls : brief'[c] = brief[c] \/ brief'[c] = None,
           \A c \in Calls : smsCount[c] = 1 => smsCount'[c] = 1,
           \A r \in Runs : \/ pc'[r] = pc[r] /\ outcomes'[r] = outcomes[r]
                           \/ /\ pc[r] \notin {"brief", "reported", "killed"}
                              /\ pc'[r] # "brief"
                           \/ /\ pc[r] = "brief" /\ pc'[r] = "killed"
                              /\ outcomes'[r] = outcomes[r]
    PROVE  BriefInv'
<1>1. EmailTaken'
  BY DEF BriefInv, EmailTaken
<1>2. BriefDue'
  BY DEF BriefInv, BriefDue, RenderBrief
<1>3. \A r \in Runs : emailed[r] # None =>
          emailed'[r] = emailed[r] /\ outcomes'[r]["email"] = outcomes[r]["email"]
  BY DEF BriefInv, EmailTaken
<1>4. ASSUME NEW c \in Calls, brief'[c] # None PROVE Says(c)'
  <2>1. brief'[c] = brief[c] /\ brief[c] # None /\ briefBy'[c] = briefBy[c]
    BY <1>4
  <2>2. TypeOK /\ Says(c)
    BY <2>1 DEF BriefInv, SmsInv
  <2> QED BY <1>3, <2>1, <2>2, SaysKept
<1> QED BY <1>1, <1>2, <1>4 DEF BriefInv

\* Every step keeps it.
LEMMA BriefKept == BriefInv /\ [Next]_vars => BriefInv'
<1> SUFFICES ASSUME BriefInv, [Next]_vars PROVE BriefInv'
  OBVIOUS
<1> USE CallOfAssumption, NoneAssumption
<1>0. TypeOK /\ TypeOK' /\ SmsInv'
  BY TypeStep, SmsKept DEF BriefInv, SmsInv
<1>01. \A c \in Calls : smsCount[c] = 1 => smsCount'[c] = 1
  BY <1>0, CountKept DEF BriefInv
<1>1. CASE Crash
  <2>1. \A c \in Calls : brief'[c] = brief[c] \/ brief'[c] = None
    BY <1>0, <1>1 DEF Crash, Torn, TypeOK
  <2>2. \A r \in Runs : \/ pc'[r] = pc[r]
                        \/ pc[r] \notin {"reported", "killed"} /\ pc'[r] = "killed"
    BY <1>0, <1>1 DEF Crash, Ended, TypeOK
  <2>3. UNCHANGED <<briefBy, emailed, outcomes>>
    BY <1>1 DEF Crash
  <2> QED BY <1>0, <1>01, <2>1, <2>2, <2>3, BriefElsewhere
<1>2. ASSUME NEW r \in Runs, Begin(r) \/ Swallow(r) PROVE BriefInv'
  BY <1>0, <1>01, <1>2, BriefElsewhere DEF Begin, Swallow, Goto, TypeOK
<1>3. ASSUME NEW r \in Runs, Evidence(r) PROVE BriefInv'
  <2>1. \A q \in Runs : q # r => outcomes'[q] = outcomes[q] /\ pc'[q] = pc[q]
    BY <1>0, <1>3 DEF Evidence, Goto, TypeOK
  <2>2. pc[r] = "analysing" /\ pc'[r] # "brief"
    BY <1>0, <1>3 DEF Evidence, Goto, TypeOK
  <2> QED BY <1>0, <1>01, <1>3, <2>1, <2>2, BriefElsewhere DEF Evidence
<1>4. ASSUME NEW r \in Runs, SmsStep(r) PROVE BriefInv'
  <2>1. /\ pc[r] \in {"sms", "sending", "accepted"}
        /\ pc'[r] # "brief"
        /\ \A q \in Runs : q # r => pc'[q] = pc[q]
        /\ UNCHANGED <<brief, briefBy, emailed>>
    BY <1>0, <1>4
    DEF SmsStep, SmsSuppressed, SmsAlreadyMarked, SmsMark, SmsMarkRaises,
        SmsAccepted, SmsReturns, Goto, TypeOK
  <2>2. \A q \in Runs : q # r => outcomes'[q] = outcomes[q]
    BY <1>0, <1>4
    DEF SmsStep, SmsSuppressed, SmsAlreadyMarked, SmsMark, SmsMarkRaises,
        SmsAccepted, SmsReturns, Reports, TypeOK
  <2> QED BY <1>0, <1>01, <2>1, <2>2, BriefElsewhere
<1>5. ASSUME NEW r \in Runs, Email(r) PROVE BriefInv'
  <2>1. /\ pc[r] = "email" /\ pc' = [pc EXCEPT ![r] = "brief"]
        /\ emailed' = [emailed EXCEPT ![r] = RenderBrief(outcomes[r], "none")]
        /\ UNCHANGED <<brief, briefBy, smsCount>>
    BY <1>5 DEF Email, AlwaysAttempted, Goto
  <2>2. PICK s \in {"ok", "failed"} :
            outcomes' = [outcomes EXCEPT ![r] = [@ EXCEPT !["email"] = s]]
    BY <1>5 DEF Email, EmailAnswers, AlwaysAttempted, Reports
  <2>3. /\ outcomes[r] \in [Stages -> Statuses]
        /\ outcomes'[r] = [outcomes[r] EXCEPT !["email"] = s]
    BY <1>0, <2>2 DEF TypeOK, Outcome
  <2>4. /\ outcomes'[r]["email"] = s
        /\ \A t \in {"transcript", "analysis", "sms"} :
               outcomes'[r][t] = outcomes[r][t]
    BY <2>3 DEF Stages
  <2>5. /\ emailed'[r] = RenderBrief(outcomes[r], "none")
        /\ emailed'[r] = RenderBrief(outcomes'[r], "none")
    BY <1>0, <2>1, <2>4 DEF TypeOK, RenderBrief
  <2>6. emailed'[r] # None /\ emailed[r] = None
    BY <1>0, <2>1, <2>5, BriefLines DEF BriefInv, EmailTaken, TypeOK, Statuses
  <2>7. \A q \in Runs : q # r =>
            /\ pc'[q] = pc[q] /\ emailed'[q] = emailed[q]
            /\ outcomes'[q] = outcomes[q]
    BY <1>0, <2>1, <2>2 DEF TypeOK
  <2>8. EmailTaken'
    BY <1>0, <2>1, <2>7 DEF BriefInv, EmailTaken, TypeOK
  <2>9. BriefDue'
    <3> SUFFICES ASSUME NEW q \in Runs, pc'[q] = "brief"
                 PROVE  /\ emailed'[q] # None
                        /\ emailed'[q] = RenderBrief(outcomes'[q], "none")
                        /\ outcomes'[q]["email"] \in {"ok", "failed"}
      BY DEF BriefDue, RenderBrief
    <3>1. CASE q = r
      BY <2>4, <2>5, <2>6, <3>1
    <3>2. CASE q # r
      BY <2>7, <3>2 DEF BriefInv, BriefDue
    <3> QED BY <3>1, <3>2
  <2>10. ASSUME NEW c \in Calls, brief'[c] # None PROVE Says(c)'
    <3>1. brief'[c] = brief[c] /\ brief[c] # None /\ briefBy'[c] = briefBy[c] /\ Says(c)
      BY <2>1, <2>10 DEF BriefInv
    <3>2. \A q \in Runs : emailed[q] # None =>
              emailed'[q] = emailed[q] /\ outcomes'[q]["email"] = outcomes[q]["email"]
      BY <2>6, <2>7
    <3> QED BY <1>0, <1>01, <3>1, <3>2, SaysKept
  <2> QED BY <1>0, <2>8, <2>9, <2>10 DEF BriefInv
<1>6. ASSUME NEW r \in Runs, Brief(r) PROVE BriefInv'
  <2>1. /\ pc[r] = "brief" /\ pc' = [pc EXCEPT ![r] = "reported"]
        /\ UNCHANGED <<outcomes, emailed, smsCount>>
    BY <1>6 DEF Brief, Goto
  <2>2. EmailTaken' /\ BriefDue'
    BY <1>0, <2>1 DEF BriefInv, EmailTaken, BriefDue, RenderBrief, TypeOK
  <2>3. \A c \in Calls :
            \/ brief'[c] = None
            \/ brief'[c] = brief[c] /\ briefBy'[c] = briefBy[c]
            \/ c = CallOf[r] /\ brief'[c] = BriefText(r) /\ briefBy'[c] = r
    BY <1>0, <1>6 DEF Brief, Torn, TypeOK
  <2>4. ASSUME NEW c \in Calls, brief'[c] # None, brief'[c] = brief[c],
               briefBy'[c] = briefBy[c]
        PROVE  Says(c)'
    BY <1>0, <1>01, <2>1, <2>4, SaysKept DEF BriefInv
  <2>5. ASSUME NEW c \in Calls, c = CallOf[r], brief'[c] = BriefText(r), briefBy'[c] = r
        PROVE  Says(c)'
    <3>1. /\ emailed[r] # None
          /\ emailed[r] = RenderBrief(outcomes[r], "none")
          /\ outcomes[r]["email"] \in {"ok", "failed"}
      BY <2>1 DEF BriefInv, BriefDue
    <3>2. \A line \in {"transcript", "analysis", "sms"} :
              BriefText(r)[line] = emailed[r][line]
      BY <3>1 DEF BriefText, RenderBrief
    <3>3. BriefText(r).email = IF outcomes[r]["email"] = "ok" THEN "sent" ELSE "FAILED"
      BY <3>1 DEF BriefText, RenderBrief, EmailLine
    <3>4. BriefText(r).sms = "sent" => smsCount[c] = 1
      BY <2>5 DEF BriefInv, SmsInv, OkMeansSent, BriefText, RenderBrief, SmsLine
    <3>5. r # None
      OBVIOUS
    <3> QED BY <2>1, <2>5, <3>1, <3>2, <3>3, <3>4, <3>5 DEF Says
  <2>6. ASSUME NEW c \in Calls, brief'[c] # None PROVE Says(c)'
    BY <2>3, <2>4, <2>5, <2>6
  <2> QED BY <1>0, <2>2, <2>6 DEF BriefInv
<1>7. CASE UNCHANGED vars
  BY <1>0, <1>7, BriefElsewhere DEF vars
<1> QED BY <1>1, <1>2, <1>3, <1>4, <1>5, <1>6, <1>7 DEF Next, RunStep

(***************************************************************************)
(* The brief on disk is that of the run that wrote it last, whichever of   *)
(* the overlapping runs that was: it has the lines of that run's email,    *)
(* tells how that email ended, and claims no SMS that was not sent         *)
(* (dispatch.py:127-158).                                                  *)
(***************************************************************************)
THEOREM BriefAgreesHolds == Spec => []BriefAgrees
<1>1. BriefInv => BriefAgrees
  BY DEF BriefInv, Says, BriefAgrees
<1> QED BY BriefInit, BriefKept, <1>1, PTL DEF Spec
=============================================================================
