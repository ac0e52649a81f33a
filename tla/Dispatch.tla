------------------------------- MODULE Dispatch -------------------------------
(***************************************************************************)
(* What happens after a call, src/decana/dispatch/dispatch.py: post_call   *)
(* analyses the transcript and dispatches five effects in order, each of   *)
(* which may fail by itself.                                               *)
(*                                                                         *)
(* A run is one post_call.  Two runs may have the same CallSid (a webhook  *)
(* retried after its call was adopted gives two calls one name), overlap,  *)
(* and share the artifact directory; the process may be killed between any *)
(* two steps, and only the directory and what was sent survives.  The SMS  *)
(* and the email are sent in worker threads.                               *)
(***************************************************************************)
EXTENDS Naturals, FiniteSets

CONSTANTS
    Runs, Calls, CallOf,
    Configured,     \* the senders that have credentials: "sms", "email"
    DiskFaults,     \* writes that may fail: "mkdir", "files", "marker"
    MayCrash,
    None

ASSUME CallOfAssumption == CallOf \in [Runs -> Calls]
ASSUME ConfiguredAssumption == Configured \subseteq {"sms", "email"}
ASSUME FaultsAssumption ==
    DiskFaults \subseteq {"mkdir", "files", "marker"} /\ MayCrash \in BOOLEAN

VARIABLES
    pc,         \* where each run stands
    outcomes,   \* the StageOutcome of each stage of each run
    marker,     \* calls whose .sms-sent file exists
    brief,      \* per call: what the brief on disk says, None if no whole one is there
    smsCount,   \* per call: messages Twilio accepted
    emailed,    \* per run: the email's body as sent, None if it never was
    \* No action reads these.
    claimedBy,  \* per call: the run that created the marker
    briefBy     \* per call: the run that wrote the brief last

vars == <<pc, outcomes, marker, brief, smsCount, emailed, claimedBy, briefBy>>

Stages == {"transcript", "analysis", "sms", "email"}
\* A skip says why: by policy, or "already sent for this call".
Statuses == {"none", "ok", "skipped", "alreadySent", "failed"}
Outcome == [Stages -> Statuses]
Texts == {"none", "written", "sent", "skipped", "alreadySent", "FAILED"}
Lines == [transcript : Texts, analysis : Texts, sms : Texts, email : Texts]

ASSUME NoneAssumption == None \notin Runs /\ None \notin Lines

Init ==
    /\ pc = [r \in Runs |-> "idle"]
    /\ outcomes = [r \in Runs |-> [s \in Stages |-> "none"]]
    /\ marker = {}
    /\ brief = [c \in Calls |-> None]
    /\ smsCount = [c \in Calls |-> 0]
    /\ emailed = [r \in Runs |-> None]
    /\ claimedBy = [c \in Calls |-> None]
    /\ briefBy = [c \in Calls |-> None]

-----------------------------------------------------------------------------
(* The lines of the brief, chosen by the status and nothing else.          *)

FileLine(status) == IF status = "ok" THEN "written" ELSE "FAILED"

\* Mutated form: what was not sent is told as if it had been.
SmsLineOptimist(status) == IF status = "failed" THEN "FAILED" ELSE "sent"

SmsLine(status) ==
    IF status = "ok" THEN "sent"
    ELSE IF status \in {"skipped", "alreadySent"} THEN status ELSE "FAILED"

\* Mutated form: an email that was attempted is told as sent.
EmailLineOptimist(status) == "sent"

EmailLine(status) == IF status = "ok" THEN "sent" ELSE "FAILED"

\* The email's own line is left out of the email.
RenderBrief(outcome, email) ==
    [transcript |-> FileLine(outcome["transcript"]),
     analysis |-> FileLine(outcome["analysis"]),
     sms |-> SmsLine(outcome["sms"]),
     email |-> IF email = "none" THEN "none" ELSE EmailLine(email)]

-----------------------------------------------------------------------------
Goto(r, where) == pc' = [pc EXCEPT ![r] = where]
Reports(r, stage, status) ==
    outcomes' = [outcomes EXCEPT ![r] = [@ EXCEPT ![stage] = status]]

\* Mutated form: a stage that worked returns nothing.
WrittenNoReturn(fault) == IF fault \in DiskFaults THEN {None, "failed"} ELSE {None}

\* What _run makes of one effect.
Written(fault) == IF fault \in DiskFaults THEN {"ok", "failed"} ELSE {"ok"}

\* post_call begins: the analysis is awaited; analyse() does not raise.
Begin(r) ==
    /\ pc[r] = "idle"
    /\ Goto(r, "analysing")
    /\ UNCHANGED <<outcomes, marker, brief, smsCount, emailed, claimedBy, briefBy>>

\* The directory, the transcript, the analysis and the timing copy.
Evidence(r) ==
    /\ pc[r] = "analysing"
    /\ \/ \E t, a \in Written("files") :
             /\ outcomes' = [outcomes EXCEPT
                   ![r] = [@ EXCEPT !["transcript"] = t, !["analysis"] = a]]
             /\ Goto(r, "sms")
       \/ /\ "mkdir" \in DiskFaults
          /\ Goto(r, "noDirectory")
          /\ UNCHANGED outcomes
    /\ UNCHANGED <<marker, brief, smsCount, emailed, claimedBy, briefBy>>

-----------------------------------------------------------------------------
(* The SMS: three suppressions, then at most one message per call.         *)

\* No template for the outcome, or the caller's number is withheld.
SmsSuppressed(r) ==
    /\ pc[r] = "sms"
    /\ Reports(r, "sms", "skipped")
    /\ Goto(r, "email")
    /\ UNCHANGED <<marker, brief, smsCount, emailed, claimedBy, briefBy>>

SmsAlreadyMarked(r) ==
    /\ pc[r] = "sms" /\ CallOf[r] \in marker
    /\ Reports(r, "sms", "alreadySent")
    /\ Goto(r, "email")
    /\ UNCHANGED <<marker, brief, smsCount, emailed, claimedBy, briefBy>>

\* Mutated form: open("w"), which succeeds on a file that exists.
OpensAnyway(r) == TRUE

\* open("x") succeeds once.
OpensNew(r) == CallOf[r] \notin marker

SmsMark(r) ==
    /\ pc[r] = "sms" /\ OpensNew(r)
    /\ marker' = marker \cup {CallOf[r]}
    /\ claimedBy' = [claimedBy EXCEPT ![CallOf[r]] = r]
    /\ Goto(r, "sending")
    /\ UNCHANGED <<outcomes, brief, smsCount, emailed, briefBy>>

\* Any other OSError of the marker, its file created or not, is not caught.
SmsMarkRaises(r) ==
    /\ pc[r] = "sms" /\ CallOf[r] \notin marker
    /\ "marker" \in DiskFaults
    /\ \/ UNCHANGED <<marker, claimedBy>>
       \/ /\ marker' = marker \cup {CallOf[r]}
          /\ claimedBy' = [claimedBy EXCEPT ![CallOf[r]] = r]
    /\ Goto(r, "markerRaised")
    /\ UNCHANGED <<outcomes, brief, smsCount, emailed, briefBy>>

\* Twilio accepts the message; the answer may still be lost, or lack a sid.
SmsAccepted(r) ==
    /\ pc[r] = "sending" /\ "sms" \in Configured
    /\ smsCount' = [smsCount EXCEPT ![CallOf[r]] = @ + 1]
    /\ Goto(r, "accepted")
    /\ UNCHANGED <<outcomes, marker, brief, emailed, claimedBy, briefBy>>

\* Mutated form: an exception of the sender is swallowed.
RaisedIsOk == "ok"

Raised == "failed"

SmsReturns(r) ==
    /\ \/ pc[r] = "accepted" /\ \E s \in {"ok", "failed"} : Reports(r, "sms", s)
       \/ pc[r] = "sending" /\ Reports(r, "sms", Raised)
    /\ Goto(r, "email")
    /\ UNCHANGED <<marker, brief, smsCount, emailed, claimedBy, briefBy>>

-----------------------------------------------------------------------------
(* The email and the brief.                                                *)

\* Mutated form: the email is left out when an earlier stage failed.
OnlyAfterSuccess(r) == \A s \in {"transcript", "analysis"} : outcomes[r][s] = "ok"

AlwaysAttempted(r) == TRUE

\* Login, STARTTLS or the message may be refused; the stand-in always raises.
EmailAnswers == IF "email" \in Configured THEN {"ok", "failed"} ELSE {"failed"}

\* The body is the brief as it stands; sending may fail after it was taken.
Email(r) ==
    /\ pc[r] = "email"
    /\ IF AlwaysAttempted(r)
       THEN /\ emailed' = [emailed EXCEPT ![r] = RenderBrief(outcomes[r], "none")]
            /\ \E s \in EmailAnswers : Reports(r, "email", s)
       ELSE UNCHANGED <<emailed, outcomes>>
    /\ Goto(r, "brief")
    /\ UNCHANGED <<marker, brief, smsCount, claimedBy, briefBy>>

\* Mutated form: the brief is rendered as it was for the email.
BriefOfEmail(r) == RenderBrief(outcomes[r], "none")

\* Mutated form: what some run of the call reports is taken for this one's.
BriefOfSome(r) ==
    LET q == CHOOSE q \in Runs : CallOf[q] = CallOf[r]
    IN  RenderBrief(outcomes[q], outcomes[q]["email"])

BriefText(r) == RenderBrief(outcomes[r], outcomes[r]["email"])

\* write_text truncates the brief that is there before it fills it.
Torn(r) == [brief EXCEPT ![CallOf[r]] = None]

\* A write that fails changed nothing, or left no whole brief.
Brief(r) ==
    /\ pc[r] = "brief"
    /\ \/ /\ brief' = [brief EXCEPT ![CallOf[r]] = BriefText(r)]
          /\ briefBy' = [briefBy EXCEPT ![CallOf[r]] = r]
       \/ /\ "failed" \in Written("files")
          /\ brief' \in {brief, Torn(r)}
          /\ UNCHANGED briefBy
    /\ Goto(r, "reported")
    /\ UNCHANGED <<outcomes, marker, smsCount, emailed, claimedBy>>

\* post_call catches what is left over and logs it.
Swallow(r) ==
    /\ pc[r] \in {"noDirectory", "markerRaised"}
    /\ Goto(r, IF pc[r] = "noDirectory" THEN "gaveUp" ELSE "aborted")
    /\ UNCHANGED <<outcomes, marker, brief, smsCount, emailed, claimedBy, briefBy>>

Ended == {"reported", "gaveUp", "aborted", "killed"}

\* The process is killed, perhaps in the middle of the write of a brief.
Crash ==
    /\ MayCrash
    /\ \E r \in Runs : pc[r] \notin Ended \cup {"idle"}
    /\ pc' = [r \in Runs |-> IF pc[r] \in Ended \cup {"idle"} THEN pc[r] ELSE "killed"]
    /\ brief' \in {brief} \cup {Torn(r) : r \in {q \in Runs : pc[q] = "brief"}}
    /\ UNCHANGED <<outcomes, marker, smsCount, emailed, claimedBy, briefBy>>

SmsStep(r) == \/ SmsSuppressed(r) \/ SmsAlreadyMarked(r) \/ SmsMark(r)
              \/ SmsMarkRaises(r) \/ SmsAccepted(r) \/ SmsReturns(r)
RunStep(r) == Evidence(r) \/ SmsStep(r) \/ Email(r) \/ Brief(r) \/ Swallow(r)

Next == Crash \/ \E r \in Runs : Begin(r) \/ RunStep(r)

(* A run that began goes on: the analysis has its timeout, and the senders *)
(* return or raise.                                                        *)
Fairness == \A r \in Runs : WF_vars(RunStep(r))

Spec == Init /\ [][Next]_vars /\ Fairness

-----------------------------------------------------------------------------
(* Every variable has its type.                                            *)
TypeOK ==
    /\ pc \in [Runs -> {"idle", "analysing", "sms", "sending", "accepted", "email",
                        "brief", "noDirectory", "markerRaised"} \cup Ended]
    /\ outcomes \in [Runs -> Outcome]
    /\ marker \subseteq Calls
    /\ brief \in [Calls -> Lines \cup {None}]
    /\ smsCount \in [Calls -> Nat]
    /\ emailed \in [Runs -> Lines \cup {None}]
    /\ claimedBy \in [Calls -> Runs \cup {None}]
    /\ briefBy \in [Calls -> Runs \cup {None}]

(* At most one SMS per call, however runs of that call overlap, fail or    *)
(* are killed between the marker and the message (dispatch.py:8, 170).     *)
AtMostOneSms == \A c \in Calls : smsCount[c] <= 1

(* Every run that ends reached the operator, whatever failed before: "a    *)
(* disk failure must not take the operator's email with it"                *)
(* (dispatch.py:18-21); what is genuinely left over is the directory       *)
(* (dispatch.py:251-253).                                                  *)
EveryRunEmails == \A r \in Runs : pc[r] \in {"reported", "aborted"} => emailed[r] # None

(* What a run reports of its SMS is true of that run: "ok" means that it   *)
(* claimed the call and its message was accepted, "already sent" that      *)
(* another run of the call had claimed it; that one may have failed, or    *)
(* have been killed, before anything was sent (dispatch.py:179-200).       *)
OkMeansSent ==
    \A r \in Runs :
        /\ outcomes[r]["sms"] = "ok" =>
               claimedBy[CallOf[r]] = r /\ smsCount[CallOf[r]] = 1
        /\ outcomes[r]["sms"] = "alreadySent" => claimedBy[CallOf[r]] \notin {r, None}

(* The brief on disk is that of the run that wrote it last: its lines are   *)
(* those of the body which that very run gave to its email, the line that  *)
(* the body cannot have is the outcome of that email, and when it states   *)
(* that an SMS was sent, exactly one was, however runs of the call overlap *)
(* (dispatch.py:127-158, brief.py:25-45, 83-112).                          *)
BriefAgrees ==
    \A c \in Calls : brief[c] # None =>
        LET r == briefBy[c] IN
        /\ r # None /\ CallOf[r] = c /\ emailed[r] # None
        /\ \A line \in {"transcript", "analysis", "sms"} : brief[c][line] = emailed[r][line]
        /\ brief[c].email = IF outcomes[r]["email"] = "ok" THEN "sent" ELSE "FAILED"
        /\ brief[c].sms = "sent" => smsCount[c] = 1

(* What holds of it: a run that began attempts its email, unless the       *)
(* directory or the marker raised or the process was killed.               *)
RunsEnd ==
    \A r \in Runs : (pc[r] = "analysing")
        ~> (emailed[r] # None \/ pc[r] \in {"gaveUp", "aborted", "killed"})
=============================================================================
