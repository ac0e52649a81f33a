----------------------------- MODULE VerticalProps -----------------------------
(***************************************************************************)
(* What a loaded profile promises the calls it serves, over Vertical.      *)
(***************************************************************************)
EXTENDS Vertical

(* Every variable has its type; only a serving deployment has a profile.   *)
TypeOK ==
    /\ env \in Environment /\ \E d \in Deployments : env = d.env /\ file = d.file
    /\ startup \in {"starting", "serving", "exit2", "valueError", "refused",
                    "noDirectory"}
    /\ hook \in Hooks \cup {None} /\ caller \in E164 \cup {None}
    /\ startup = "serving" <=> profile # None
    /\ answer \in Answers \cup {None}
    /\ analysis # None =>
          /\ analysis.outcome \in profile.outcomes \cup {Str(Unclassified)}
          /\ analysis.raw \in Answers \cup {None}
    /\ sms \in {"none", "skipped", "sent", "refused", "KeyError", "ValueError"}

(* An SMS goes out only on a verdict: nobody is written to on an answer    *)
(* that failed, was malformed or named another label, although its         *)
(* outcome, "unclassified", is a label like the others (load.py:41-44,     *)
(* 290-294, dispatch.py:171-175).                                          *)
SmsOnlyOnVerdict ==
    sms = "sent" => /\ answer.kind = "object" /\ answer.outcome = analysis.outcome
                    /\ analysis.outcome # Str(Unclassified)

(* The SMS goes to the human on the line, never to our own number nor to   *)
(* what is no number, whoever placed the call, and only a deployment that  *)
(* has the credentials sends it (server.py:99-109, 263-274, wiring.py:     *)
(* 39-48, dispatch.py:176).                                                *)
SmsToTheCaller ==
    sms = "sent" => /\ caller = hook.human /\ caller \in E164
                    /\ HasTwilio(env)

(* A verdict counts: a well-formed answer with a label the author allowed, *)
(* with or without blanks around it in the file, is the outcome            *)
(* (load.py:268-280, analyse.py:114, 125-130).                             *)
VerdictKept ==
    analysis # None /\ answer.kind = "object" /\ answer.summary
    /\ answer.notes # "notList"
    /\ (\E i \in DOMAIN file.allowed.items :
            answer.outcome = Str(file.allowed.items[i].core))
    => analysis.outcome = answer.outcome

(* Every name by which a loaded template refers to a link has one: a call  *)
(* meets a KeyError only for a name nested in a format spec, and a         *)
(* ValueError only for a spec or a conversion (load.py:335-348, 370-385).  *)
(* That is less than is written: S5 is to format "without a KeyError"      *)
(* (profile/model.py:35-38), and every failure a profile can contain is to *)
(* be caught at startup (load.py:3-8), but the loader looks neither into a *)
(* spec nor at a conversion, and `{a:{b}}`, `{a:d}` and `{a!z}` all load.  *)
NamesResolve ==
    LET used == profile.sms[analysis.outcome] IN
    /\ sms = "KeyError" =>
           \E p \in used.placeholders : p.spec = "nested" /\ p.inner \notin used.links
    /\ sms = "ValueError" =>
           \E p \in used.placeholders : p.spec # "plain" \/ p.conversion = "unknown"
=============================================================================
