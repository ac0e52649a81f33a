------------------------------- MODULE Vertical -------------------------------
(***************************************************************************)
(* One deployment and one call of it: the start-up (__main__.py) that      *)
(* reads the environment and validates the hand-edited profile             *)
(* (profile/load.py), the caller's number on its way from the webhook to   *)
(* the record (twilio/server.py), the analysis of the transcript against   *)
(* the profile's vocabulary (analysis/analyse.py) and the SMS chosen and   *)
(* rendered for the outcome (dispatch/dispatch.py:170-195).                *)
(*                                                                         *)
(* A string of a file is [core, padded]: what strip() leaves of it, and    *)
(* whether there was anything to strip.  A template is the set of its      *)
(* placeholders, each a field name with a conversion that str.format knows *)
(* or not (none is known) and a format spec.                               *)
(***************************************************************************)
EXTENDS Naturals, Sequences, Settings

CONSTANTS
    Deployments,    \* environments and profile directories somebody may set up
    Hooks,          \* the webhooks Twilio may send for the call
    E164,           \* the caller IDs that are numbers
    Answers,        \* what becomes of the request to the analysis model
    Unclassified,   \* the label of a call nobody could classify
    Identifiers,    \* the field names a link can have
    None

ASSUME NoneAssumption == None \notin Answers /\ None \notin E164

ASSUME EnvironmentAssumption == \A d \in Deployments : d.env \in Environment

\* Twilio: a call it places names the human it calls; a call it takes names the
\* human, or a text that is no number.
ASSUME HooksAssumption ==
    \A hook \in Hooks :
        IF hook.direction = "outbound" THEN hook.to = hook.human /\ hook.to # None
        ELSE hook.from = hook.human \/ hook.from \notin E164

VARIABLES
    env, file,  \* the environment and the directory of this deployment
    hook,       \* the call's webhook, None before it
    caller,     \* _Call.caller_number, None when there is none
    profile,    \* the loaded profile, None before and after a failed load
    startup,    \* "starting", "serving", or how the process ended instead
    answer,     \* the answer of the one call modelled, None before it
    analysis,   \* what analyse() returned for it
    sms         \* the outcome of its SMS stage

deployment == <<env, file, profile, startup>>
vars == <<deployment, hook, caller, answer, analysis, sms>>

\* SCHEMA.
Tables == {"vertical", "gemini", "twilio", "operator", "outcomes"}
Prompts == {"disclosure", "conversation", "analysis"}

Str(c) == [type |-> "str", core |-> c, padded |-> FALSE]

\* Mutated form: what is checked is stripped, and what is kept is not.
KeepPadding(v) == v

Strip(v) == Str(v.core)

\* A value that must be a string with something in it.
ReadableString(v) == v.type = "str" /\ v.core # None

-----------------------------------------------------------------------------
(* load_profile: every check is a conjunct, the first that fails raises.   *)

TablesOk(f) ==
    /\ "bogus" \notin DOMAIN f.tables
    /\ Tables \subseteq DOMAIN f.tables
    /\ \A t \in Tables : f.tables[t] = "table" /\ t \notin f.unknownKeys
    /\ \A key \in DOMAIN f.scalars : ReadableString(f.scalars[key])

Outcomes(f) == [i \in DOMAIN f.allowed.items |-> Strip(f.allowed.items[i])]

Distinct(f) ==
    \A i, j \in DOMAIN f.allowed.items : Outcomes(f)[i] = Outcomes(f)[j] => i = j

\* Mutated form: the reserved label is looked for in the labels as written.
NotReservedAsWritten(f) ==
    \A i \in DOMAIN f.allowed.items : f.allowed.items[i] # Str(Unclassified)

NotReserved(f) == \A i \in DOMAIN f.allowed.items : Outcomes(f)[i] # Str(Unclassified)

OutcomesOk(f) ==
    /\ f.allowed.type = "list" /\ f.allowed.items # <<>>
    /\ \A i \in DOMAIN f.allowed.items : ReadableString(f.allowed.items[i])
    /\ Distinct(f) /\ NotReserved(f)

\* The names Formatter().parse() yields; a nested spec stays inside its field.
Fields(t) == {p.name : p \in t.placeholders}

\* Mutated form: only dead links are looked for.
NoDeadLink(t) == DOMAIN t.links \subseteq Fields(t)

Agree(t) == Fields(t) = DOMAIN t.links

\* The label under which a template stands is compared as it was written.
TemplateOk(f, label) ==
    LET t == f.sms[label] IN
    /\ t.table
    /\ \E i \in DOMAIN f.allowed.items : Outcomes(f)[i] = label
    /\ ReadableString(t.text) /\ t.balanced
    /\ \A name \in DOMAIN t.links : ReadableString(t.links[name])
    /\ Fields(t) \subseteq Identifiers
    /\ Agree(t)

SmsOk(f) == /\ f.smsTable
            /\ \A label \in DOMAIN f.sms : TemplateOk(f, label)

\* A prompt is read without the comment that opens it.
PromptsOk(f) == \A p \in Prompts : f.prompts[p].readable /\ f.prompts[p].body

Loads(f) == /\ f.bareName /\ f.directory
            /\ f.toml = "valid"
            /\ TablesOk(f) /\ OutcomesOk(f) /\ SmsOk(f) /\ PromptsOk(f)

Built(f) ==
    [outcomes |-> {Outcomes(f)[i] : i \in DOMAIN f.allowed.items},
     sms |-> [label \in DOMAIN f.sms |->
                 [placeholders |-> f.sms[label].placeholders,
                  links |-> DOMAIN f.sms[label].links]]]

ASSUME ProfilesAssumption == \A d \in Deployments : Built(d.file) # None

-----------------------------------------------------------------------------
(* The caller's number.                                                    *)

\* Mutated form: `From`, whoever placed the call.
FromAlways(h) == h.from

ResolveCaller(h) == IF h.direction = "outbound" /\ h.to # None THEN h.to ELSE h.from

Normalise(raw) == IF raw \in E164 THEN raw ELSE None

-----------------------------------------------------------------------------
(* analyse: parse the answer, or say why there is no outcome.              *)

NoText == {"emptyTranscript", "timeout", "apiError"}

\* What a failure path keeps of the answer.
Evidence(a) == IF a.kind \in NoText THEN None ELSE a

NoOutcome(a) == [outcome |-> Str(Unclassified), notes |-> FALSE, raw |-> Evidence(a)]

WrongShape(a) ==
    \/ a.kind # "object"
    \/ a.outcome.type # "str"
    \/ a.notes = "notList"

\* Mutated form: the schema is trusted.
AnyLabel(label) == TRUE

\* The label is checked again, whatever the schema promised.
InVocabulary(label) == label \in profile.outcomes \cup {Str(Unclassified)}

Analysed(a) ==
    CASE WrongShape(a) -> NoOutcome(a)
      [] ~WrongShape(a) /\ ~InVocabulary(a.outcome) ->
             [NoOutcome(a) EXCEPT !.notes = a.notes = "list"]
      [] OTHER ->
             IF a.summary
             THEN [outcome |-> a.outcome, notes |-> a.notes = "list", raw |-> a]
             ELSE NoOutcome(a)

-----------------------------------------------------------------------------
(* The SMS of the outcome.                                                 *)

\* str.format looks a field up, converts it, then expands and applies its spec.
KeyMissing(t) ==
    \E p \in t.placeholders :
        \/ p.name \notin t.links
        \/ p.conversion = "known" /\ p.spec = "nested" /\ p.inner \notin t.links

\* {x!z}, or {x:d}: the parser takes any conversion, and no spec is tried.
Unformattable(p) == p.conversion = "unknown" \/ p.spec = "badSpec"

Rendered(t) ==
    {r \in {"sent", "refused", "KeyError", "ValueError"} :
        /\ r = "KeyError" => KeyMissing(t)
        /\ r = "ValueError" =>
              \E p \in t.placeholders :
                  \/ Unformattable(p)
                  \/ p.spec = "nested" /\ p.inner \in t.links
        /\ r = "sent" => "sms" \in Configured(env)
        /\ r \in {"sent", "refused"} =>
              ~KeyMissing(t) /\ \A p \in t.placeholders : ~Unformattable(p)}

\* Skipped without a template, or for a caller who withheld the number.
SmsOutcomes ==
    IF analysis.outcome \in DOMAIN profile.sms /\ caller # None
    THEN Rendered(profile.sms[analysis.outcome]) ELSE {"skipped"}

-----------------------------------------------------------------------------
Init ==
    /\ \E d \in Deployments : env = d.env /\ file = d.file
    /\ profile = None /\ startup = "starting"
    /\ hook = None /\ caller = None
    /\ answer = None /\ analysis = None /\ sms = "none"

\* main(): the environment, then the profile, then the recordings' directory.
Start ==
    /\ startup = "starting"
    /\ \/ /\ FromEnv(env) = "settings" /\ Loads(file)
          /\ profile' = Built(file) /\ startup' = "serving"
       \/ /\ FromEnv(env) # "settings"
          /\ startup' = FromEnv(env) /\ UNCHANGED profile
       \/ /\ FromEnv(env) = "settings"
          /\ startup' = IF Loads(file) THEN "noDirectory" ELSE "refused"
          /\ UNCHANGED profile
    /\ UNCHANGED <<env, file, hook, caller, answer, analysis, sms>>

\* The TwiML hands the caller to the stream, whose start message hands it back.
Voice ==
    /\ startup = "serving" /\ hook = None
    /\ \E h \in Hooks : hook' = h /\ caller' = Normalise(ResolveCaller(h))
    /\ UNCHANGED <<deployment, answer, analysis, sms>>

Analyse ==
    /\ hook # None /\ answer = None
    /\ \E a \in Answers : answer' = a /\ analysis' = Analysed(a)
    /\ UNCHANGED <<deployment, hook, caller, sms>>

SendSms ==
    /\ analysis # None /\ sms = "none"
    /\ sms' \in SmsOutcomes
    /\ UNCHANGED <<deployment, hook, caller, answer, analysis>>

Next == Start \/ Voice \/ Analyse \/ SendSms

Spec == Init /\ [][Next]_vars
=============================================================================
