---------------------------- MODULE VerticalProofs ----------------------------
(***************************************************************************)
(* Proofs about Vertical: for any directory anybody may write and any      *)
(* answer of the model, whatever their number and shape.                   *)
(***************************************************************************)
EXTENDS VerticalProps, TLAPS

\* A deployment serves the file it loaded, and a later value is the one its
\* stage computed: nothing is decided on a profile that was refused.
Staged ==
    /\ startup = "serving" => Loads(file) /\ profile = Built(file)
    /\ hook # None => /\ startup = "serving" /\ hook \in Hooks
                     /\ caller = Normalise(ResolveCaller(hook))
    /\ hook = None => answer = None
    /\ answer = None => analysis = None
    /\ analysis # None => analysis = Analysed(answer)
    /\ sms # "none" => analysis # None /\ sms \in SmsOutcomes

\* What an outcome of the SMS stage and an analysis depend on.
LEMMA SameDeployment ==
    ASSUME UNCHANGED deployment
    PROVE  /\ \A q : Analysed(q)' = Analysed(q)
           /\ UNCHANGED <<caller, analysis>> => SmsOutcomes' = SmsOutcomes
<1>1. UNCHANGED <<env, profile>>
  BY DEF deployment
<1>2. \A q : Analysed(q)' = Analysed(q)
  BY <1>1 DEF Analysed, InVocabulary
<1>3. \A t : Rendered(t)' = Rendered(t)
  BY <1>1 DEF Rendered
<1> QED BY <1>1, <1>2, <1>3 DEF SmsOutcomes

\* Every step keeps Staged.
LEMMA StagedStep == Staged /\ [Next]_vars => Staged'
<1> SUFFICES ASSUME Staged, [Next]_vars PROVE Staged'
  OBVIOUS
<1>1. CASE Start
  <2>1. /\ startup = "starting" /\ UNCHANGED <<env, file, hook, caller, answer, analysis, sms>>
    BY <1>1 DEF Start
  <2>2. /\ hook = None /\ answer = None /\ analysis = None /\ sms = "none"
    BY <2>1 DEF Staged
  <2>3. startup' = "serving" => Loads(file) /\ profile' = Built(file)
    BY <1>1 DEF Start, FromEnv
  <2>4. Loads(file)' = Loads(file) /\ Built(file)' = Built(file)
    BY <2>1
  <2> QED BY <2>1, <2>2, <2>3, <2>4 DEF Staged
<1>2. CASE Voice
  <2>1. /\ startup = "serving" /\ hook = None
        /\ UNCHANGED <<deployment, answer, analysis, sms>>
    BY <1>2 DEF Voice
  <2>2. answer = None /\ analysis = None /\ sms = "none"
    BY <2>1 DEF Staged
  <2>3. PICK h \in Hooks : hook' = h /\ caller' = Normalise(ResolveCaller(h))
    BY <1>2 DEF Voice
  <2> QED BY <2>1, <2>2, <2>3 DEF Staged, deployment
<1>3. CASE Analyse
  <2>1. /\ UNCHANGED <<deployment, hook, caller, sms>>
        /\ hook # None /\ answer = None
    BY <1>3 DEF Analyse
  <2>2. PICK q \in Answers : answer' = q /\ analysis' = Analysed(q)
    BY <1>3 DEF Analyse
  <2>3. analysis' = Analysed(answer)'
    BY <2>1, <2>2, SameDeployment
    DEF Analysed, InVocabulary, NoOutcome, WrongShape, Evidence, deployment
  <2>4. sms' = "none" /\ answer' # None
    BY <2>1, <2>2, NoneAssumption DEF Staged
  <2> QED BY <2>1, <2>3, <2>4 DEF Staged, deployment
<1>4. CASE SendSms
  <2>1. /\ UNCHANGED <<deployment, hook, caller, answer, analysis>>
        /\ analysis # None /\ sms' \in SmsOutcomes
    BY <1>4 DEF SendSms
  <2>2. SmsOutcomes' = SmsOutcomes /\ Analysed(answer)' = Analysed(answer)
    BY <2>1, SameDeployment DEF Analysed, InVocabulary, deployment
  <2> QED BY <2>1, <2>2 DEF Staged, deployment
<1>5. CASE UNCHANGED vars
  <2>1. SmsOutcomes' = SmsOutcomes /\ Analysed(answer)' = Analysed(answer)
    BY <1>5, SameDeployment DEF vars, Analysed, InVocabulary, deployment
  <2> QED BY <1>5, <2>1 DEF vars, Staged, deployment
<1> QED BY <1>1, <1>2, <1>3, <1>4, <1>5 DEF Next

\* What a run of the deployment has always decided by.
LEMMA StagedAlways == Spec => []Staged
<1>1. Init => Staged
  BY DEF Init, Staged
<1> QED BY <1>1, StagedStep, PTL DEF Spec

\* A template that loaded names its links and nothing else, and stands under
\* one of the author's labels.
LEMMA LoadedTemplate ==
    ASSUME Staged, startup = "serving", NEW label \in DOMAIN profile.sms
    PROVE  /\ label # Str(Unclassified)
           /\ \A p \in profile.sms[label].placeholders :
                  p.name \in profile.sms[label].links
<1>1. Loads(file) /\ profile = Built(file)
  BY DEF Staged
<1>2. /\ DOMAIN profile.sms = DOMAIN file.sms
      /\ profile.sms[label].placeholders = file.sms[label].placeholders
      /\ profile.sms[label].links = DOMAIN file.sms[label].links
  BY <1>1 DEF Built
<1>3. TemplateOk(file, label) /\ NotReserved(file)
  BY <1>1, <1>2 DEF Loads, SmsOk, OutcomesOk
<1>4. label # Str(Unclassified)
  BY <1>3 DEF TemplateOk, NotReserved
<1>5. Fields(file.sms[label]) = DOMAIN file.sms[label].links
  BY <1>3 DEF TemplateOk, Agree
<1> QED BY <1>2, <1>4, <1>5 DEF Fields

(***************************************************************************)
(* No SMS without a verdict (load.py:290-294, analyse.py:106-130,          *)
(* dispatch.py:171-175): a failed or malformed answer ends in the reserved *)
(* label, and no template stands under it in a profile that loaded.        *)
(***************************************************************************)
THEOREM SmsOnlyOnVerdictHolds == Spec => []SmsOnlyOnVerdict
<1>1. Staged => SmsOnlyOnVerdict
  <2> SUFFICES ASSUME Staged, sms = "sent" PROVE SmsOnlyOnVerdict
    BY DEF SmsOnlyOnVerdict
  <2>1. analysis # None /\ "sent" \in SmsOutcomes
    BY DEF Staged
  <2>2. startup = "serving" /\ analysis = Analysed(answer)
    BY <2>1 DEF Staged
  <2>3. analysis.outcome \in DOMAIN profile.sms
    BY <2>1 DEF SmsOutcomes
  <2>4. analysis.outcome # Str(Unclassified)
    BY <2>2, <2>3, LoadedTemplate
  <2>5. analysis # NoOutcome(answer)
    BY <2>4 DEF NoOutcome
  <2>6. ~WrongShape(answer)
    BY <2>2, <2>5 DEF Analysed
  <2>7. InVocabulary(answer.outcome)
    <3> SUFFICES ASSUME ~InVocabulary(answer.outcome) PROVE FALSE
      OBVIOUS
    <3>1. analysis = [NoOutcome(answer) EXCEPT !.notes = answer.notes = "list"]
      BY <2>2, <2>6 DEF Analysed
    <3>2. analysis.outcome = Str(Unclassified)
      BY <3>1 DEF NoOutcome
    <3> QED BY <2>4, <3>2
  <2>8. analysis = [outcome |-> answer.outcome, notes |-> answer.notes = "list",
                    raw |-> answer]
    BY <2>2, <2>5, <2>6, <2>7 DEF Analysed
  <2> QED BY <2>4, <2>6, <2>8 DEF SmsOnlyOnVerdict, WrongShape
<1> QED BY <1>1, StagedAlways, PTL

(***************************************************************************)
(* Every name by which a loaded template refers to a link has one          *)
(* (load.py:370-385): what can still fail it at a call is a name nested in *)
(* a format spec, which the loader does not look into, a spec, or a        *)
(* conversion.                                                             *)
(***************************************************************************)
THEOREM NamesResolveHolds == Spec => []NamesResolve
<1>1. Staged => NamesResolve
  <2> DEFINE used == profile.sms[analysis.outcome]
  <2> SUFFICES ASSUME Staged, sms \in {"KeyError", "ValueError"}
               PROVE  /\ sms = "KeyError" =>
                             \E p \in used.placeholders :
                                 p.spec = "nested" /\ p.inner \notin used.links
                      /\ sms = "ValueError" =>
                             \E p \in used.placeholders :
                                 p.spec # "plain" \/ p.conversion = "unknown"
    BY DEF NamesResolve
  <2>1. analysis # None /\ sms \in SmsOutcomes
    BY DEF Staged
  <2>2. startup = "serving"
    BY <2>1 DEF Staged
  <2>3. /\ analysis.outcome \in DOMAIN profile.sms
        /\ sms \in Rendered(profile.sms[analysis.outcome])
    BY <2>1 DEF SmsOutcomes
  <2>4. CASE sms = "ValueError"
    BY <2>3, <2>4 DEF Rendered, Unformattable
  <2>5. CASE sms = "KeyError"
    <3>1. KeyMissing(profile.sms[analysis.outcome])
      BY <2>3, <2>5 DEF Rendered
    <3>2. PICK p \in profile.sms[analysis.outcome].placeholders :
              \/ p.name \notin profile.sms[analysis.outcome].links
              \/ p.spec = "nested" /\ p.inner \notin profile.sms[analysis.outcome].links
      BY <3>1 DEF KeyMissing
    <3>3. p.name \in profile.sms[analysis.outcome].links
      BY <2>2, <2>3, LoadedTemplate
    <3> QED BY <2>5, <3>2, <3>3
  <2> QED BY <2>4, <2>5
<1> QED BY <1>1, StagedAlways, PTL

(***************************************************************************)
(* The SMS goes to the human on the line, from a deployment with the       *)
(* credentials (server.py:99-109, 263-274, wiring.py:39-48): a call we     *)
(* place resolves to the number called, a call we take to the caller's,    *)
(* and a text that is no number to nobody.                                 *)
(***************************************************************************)
THEOREM SmsToTheCallerHolds == Spec => []SmsToTheCaller
<1>1. Staged => SmsToTheCaller
  <2> SUFFICES ASSUME Staged, sms = "sent"
               PROVE  caller = hook.human /\ caller \in E164 /\ HasTwilio(env)
    BY DEF SmsToTheCaller
  <2>1. analysis # None /\ "sent" \in SmsOutcomes
    BY DEF Staged
  <2>2. /\ caller # None
        /\ "sent" \in Rendered(profile.sms[analysis.outcome])
    BY <2>1 DEF SmsOutcomes
  <2>3. hook \in Hooks /\ caller = Normalise(ResolveCaller(hook))
    BY <2>1 DEF Staged
  <2>4. ResolveCaller(hook) \in E164 /\ caller = ResolveCaller(hook)
    BY <2>2, <2>3 DEF Normalise
  <2>5. caller = hook.human
    BY <2>3, <2>4, HooksAssumption DEF ResolveCaller
  <2>6. "sms" \in Configured(env)
    BY <2>2 DEF Rendered
  <2>7. HasTwilio(env)
    BY <2>6 DEF Configured, SmsSender, EmailSender
  <2> QED BY <2>4, <2>5, <2>7
<1> QED BY <1>1, StagedAlways, PTL

(***************************************************************************)
(* A verdict counts (load.py:268-280, analyse.py:114, 125-130): the        *)
(* vocabulary an answer is held against is the author's list, blanks or    *)
(* not, so a well-formed answer out of that list is the outcome.           *)
(***************************************************************************)
THEOREM VerdictKeptHolds == Spec => []VerdictKept
<1>1. Staged => VerdictKept
  <2> SUFFICES ASSUME Staged, analysis # None, answer.kind = "object",
                      answer.summary, answer.notes # "notList",
                      NEW i \in DOMAIN file.allowed.items,
                      answer.outcome = Str(file.allowed.items[i].core)
               PROVE  analysis.outcome = answer.outcome
    BY DEF VerdictKept
  <2>1. profile = Built(file) /\ analysis = Analysed(answer)
    BY DEF Staged
  <2>2. answer.outcome = Outcomes(file)[i]
    BY DEF Outcomes, Strip
  <2>3. InVocabulary(answer.outcome)
    BY <2>1, <2>2 DEF InVocabulary, Built
  <2>4. answer.outcome.type = "str"
    BY DEF Str
  <2>5. ~WrongShape(answer)
    BY <2>4 DEF WrongShape
  <2>6. analysis = [outcome |-> answer.outcome, notes |-> answer.notes = "list",
                    raw |-> answer]
    BY <2>1, <2>3, <2>5 DEF Analysed
  <2> QED BY <2>6
<1> QED BY <1>1, StagedAlways, PTL

-----------------------------------------------------------------------------
(* Type correctness.                                                       *)

\* Whatever the model answers, the outcome is one of the profile's labels or the
\* reserved one, and what is kept of the answer is the answer or nothing.
LEMMA AnalysedTyped ==
    ASSUME NEW q \in Answers
    PROVE  /\ Analysed(q).outcome \in profile.outcomes \cup {Str(Unclassified)}
           /\ Analysed(q).raw \in Answers \cup {None}
<1>1. /\ NoOutcome(q).outcome = Str(Unclassified)
      /\ NoOutcome(q).raw \in Answers \cup {None}
  BY DEF NoOutcome, Evidence
<1> DEFINE known == InVocabulary(q.outcome)
<1>2. CASE WrongShape(q)
  <2>1. Analysed(q) = NoOutcome(q)
    BY <1>2 DEF Analysed
  <2> QED BY <1>1, <2>1
<1>3. CASE ~ WrongShape(q) /\ ~ known
  <2>1. Analysed(q) = [NoOutcome(q) EXCEPT !.notes = q.notes = "list"]
    BY <1>3 DEF Analysed
  <2>2. Analysed(q).outcome = NoOutcome(q).outcome /\ Analysed(q).raw = NoOutcome(q).raw
    BY <2>1 DEF NoOutcome
  <2> QED BY <1>1, <2>2
<1>4. CASE ~ WrongShape(q) /\ known
  <2>1. \/ Analysed(q) = NoOutcome(q)
        \/ Analysed(q) = [outcome |-> q.outcome, notes |-> q.notes = "list", raw |-> q]
    BY <1>4 DEF Analysed
  <2> QED BY <1>1, <1>4, <2>1 DEF InVocabulary
<1> QED BY <1>2, <1>3, <1>4

\* Every step keeps the types.
LEMMA StepTyped == TypeOK /\ Staged /\ [Next]_vars => TypeOK'
<1> SUFFICES ASSUME TypeOK, Staged, [Next]_vars PROVE TypeOK'
  OBVIOUS
<1>1. CASE Start
  <2>1. /\ startup = "starting"
        /\ UNCHANGED <<env, file, hook, caller, answer, analysis, sms>>
    BY <1>1 DEF Start
  <2>2. hook = None /\ answer = None /\ analysis = None /\ profile = None
    BY <2>1 DEF Staged, TypeOK
  <2>3. /\ startup' \in {"serving", "exit2", "valueError", "refused", "noDirectory"}
        /\ startup' = "serving" => profile' = Built(file)
        /\ startup' # "serving" => profile' = profile
    BY <1>1 DEF Start, FromEnv
  <2>4. Built(file) # None
    BY ProfilesAssumption DEF TypeOK
  <2> QED BY <2>1, <2>2, <2>3, <2>4 DEF TypeOK
<1>2. CASE Voice
  <2>1. hook' \in Hooks /\ caller' \in E164 \cup {None}
    BY <1>2 DEF Voice, Normalise
  <2>2. UNCHANGED <<env, file, profile, startup, answer, analysis, sms>>
    BY <1>2 DEF Voice, deployment
  <2> QED BY <2>1, <2>2 DEF TypeOK
<1>3. CASE Analyse
  <2>1. UNCHANGED <<env, file, profile, startup, hook, caller, sms>>
    BY <1>3 DEF Analyse, deployment
  <2>2. PICK q \in Answers : answer' = q /\ analysis' = Analysed(q)
    BY <1>3 DEF Analyse
  <2>3. /\ analysis'.outcome \in profile.outcomes \cup {Str(Unclassified)}
        /\ analysis'.raw \in Answers \cup {None}
    BY <2>2, AnalysedTyped
  <2> QED BY <2>1, <2>2, <2>3 DEF TypeOK
<1>4. CASE SendSms
  <2>1. UNCHANGED <<env, file, profile, startup, hook, caller, answer, analysis>>
    BY <1>4 DEF SendSms, deployment
  <2>2. sms' \in {"skipped", "sent", "refused", "KeyError", "ValueError"}
    BY <1>4 DEF SendSms, SmsOutcomes, Rendered
  <2> QED BY <2>1, <2>2 DEF TypeOK
<1>5. CASE UNCHANGED vars
  BY <1>5 DEF vars, deployment, TypeOK
<1> QED BY <1>1, <1>2, <1>3, <1>4, <1>5 DEF Next

(***************************************************************************)
(* Every variable has its type: only a serving deployment has a profile,   *)
(* and an outcome is one of that profile's labels or the reserved one,     *)
(* whatever the model answered (__main__.py:32-50, analyse.py:106-130).    *)
(***************************************************************************)
THEOREM TypeCorrect == Spec => []TypeOK
<1>1. Init => TypeOK
  BY EnvironmentAssumption DEF Init, TypeOK
<1> QED BY <1>1, StepTyped, StagedAlways, PTL DEF Spec
=============================================================================
