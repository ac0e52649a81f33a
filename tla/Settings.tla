------------------------------- MODULE Settings -------------------------------
(***************************************************************************)
(* What a deployment's environment makes of it: src/decana/settings.py     *)
(* reads it once, and src/decana/dispatch/wiring.py builds the two senders *)
(* from it.  A variable is unset, empty, a number or another text.         *)
(***************************************************************************)

Required == {"DECANA_PROFILE", "GEMINI_API_KEY", "PUBLIC_WSS_URL"}
TwilioGroup == {"TWILIO_ACCOUNT_SID", "TWILIO_AUTH_TOKEN"}
SmtpTexts == {"SMTP_HOST", "SMTP_USER", "SMTP_PASSWORD", "SMTP_FROM"}
Ports == {"PORT", "SMTP_PORT"}

Variables == Required \cup TwilioGroup \cup SmtpTexts \cup Ports
Environment == [Variables -> {"unset", "empty", "number", "text"}]

\* Python's truth of a string that may be None.
Given(value) == value \notin {"unset", "empty"}

\* _require exits with 2, naming the variable.
Require(env, name) == Given(env[name])

\* int() of what is given; what is not has a default, or is None.
ReadsAsPort(env, name) == env[name] # "text"

\* from_env: the settings, or how the process ends without them.
FromEnv(env) ==
    IF \E name \in Required : ~ Require(env, name) THEN "exit2"
    ELSE IF \E name \in Ports : ~ ReadsAsPort(env, name) THEN "valueError"
    ELSE "settings"

HasTwilio(env) == \A name \in TwilioGroup : Given(env[name])

\* An empty text counts here; an empty port is None.
HasSmtp(env) == /\ \A name \in SmtpTexts : env[name] # "unset"
                /\ Given(env["SMTP_PORT"])

\* Mutated form: one gate for all seven credentials, and it is left open.
SmsSenderUngated(env) == {"sms"}

\* Without its credentials a sender is the stand-in, which always raises.
SmsSender(env) == IF HasTwilio(env) THEN {"sms"} ELSE {}
EmailSender(env) == IF HasSmtp(env) THEN {"email"} ELSE {}

\* The senders build_on_call_end gives post_call that are not stand-ins.
Configured(env) == SmsSender(env) \cup EmailSender(env)
=============================================================================
