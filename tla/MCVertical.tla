------------------------------ MODULE MCVertical ------------------------------
(***************************************************************************)
(* Instances of Vertical for TLC: a sound profile with one fault in its    *)
(* structure, with every list of up to two labels, and with every template *)
(* of up to two placeholders.                                              *)
(***************************************************************************)
EXTENDS VerticalProps

CONSTANTS a, b, x, y, human, ours, withheld

Padded(c) == [Str(c) EXCEPT !.padded = TRUE]
Blank == Str(None)
Missing == [Str(None) EXCEPT !.type = "missing"]
Number == [Str(None) EXCEPT !.type = "int"]

Placeholder(name, spec, inner) ==
    [name |-> name, conversion |-> "known", spec |-> spec, inner |-> inner]
Template(fields, names) ==
    [table |-> TRUE, text |-> Str("text"), balanced |-> TRUE,
     placeholders |-> fields, links |-> [n \in names |-> Padded("url")]]
Sound == Template({Placeholder(x, "plain", None)}, {x})

Good == [bareName |-> TRUE, directory |-> TRUE, toml |-> "valid",
         tables |-> [t \in Tables |-> "table"], unknownKeys |-> {},
         scalars |-> [k \in {"twilio.phone_number", "operator.email"} |-> Padded("value")],
         allowed |-> [type |-> "list", items |-> <<Padded(a), Str(b)>>],
         smsTable |-> TRUE,
         sms |-> [l \in {Str(a)} |-> Sound],
         prompts |-> [p \in Prompts |-> [readable |-> TRUE, body |-> TRUE]]]

OneFault ==
    {Good, [Good EXCEPT !.bareName = FALSE], [Good EXCEPT !.directory = FALSE],
     [Good EXCEPT !.tables = [t \in Tables \cup {"bogus"} |-> "table"]],
     [Good EXCEPT !.tables = [t \in Tables \ {"gemini"} |-> "table"]],
     [Good EXCEPT !.tables["twilio"] = "scalar"],
     [Good EXCEPT !.unknownKeys = {"twilio"}],
     [Good EXCEPT !.allowed.type = "missing"], [Good EXCEPT !.smsTable = FALSE],
     [Good EXCEPT !.sms[Str(a)].table = FALSE],
     [Good EXCEPT !.sms[Str(a)].text = Blank],
     [Good EXCEPT !.sms[Str(a)].balanced = FALSE],
     [Good EXCEPT !.sms[Str(a)].links[x] = Blank],
     [Good EXCEPT !.sms = <<>>]}
    \cup {[Good EXCEPT !.toml = t] : t \in {"missing", "notUtf8", "notToml"}}
    \cup {[Good EXCEPT !.scalars[k] = v] :
             k \in DOMAIN Good.scalars, v \in {Blank, Missing, Number}}
    \cup {[Good EXCEPT !.prompts[p] = [readable |-> r, body |-> ~r]] :
             p \in Prompts, r \in BOOLEAN}

Items == {Str(a), Padded(a), Str(b), Str(Unclassified), Padded(Unclassified),
          Blank, Number}
Lists == {<<>>} \cup {<<i>> : i \in Items} \cup {<<i, j>> : i, j \in Items}
Labels == {[Good EXCEPT !.allowed.items = l, !.sms = s] :
              l \in Lists,
              s \in {<<>>} \cup {[k \in {label} |-> Sound] :
                       label \in {Str(a), Padded(a), Str(Unclassified)}}}

Placeholders ==
    {Placeholder(n, "plain", None) : n \in {x, y, "0"}}
    \cup {Placeholder(n, "badSpec", None) : n \in {x, y}}
    \cup {Placeholder(n, "nested", i) : n \in {x, y}, i \in {x, y}}
    \cup {[Placeholder(x, s, y) EXCEPT !.conversion = "unknown"] : s \in {"plain", "nested"}}
Templates ==
    {[Good EXCEPT !.sms[Str(a)] = Template({p, q}, names)] :
        p \in Placeholders, q \in Placeholders, names \in SUBSET {x, y}}

AllFiles == OneFault \cup Labels \cup Templates

Full == [v \in Variables |-> IF v \in Ports THEN "number" ELSE "text"]
AllEnvs == {[Full EXCEPT ![v] = value] :
               v \in Variables, value \in {"unset", "empty", "number", "text"}}
AllDeployments == [env : {Full}, file : AllFiles] \cup [env : AllEnvs, file : {Good}]

Hook(from, to, direction) ==
    [from |-> from, to |-> to, direction |-> direction, human |-> human]
AllHooks == {Hook(human, ours, "inbound"), Hook(withheld, ours, "inbound"),
             Hook(ours, human, "outbound"), Hook(human, None, "unknown")}

Answer(kind) == [kind |-> kind, outcome |-> Missing, notes |-> "missing",
                 summary |-> FALSE]
AllAnswers ==
    {Answer(k) : k \in NoText \cup {"notJson", "notObject"}}
    \cup {[kind |-> "object", outcome |-> o, notes |-> n, summary |-> s] :
             o \in {Str(a), Padded(a), Str(b), Str(Unclassified), Missing, Number},
             n \in {"missing", "list", "notList"}, s \in BOOLEAN}
=============================================================================
