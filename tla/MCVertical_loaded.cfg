\* Every single fault, every pair of labels, every pair of placeholders, every answer, every
\* variable of the environment wrong, calls taken and placed.
SPECIFICATION Spec
CONSTANTS
    a = a
    b = b
    x = x
    y = y
    None = None
    Unclassified = unclassified
    Identifiers = {x, y}
    human = human
    ours = ours
    withheld = withheld
    E164 = {human, ours}
    Deployments <- AllDeployments
    Hooks <- AllHooks
    Answers <- AllAnswers
INVARIANTS TypeOK SmsOnlyOnVerdict SmsToTheCaller VerdictKept NamesResolve
CHECK_DEADLOCK FALSE
