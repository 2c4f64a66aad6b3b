SPECIFICATION FairSpec
CONSTANTS
    Callers = {c1, c2}
    Keys = {coref, answer}
    StructuredKeys = {coref}
    good = good
    crlf = crlf
    lf = lf
    bad = bad
    Responses = {good, crlf, lf, bad}
    Valid <- MCValid
    Blocks <- MCBlocks
    Newlines <- MCNewlines
    MaxRetries = 2
    Absent = Absent
    Hole = Hole
    MaxCalls = 4
    MaxFaults = 1
INVARIANT OnlyValidIsReturned
PROPERTY PaidOnce
PROPERTY AnswersSettle
PROPERTY CallsEnd
\* the calls are bounded, so the system stops
CHECK_DEADLOCK FALSE
