SPECIFICATION SerialSpec
CONSTANTS
    Callers = {c1, c2}
    Keys = {coref, answer}
    StructuredKeys = {coref}
    good = good
    crlf = crlf
    lf = lf
    bad = bad
    Responses = {good, crlf, lf, bad}
    Valid <- MCValid
    Blocks <- MCBlocks
    Newlines <- MCNewlines
    MaxRetries = 2
    Absent = Absent
    Hole = Hole
    MaxCalls = 5
    MaxFaults = 1
INVARIANT FilesAreWhole
INVARIANT Repeatable
\* the calls are bounded, so the system stops
CHECK_DEADLOCK FALSE
