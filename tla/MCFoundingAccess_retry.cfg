CONSTANTS
    Tabs = {v1}
    Emails = {e1}
    Requests = {r1, r2}
    MinAge = 1
    MaxAge = 2
    MaxTime = 4
    None = None
SPECIFICATION Spec
INVARIANT RetriesAreHeard
CHECK_DEADLOCK FALSE
