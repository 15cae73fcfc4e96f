CONSTANTS
    Agent = Agent
    Session = Session
    Key = Key
    None = None
    Requests = {r1, r2, r3}
    Facts <- TwiceFacts
    Reports = {}
    MaxTime = 0
    MaxChanges = 0
SPECIFICATION Spec
INVARIANT NoSignalAloneQuarantines
