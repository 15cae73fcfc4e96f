CONSTANTS
    Agent = Agent
    Session = Session
    Key = Key
    None = None
    Requests = {r1, r2, r3}
    Facts <- AllFacts
    Reports <- AllReports
    MaxTime = 1
    MaxChanges = 2
SPECIFICATION Spec
SYMMETRY Interchangeable
INVARIANTS
    EveryChangeIsRecorded
    BlocksWhatItQuarantines
PROPERTIES
    QuarantineIsSticky
    CatchesUp
