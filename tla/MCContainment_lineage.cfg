CONSTANTS
    Agents <- TwoAgents
    Sessions <- TwoSessions
    AgentOf <- TwoAgentOf
    ParentOf <- TwoParentOf
    OpenAtStart = {"root"}
    None = None
    Cron = Cron
    Requests = {r1, r2}
    Incidents = {i1}
    Leases = {l1}
    Approvals = {p1}
    Ops = {"lease", "use", "review", "approve", "signal", "open", "close"}
    SessionTtls = {2}
    LeaseTtls = {1, 2}
    ApprovalTtl = 2
    GrantTtl = 2
    MaxUses = 1
    CronGrace = 2
    MaxTime = 2
    Horizon = 2
    MaxLag = 0
    MaxCrashes = 1
SPECIFICATION Spec
CONSTRAINT OneConcern
SYMMETRY Symmetric
INVARIANTS
    TypeOK
    UsesLostOnlyToCrashes
PROPERTIES
    NoClaimInContainedScope
    NoApproveInContainedScope
