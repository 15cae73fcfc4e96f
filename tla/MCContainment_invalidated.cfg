CONSTANTS
    Agents <- OneAgent
    Sessions <- OneSession
    AgentOf <- OneAgentOf
    ParentOf <- OneParentOf
    OpenAtStart <- OneSession
    None = None
    Cron = Cron
    Requests = {r1, r2}
    Incidents = {i1}
    Leases = {}
    Approvals = {p1}
    Ops = {"review", "approve", "consume", "quarantine"}
    SessionTtls = {2}
    LeaseTtls = {1}
    ApprovalTtl = 2
    GrantTtl = 2
    MaxUses = 1
    CronGrace = 2
    MaxTime = 2
    Horizon = 2
    MaxLag = 0
    MaxCrashes = 0
SPECIFICATION Spec
PROPERTIES
    InvalidatedGrantsStayUnused
