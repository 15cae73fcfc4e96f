CONSTANTS
    Agents <- OneAgent
    Sessions <- OneSession
    AgentOf <- OneAgentOf
    ParentOf <- OneParentOf
    OpenAtStart <- OneSession
    None = None
    Cron = Cron
    Requests = {r1, r2}
    Incidents = {i1}
    Leases = {}
    Approvals = {p1}
    Ops = {"review", "approve", "deny", "consume", "signal", "clear"}
    SessionTtls = {3}
    LeaseTtls = {1}
    ApprovalTtl = 3
    GrantTtl = 1
    MaxUses = 1
    CronGrace = 1
    MaxTime = 3
    Horizon = 1
    MaxLag = 0
    MaxCrashes = 1
SPECIFICATION FairSpec
INVARIANTS
    AtMostOneExecution
PROPERTIES
    OpenIncidentsSettle
