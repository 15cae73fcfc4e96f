CONSTANTS
    Agents <- MCAgents
    Sessions <- MCSessions
    AgentOf <- MCAgentOf
    ParentOf <- MCParentOf
    None = None
    Lower <- MCLower
    StringLimit = 4
    ListLimit = 2
    ConditionLimit = 2
    Admits <- MCAdmits
    Environments <- MCEnvironments
    LeaseTtl <- MCLeaseTtl
    LeaseMaxUses <- MCLeaseMaxUses
    ContextDepth = 3
    ContextKeys = 2
    Requests = {r1, r2}
    Ids = {"id1"}
    Bodies <- MCBodies
    BodyOf <- MCBodyOf
    PolicyUniverse <- MCPolicies
    EnvironmentOf <- MCEnvironmentOf
    DefaultModeOf <- MCDefaultModeOf
    DefaultDecision = "allow"
    RequireRegistered = FALSE
    TestKey = TRUE
    MaxPolicies = 2
    MaxFaults = 1
    MaxChanges = 1
SPECIFICATION Spec
SYMMETRY Interchangeable
INVARIANTS
    SimulationForetells
    NoAllowInContainedScope
    PolicyIsUpheld
    EnforcedDecisionsHaveEvidence
    AuthorityMatchesDecision
PROPERTIES
    ImplementsDecisionLog
