CONSTANTS
    None = None
    Founders = {"a", "b"}
    FounderRole <- OwnerAndAdmin
    Invites = {"i1"}
    Challenges = {c1, c2}
    Requests = {r1, r2, r3}
    Editors = {e1, e2}
    Calls = {k1, k2}
    Policies = {"p1"}
    FirstRule <- StoredRule
    Drafts <- TypedRows
    AgentSets = {{"x"}}
    MaxPolicies = 1
    MaxSaves = 2
    MaxFaults = 1
    Lower <- LowerCases
    Numerals <- Spelled
    StringLimit = 4
    ListLimit = 2
    ConditionLimit = 3
    Badges = {"b1", "b2", "b3"}
    Agents = {"x"}
    Keys = {"k"}
    Lookups = {"r1", "r2"}
    Approvals = {"p1"}
    Ids = {1, 2, 3}
    Times = {1, 2}
    Kinds = {"decision"}
    PAGE = 1
    SlackRuns = {"o1"}
    First = "first"
    Visitors = {"v1"}
    Emails = {"e1"}
    Submissions = {"r1", "r2"}
    MinAge = 1
    MaxAge = 1
    MaxTime = 2
    GrantedRoles = {"viewer"}
    NoKey = None
    Incidents = {"i1", "i2"}
    MaxCalls = 3
SPECIFICATION SpecOfAll
SYMMETRY Interchangeable
INVARIANTS
    OneSignInPerChallenge
    InviteEndsOnce
    DisablingEndsSessions
    HistoryIsComplete
    NothingIsReverted
    ShowsTheRoute
    ClearedStaysCleared
    SpinnerIsAnswered
    PagesFitTogether
    StoredSecretIsReadable
    TrailTellsTheDestination
    ThanksForOneLead
PROPERTIES
    RevokedTokensStayRevoked
    ResolvedStaysResolved
