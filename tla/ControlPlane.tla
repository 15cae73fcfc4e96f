---------------------------- MODULE ControlPlane ----------------------------
(***************************************************************************)
(* The components around the gateway, side by side. They share no tables,    *)
(* so a behaviour follows one of them, its focus, while the others do not    *)
(* move: members and the incident page rest in an initial state, the         *)
(* variables of the others have no value.                                   *)
(***************************************************************************)
EXTENDS ConsoleAccess, KeyedResource, Sequences

CONSTANTS Editors, Calls, Policies, FirstRule, Drafts, AgentSets,
          MaxPolicies, MaxSaves, MaxFaults,
          Lower, Numerals, StringLimit, ListLimit, ConditionLimit,    \* PolicyAdmin
          Badges, Agents, Keys, Lookups,                              \* OrganizationControls
          Approvals,                                                  \* ApprovalQueue
          Ids, Times, Kinds, PAGE,                                    \* AuditTrail
          SlackRuns, First,                                           \* SlackDestination
          Visitors, Emails, Submissions, MinAge, MaxAge, MaxTime      \* FoundingAccess

VARIABLES focus,
          policies, versions, editor, call, saves, faults,        \* PolicyAdmin
          org, agents, keys, enabled, badges, cache, request,     \* OrganizationControls
          status, tab, fetched, data, failed, loading, seq, fetches, acting, known,    \* ApprovalQueue
          log, filter, rows, cursor, loadingMore, first, pages, sent, base, list,    \* AuditTrail
          channel, trail, key, slack,    \* SlackDestination
          form, leads, announced, now, submitted    \* FoundingAccess

adminVars == <<policies, versions, editor, call, saves, faults>>
controlsVars == <<org, agents, keys, enabled, badges, cache, request>>
queueVars == <<status, tab, fetched, data, failed, loading, seq, fetches, acting, known>>
trailVars == <<log, filter, rows, cursor, loadingMore, first, pages, sent, base, list>>
slackVars == <<channel, trail, key, slack>>
foundingVars == <<form, leads, announced, now, submitted>>

Admin == INSTANCE PolicyAdmin
Controls == INSTANCE OrganizationControls WITH Requests <- Lookups, policies <- enabled, req <- request
Queue == INSTANCE ApprovalQueue WITH calls <- fetches
Trail == INSTANCE AuditTrail WITH calls <- pages
Slack == INSTANCE SlackDestination WITH Members <- Requests, Operators <- SlackRuns, req <- slack
Founding == INSTANCE FoundingAccess WITH Tabs <- Visitors, Requests <- Submissions, req <- submitted

\* None stands for no editor, no call, no request, no id, no list; ids and times are compared.
ASSUME ControlPlaneAssumption ==
    /\ None \notin Calls \cup Editors \cup Policies /\ "new" \notin Policies
    /\ None \notin Requests \cup SlackRuns \cup {First}

\* The rule that exists is one that the server stored; editors type rows; a numeral is not white
\* space, and what is in lower case stays so.
ASSUME RulesAssumption ==
    /\ " " \notin DOMAIN Numerals
    /\ \A piece \in DOMAIN Lower : Lower[piece] \notin DOMAIN Lower
    /\ \A draft \in Drafts : \A i \in DOMAIN draft.rows : Admin!IsRow(draft.rows[i])
    /\ DOMAIN FirstRule = {"match", "conditions"}
    /\ Admin!ValidGroup(FirstRule) /\ Admin!Canonical(FirstRule) = FirstRule
    /\ \A i \in DOMAIN FirstRule.conditions : Admin!IsReadable(FirstRule.conditions[i])

LogRows == [at : Times, id : Ids, kind : Kinds \cup {"other"}]
ASSUME TrailAssumption ==
    /\ Ids \subseteq Nat /\ Times \subseteq Nat /\ PAGE \in Nat \ {0}
    /\ None \notin LogRows /\ None \notin Seq(LogRows)

----------------------------------------------------------------------------

AccessRests == invites = [i \in Invites |-> NoInvite]
PageRests == route = CHOOSE i \in Incidents : TRUE
AdminIdles == policies = None /\ versions = None /\ editor = None /\ call = None /\ saves = None /\ faults = None
ControlsIdle == org = None /\ agents = None /\ keys = None /\ enabled = None /\ badges = None
                /\ cache = None /\ request = None
QueueIdles ==
    /\ status = None /\ tab = None /\ fetched = None /\ data = None /\ failed = None
    /\ loading = None /\ seq = None /\ fetches = None /\ acting = None /\ known = None
TrailIdles ==
    /\ log = None /\ filter = None /\ rows = None /\ cursor = None /\ loadingMore = None
    /\ first = None /\ pages = None /\ sent = None /\ base = None /\ list = None
SlackIdles == channel = None /\ trail = None /\ key = None /\ slack = None
FoundingIdles == form = None /\ leads = None /\ announced = None /\ now = None /\ submitted = None

InitOfAll ==
    /\ focus \in {"access", "admin", "controls", "incident", "queue", "trail", "slack", "founding"}
    /\ Init /\ (focus # "access" => AccessRests)
    /\ PageInit /\ (focus # "incident" => PageRests)
    /\ IF focus = "admin" THEN Admin!Init ELSE AdminIdles
    /\ IF focus = "controls" THEN Controls!Init ELSE ControlsIdle
    /\ IF focus = "queue" THEN Queue!Init ELSE QueueIdles
    /\ IF focus = "trail" THEN Trail!Init ELSE TrailIdles
    /\ IF focus = "slack" THEN Slack!Init ELSE SlackIdles
    /\ IF focus = "founding" THEN Founding!Init ELSE FoundingIdles

FollowsAccess ==
    focus = "access" /\ Next
    /\ UNCHANGED <<focus, adminVars, controlsVars, pageVars, queueVars, trailVars, slackVars, foundingVars>>
FollowsAdmin ==
    focus = "admin" /\ Admin!Next
    /\ UNCHANGED <<focus, vars, controlsVars, pageVars, queueVars, trailVars, slackVars, foundingVars>>
FollowsControls ==
    focus = "controls" /\ Controls!Next
    /\ UNCHANGED <<focus, vars, adminVars, pageVars, queueVars, trailVars, slackVars, foundingVars>>
FollowsIncident ==
    focus = "incident" /\ PageNext
    /\ UNCHANGED <<focus, vars, adminVars, controlsVars, queueVars, trailVars, slackVars, foundingVars>>
FollowsQueue ==
    focus = "queue" /\ Queue!Next
    /\ UNCHANGED <<focus, vars, adminVars, controlsVars, pageVars, trailVars, slackVars, foundingVars>>
FollowsTrail ==
    focus = "trail" /\ Trail!Next
    /\ UNCHANGED <<focus, vars, adminVars, controlsVars, pageVars, queueVars, slackVars, foundingVars>>

FollowsSlack ==
    focus = "slack" /\ Slack!Next
    /\ UNCHANGED <<focus, vars, adminVars, controlsVars, pageVars, queueVars, trailVars, foundingVars>>
FollowsFounding ==
    focus = "founding" /\ Founding!Next
    /\ UNCHANGED <<focus, vars, adminVars, controlsVars, pageVars, queueVars, trailVars, slackVars>>

NextOfAll ==
    FollowsAccess \/ FollowsAdmin \/ FollowsControls \/ FollowsIncident \/ FollowsQueue \/ FollowsTrail
    \/ FollowsSlack \/ FollowsFounding

everything ==
    <<focus, vars, adminVars, controlsVars, pageVars, queueVars, trailVars, slackVars, foundingVars>>

SpecOfAll == InitOfAll /\ [][NextOfAll]_everything

----------------------------------------------------------------------------
(* The properties of the modules above, each of the states of its own module; those of *)
(* ConsoleAccess and KeyedResource hold in their initial states, too.                 *)

\* PolicyAdmin: the history of a policy is complete, and no save reverts what its editor did not see.
HistoryIsComplete == focus = "admin" => Admin!HistoryIsComplete
NothingIsReverted == focus = "admin" => Admin!NothingIsReverted

\* AuditTrail: the pages of a list fit together, no row is skipped and none is there twice.
PagesFitTogether == focus = "trail" => Trail!PagesFitTogether

\* SlackDestination: the stored secret can be read, and the trail tells what is stored.
StoredSecretIsReadable == focus = "slack" => Slack!StoredSecretIsReadable
TrailTellsTheDestination == focus = "slack" => Slack!TrailTellsTheDestination

\* FoundingAccess: a visitor is thanked for one stored lead.
ThanksForOneLead == focus = "founding" => Founding!ThanksForOneLead

\* OrganizationControls: a revoked badge token is revoked for good, in the public's eyes too.
RevokedTokensStayRevoked ==
    [][focus = "controls" =>
          /\ \A b \in Badges : badges[b].state = "revoked" => badges'[b].state = "revoked"
          /\ \A r \in DOMAIN request :
                request[r].stage = "viewed" /\ request[r].state = "revoked" => request[r].shows = "revoked"]_<<badges, request>>

\* ApprovalQueue: an approval the member has seen resolved does not come back as pending.
ResolvedStaysResolved ==
    [][focus = "queue" => (data' # data => data'.pending \cap known = {})]_data
=============================================================================
