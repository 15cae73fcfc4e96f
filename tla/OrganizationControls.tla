------------------------ MODULE OrganizationControls ------------------------
(***************************************************************************)
(* The controls an organization configures and the badge that tells its     *)
(* customers so: settings, agents and API keys (api/console/organization.ts, *)
(* agents.ts, keys.ts), the badge (api/console/badge.ts) and its public      *)
(* lookups (badge/routes.ts, badge/status.ts). A badge has one public token  *)
(* for life, so a badge stands for its token.                               *)
(*                                                                         *)
(* Every request works with the row of the organization that its session was *)
(* loaded with, reads what it needs and writes in one batch; requests of      *)
(* several members and public lookups interleave between these steps.       *)
(***************************************************************************)
EXTENDS Naturals, FiniteSets

CONSTANTS Badges, Agents, Keys, Requests

VARIABLES org,      \* the row of the organization
          agents, keys,
          policies, \* whether some policy is enabled
          badges,
          cache,    \* the image of each badge that a visitor's browser keeps, or "none"
          req

vars == <<org, agents, keys, policies, badges, cache, req>>

NoBadge == [state |-> "none", activated |-> FALSE]
Badge(state, activated) == [state |-> state, activated |-> activated]
Live(b) == badges[b].state \in {"enabled", "suspended"}

Idle == [stage |-> "idle"]
Done == [stage |-> "done"]
Becomes(r, q) == req' = [req EXCEPT ![r] = q]

Init ==
    /\ org = [status |-> "active", gateway |-> TRUE, audit |-> TRUE]
    /\ agents \in [Agents -> {"none", "active"}]
    /\ keys \in [Keys -> {"none", "live"}]
    /\ policies \in BOOLEAN
    /\ \E current \in SUBSET Badges :
        /\ Cardinality(current) <= 1
        /\ badges = [b \in Badges |-> IF b \in current THEN Badge("enabled", FALSE) ELSE NoBadge]
        /\ \E kept \in {"none", "setup"} : cache = [b \in Badges |-> IF b \in current THEN kept ELSE "none"]
    /\ req = [r \in Requests |-> Idle]

----------------------------------------------------------------------------
(* Criteria and status *)

Criteria(o) ==
    /\ o.status = "active" /\ o.gateway /\ o.audit
    /\ \E a \in Agents : agents[a] = "active"
    /\ policies
    /\ \E k \in Keys : keys[k] = "live"

Status(badge, o) ==
    IF badge.state = "none" THEN "setup"
    ELSE IF badge.state = "revoked" \/ o.status = "revoked" THEN "revoked"
    ELSE IF badge.state = "suspended" \/ o.status = "suspended" THEN "suspended"
    ELSE IF Criteria(o) THEN "active"
    ELSE IF badge.activated THEN "suspended" ELSE "setup"

\* What follows a read of a badge: its first activation is marked.
AfterReading(r, b, badge, o, otherwise) ==
    Becomes(r, IF Status(badge, o) = "active" /\ ~badge.activated THEN [stage |-> "mark", badge |-> b] ELSE otherwise)

MarkActivated(r) ==
    /\ req[r].stage = "mark"
    /\ badges' = [badges EXCEPT ![req[r].badge].activated = TRUE]
    /\ Becomes(r, Done)
    /\ UNCHANGED <<org, agents, keys, policies, cache>>

----------------------------------------------------------------------------
(* What the public sees *)

\* lookupBadge for the verification page or the image of a token: first its badge. An image
\* that the browser keeps is asked for with its ETag; a request over the limit is not served.
BeginLookup(r) ==
    /\ req[r] = Idle
    /\ \E b \in Badges, image \in BOOLEAN :
        /\ badges[b] # NoBadge
        /\ \/ Becomes(r, [stage |-> "facts", badge |-> b, row |-> badges[b],
                          kept |-> IF image THEN cache[b] ELSE "page"])
           \/ Becomes(r, Done)
    /\ UNCHANGED <<org, agents, keys, policies, badges, cache>>

AnyImage(kept, status) == kept \notin {"none", "page"}   \* mutant: an ETag without the state
\* 304 Not Modified: the ETag that was sent is that of the state.
NotModified(kept, status) == kept = status

\* What the visitor sees of a badge: the kept image, or what the server answers.
Seen(q, status) == IF NotModified(q.kept, status) THEN q.kept ELSE status

\* Then the organization and the facts, in one batch. The page is never kept.
Lookup(r) ==
    /\ req[r].stage = "facts"
    /\ LET q == req[r]
           status == Status(q.row, org)
       IN  /\ cache' = IF q.kept = "page" THEN cache ELSE [cache EXCEPT ![q.badge] = Seen(q, status)]
           /\ AfterReading(r, q.badge, q.row, org,
                           [stage |-> "viewed", state |-> q.row.state, shows |-> Seen(q, status)])
    /\ UNCHANGED <<org, agents, keys, policies, badges>>

----------------------------------------------------------------------------
(* Console requests *)

LoadSession(r) ==
    /\ req[r] = Idle
    /\ Becomes(r, [stage |-> "console", org |-> org])
    /\ UNCHANGED <<org, agents, keys, policies, badges, cache>>

Writable(r) == req[r].stage = "console" /\ req[r].org.status = "active"

\* All settings are written, the ones that were not asked to change as the session read them:
\* these two may be as read while another one changes.
UpdateSettings(r) ==
    /\ Writable(r)
    /\ \E gateway \in BOOLEAN, audit \in BOOLEAN :
        org' = [org EXCEPT !.gateway = gateway, !.audit = audit]
    /\ Becomes(r, Done)
    /\ UNCHANGED <<agents, keys, policies, badges, cache>>

\* An agent key that is taken is refused by its unique index, also while two requests race.
CreateAgent(r) ==
    /\ Writable(r)
    /\ \E a \in Agents : agents[a] = "none" /\ agents' = [agents EXCEPT ![a] = "active"]
    /\ Becomes(r, Done)
    /\ UNCHANGED <<org, keys, policies, badges, cache>>

\* updateAgent reads the agent; what it was not asked to change is written back as read.
ReadAgent(r) ==
    /\ Writable(r)
    /\ \E a \in Agents, status \in {"active", "disabled"}, edits \in BOOLEAN :
        /\ agents[a] # "none"
        /\ Becomes(r, IF status = agents[a] /\ ~edits THEN Done
                      ELSE [stage |-> "agent", agent |-> a, status |-> status])
    /\ UNCHANGED <<org, agents, keys, policies, badges, cache>>

WriteAgent(r) ==
    /\ req[r].stage = "agent"
    /\ agents' = [agents EXCEPT ![req[r].agent] = req[r].status]
    /\ Becomes(r, Done)
    /\ UNCHANGED <<org, keys, policies, badges, cache>>

CreateKey(r) ==
    /\ Writable(r)
    /\ \E k \in Keys : keys[k] = "none" /\ keys' = [keys EXCEPT ![k] = "live"]
    /\ Becomes(r, Done)
    /\ UNCHANGED <<org, agents, policies, badges, cache>>

\* Also while the organization is suspended; a key that is revoked already changes no row.
RevokeKey(r) ==
    /\ req[r].stage = "console"
    /\ \E k \in Keys : keys[k] # "none" /\ keys' = [keys EXCEPT ![k] = "revoked"]
    /\ Becomes(r, Done)
    /\ UNCHANGED <<org, agents, policies, badges, cache>>

\* currentBadge, alone or as the answer to an action: badge and facts in one batch, the
\* organization as the session read it.
AnswerBadge(r) ==
    /\ req[r].stage \in {"console", "answer"}
    /\ LET current == {b \in Badges : Live(b)} IN
       IF current = {} THEN Becomes(r, Done)
       ELSE \E b \in current : AfterReading(r, b, badges[b], req[r].org, Done)
    /\ UNCHANGED <<org, agents, keys, policies, badges, cache>>

\* badgeAction reads the badge that is not revoked.
ReadBadge(r) ==
    /\ Writable(r)
    /\ \/ /\ \A b \in Badges : ~Live(b)
          /\ Becomes(r, [stage |-> "enable", org |-> req[r].org])
       \/ \E b \in Badges :
            /\ Live(b)
            /\ \/ /\ badges[b].state = "enabled"
                  /\ Becomes(r, [stage |-> "set", badge |-> b, state |-> "suspended", org |-> req[r].org])
               \/ /\ badges[b].state = "suspended"
                  /\ Becomes(r, [stage |-> "set", badge |-> b, state |-> "enabled", org |-> req[r].org])
               \/ Becomes(r, [stage |-> "rotate", badge |-> b, row |-> badges[b], org |-> req[r].org])
    /\ UNCHANGED <<org, agents, keys, policies, badges, cache>>

NothingForbidden(after) == TRUE   \* mutant: no unique index
\* badges_one_live_per_org: an organization has one badge that is not revoked.
OneLive(after) ==
    \A b, c \in Badges : after[b].state \in {"enabled", "suspended"} /\ after[c].state \in {"enabled", "suspended"} => b = c

\* A batch that would leave two live badges is rolled back, and the request fails.
Commit(r, after) ==
    IF OneLive(after) THEN badges' = after /\ Becomes(r, [stage |-> "answer", org |-> req[r].org])
    ELSE UNCHANGED badges /\ Becomes(r, Done)

New(b) == badges[b] = NoBadge

EnableBadge(r) ==
    /\ req[r].stage = "enable"
    /\ \E b \in Badges : New(b) /\ Commit(r, [badges EXCEPT ![b] = Badge("enabled", FALSE)])
    /\ UNCHANGED <<org, agents, keys, policies, cache>>

\* suspend and resume.
SetBadge(r) ==
    /\ req[r].stage = "set"
    /\ Commit(r, [badges EXCEPT ![req[r].badge] = Badge(req[r].state, badges[req[r].badge].activated)])
    /\ UNCHANGED <<org, agents, keys, policies, cache>>

\* The old token is revoked; the new badge starts as the old one was when it was read.
RotateBadge(r) ==
    /\ req[r].stage = "rotate"
    /\ \E b \in Badges :
        /\ New(b)
        /\ Commit(r, [badges EXCEPT ![req[r].badge] = Badge("revoked", badges[req[r].badge].activated), ![b] = req[r].row])
    /\ UNCHANGED <<org, agents, keys, policies, cache>>

\* A refusal (permission, validation, limits) or a lost invocation.
Stop(r) ==
    /\ req[r] \notin {Idle, Done}
    /\ Becomes(r, Done)
    /\ UNCHANGED <<org, agents, keys, policies, badges, cache>>

----------------------------------------------------------------------------

\* Policies come and go, and an operator suspends or revokes the organization.
Surroundings ==
    /\ \/ policies' = ~policies /\ UNCHANGED org
       \/ /\ \E status \in {"active", "suspended", "revoked"} : org' = [org EXCEPT !.status = status]
          /\ UNCHANGED policies
    /\ UNCHANGED <<agents, keys, badges, cache, req>>

Next ==
    \/ \E r \in Requests :
        \/ BeginLookup(r) \/ Lookup(r) \/ MarkActivated(r) \/ LoadSession(r)
        \/ UpdateSettings(r) \/ CreateAgent(r) \/ ReadAgent(r) \/ WriteAgent(r) \/ CreateKey(r) \/ RevokeKey(r)
        \/ AnswerBadge(r) \/ ReadBadge(r) \/ EnableBadge(r) \/ SetBadge(r) \/ RotateBadge(r) \/ Stop(r)
    \/ Surroundings

Spec == Init /\ [][Next]_vars

----------------------------------------------------------------------------
(* Safety *)

(***************************************************************************)
(* Rotation revokes a token for good (docs/BADGE.md:48), although suspend,   *)
(* resume and a second rotation write by the id of a badge they read before  *)
(* and do not look at its state again; and who looks at it from then on does  *)
(* not see it active, not even as the image they kept. (badge.ts:84, :92,    *)
(* :101, badge/routes.ts:52)                                                *)
(***************************************************************************)
RevokedTokensStayRevoked ==
    [][/\ \A b \in Badges : badges[b].state = "revoked" => badges'[b].state = "revoked"
       /\ \A r \in Requests : req[r].stage = "viewed" /\ req[r].state = "revoked" => req[r].shows = "revoked"]_vars
=============================================================================
