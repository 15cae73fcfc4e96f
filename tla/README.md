# TLA+ models of Mother AI

Mother AI is a gateway for the actions of AI agents. A Cloudflare Worker answers every
request; all state is in one D1 (SQLite) database; a single-page console shows it and changes
it. Paths below are relative to the repository's root (`src/runtime/api.ts`, `migrations/...`,
`web/src/...`, `docs/...`).

What makes the program hard is that it has no locks. A handler reads the database, awaits,
computes, and writes *one batch*. A batch is atomic; everything before it is stale by the
time it commits. What must not happen is kept out by the `WHERE` clauses of the batch, by
`CHECK`s, unique indexes and triggers that abort it. Work that may follow a response
(`waitUntil`) can be lost, and a cron invocation picks it up. The browser is the same once
more: answers arrive late, in any order, or never. The models follow exactly that: **a read is
a step, a batch is a step, anything may happen between the two, an invocation may die between
the two.**

## 1. Inventory

| Component | State | Operations | Interacts by |
|---|---|---|---|
| Containment (`runtime/containment.ts`, triggers of `0003`) | `risk_subjects` (state, epoch, incident), `security_incidents`, `incident_members` | quarantine, verify, clear | revokes leases, cancels approvals in scope, in its own batch |
| Runtime endpoints (`runtime/api.ts`, `store.ts`) | `agent_sessions`, `capability_leases`, `lease_uses` | open and close a session, use a lease, check a consume, report events | reads scope state; its signals may quarantine |
| Risk engine (`runtime/engine.ts`, `gateway.ts`, `replay.ts`) | `risk_signals`, scores, `risk_transitions` | assess, plan a quarantine, issue a lease, recheck a replay | inside the batch of an evaluation or report |
| Gateway (`gateway/evaluate.ts`, `audit.ts`, `identity.ts`) | `decisions`, `risk_evaluations` | evaluate, replay by `request_id` | reads everything, one write batch |
| Policy engine and normalization (`gateway/policy-engine.ts`, `normalize.ts`) | none | pure | called by the gateway and by the editor's simulation |
| Approvals (`gateway/approvals.ts`, `api/console/approvals.ts`) | `approvals` | request, approve, deny, consume, expire | cancelled by quarantine; notified |
| Approval notifications (`notifications/approvals.ts`) | `approval_notifications`, `..._attempts` | queue, deliver, retry, sweep | `waitUntil` of handlers, cron, Slack |
| Security alerts (`runtime/alerts.ts`) | `security_notifications`, `..._attempts` | queue, deliver, sweep; cron verification of incidents | a protocol like that of notifications |
| Slack destination (`notifications/secret.ts`, `api/console/notifications.ts`, `scripts/ops/set-approval-slack.mjs`) | `notification_channels` | configure, replace, remove, test | read by both queues |
| Authentication and members (`auth/*`, `organization.ts`) | challenges, invites, memberships, sessions | sign in, join, switch, change and disable members | every console request |
| Policies (`api/console/policies.ts`, `pages/PolicyEditor.tsx`) | policies, versions, bindings; the editor's form | create, save, archive, simulate | read by the gateway |
| Organization, agents, keys, badge (`api/console/*`, `badge/*`) | settings, agents, keys, `badges` | administration, public lookups | the badge tells what is configured |
| Console pages (`web/src/console/*`) | what a page shows | load, poll, page through, act | requests to the console API |
| Founding Access (`api/public.ts`, `leads/slack.ts`, `marketing/founding.ts`) | `founding_access_requests`; the form's token | token, submit | Slack |

The behaviours that are hard to test, each at its line, are the `hazards` of `PROJECT.json`. In
short: stale reads against a concurrent quarantine (evaluate, replay, approve, consume, lease
use, session opening); quarantine, verification and clearance of one subject interleaved;
risk rows written by handlers that overlap; two evaluations with one `request_id`; handler
clocks behind each other although epochs and expiries are compared with them; background work
that dies; a delivery that is slow, dies, or is repeated by cron; a write batch that fails or
loses its reply; check-then-act in the console; several members on one row; answers that
overtake each other in a page.

What makes each component correct:

* containment: subject and incident agree; epochs only move forward; a clearance and its audit
  event come together; open incidents settle; nothing in a contained scope is used or approved;
* risk: no lost update is lost for good; a state and its history agree; only a clearance ends a
  quarantine; what is blocked and what is quarantined agree;
* gateway: one decision per `request_id`, never weaker than the policies, with its evidence and
  its authority; no answer beyond it; no stale replay into a contained scope;
* approvals and leases: executed at most once, used at most `max_uses` times, never inside a
  contained scope;
* notifications and alerts: every attempt is logged once; no row waits for ever; whoever was
  asked hears of the result, nobody else does;
* console: a challenge signs in once, an invite ends once, a disabled member has no session,
  history is complete, nobody's change is reverted unseen, a revoked token stays revoked;
* pages: what is shown belongs to the address, does not go back in time, and is complete.

## 2. Modules

| Module | Models |
|---|---|
| `RuntimeScope` | the session forest, `lineageStatement` / `scopeState` (walk up), `SCOPE_CTE` (walk down); pure |
| `Containment` | quarantine, verification, clearance, evaluation writes, leases, approvals, sessions, cron; extends `RuntimeScope` |
| `RiskEngine` | signals, scores, states, plans and their batches, for one agent, one session and an API key |
| `PolicyEngine`, `Normalization` | the pure functions of the gateway: validation and evaluation of policies; what a body becomes and its fingerprint |
| `Gateway` | `handleEvaluate` from the first read to the answer; extends `RuntimeScope`, `Normalization` (and through it `PolicyEngine`) |
| `DecisionLog` | the abstract specification `Gateway` implements |
| `ApprovalNotifications`, `SecurityAlerts` | the two queues of Slack messages with their cron sweeps |
| `SlackDestination` | the channel row, its ciphertext and its trail |
| `ConsoleAccess` | challenges, invites, members, sessions |
| `PolicyRows`, `PolicyAdmin` | the rows of the rule builder; the editor page and the endpoints it calls |
| `OrganizationControls` | settings, agents, keys, the badge and its public lookups |
| `KeyedResource`, `ApprovalQueue`, `AuditTrail` | the incident page, the approvals page and the audit page, each with its loader and its endpoint |
| `FoundingAccess` | the form, its token, the two endpoints and the note to Slack |
| `ControlPlane` | the components around the gateway side by side (`SpecOfAll`), and their properties as those of one specification |
| `ContainmentProofs`, `RiskProofs`, `GatewayProofs`, `PolicyProofs`, `NotificationProofs`, `AccessProofs`, `ControlPlaneProofs`, `PolicyAdminProofs` | theorems |
| `MCContainment`, `MCRiskEngine`, `MCGateway`, `MCNotifications`, `MCControlPlane`, `MCConsoleAccess`, `MCFoundingAccess` | instances for TLC |

`Containment`, `RiskEngine` and `Gateway` describe one system at three grains. `Containment` has
the scope, the incidents and the authority, and lets any subject be quarantined at any time;
`RiskEngine` says when it is; `Gateway` says what the client is told and what is recorded, and
lets its scope's verdict be any that `RiskEngine` allows. One module with all three would have
no finite instance worth checking.

### 2.1 `Containment`

| Variable | Table or state |
|---|---|
| `now` | the wall clock, in ticks |
| `sess` | `agent_sessions`: open or closed, expiry (agent and parent are the constants `AgentOf`, `ParentOf`) |
| `risk` | `risk_subjects`: state, `containment_epoch_at`, `incident_id`, `cleared_at` |
| `inc` | `security_incidents` |
| `leases` | `capability_leases`; `recorded` counts the granted `lease_uses` rows |
| `apps` | `approvals`; `consumed` counts executions instead of a timestamp |
| `invalidated` | `incident_members` with relation `invalidated_grant` |
| `cleared` | `security.cleared` events per incident |
| `req` | per invocation, what a handler in flight has read: its operation, subject, clock |
| `crashes` | invocations that died |

A handler starts with a *read* action (`EvaluateRead`, `UseLeaseRead`, `ApprovalRead`,
`QuarantineRead`, `ClearRead`, `OpenRead`), which puts what it holds in `req`, and ends with its
batch (`IssueLease`, `RequestApproval`, `ClaimLease` then `RecordLeaseUse`, `Approve`, `Consume`,
`Quarantine`, `Clear`, `OpenSession`). A quarantine goes on in the background:
`VerifyRead`, `VerifyEnforce`, `VerifyCount`, `VerifyContain` are the statements of
`verifyContainment`; `CronVerify` starts the same from cron.

* Several consecutive reads of one handler are one step; the last read is the one that a race
  can make stale, and an earlier read only makes a handler refuse more.
* `at` is the clock a handler took when it began, up to `MaxLag` ticks before its read. Every
  comparison of the code with `nowIso` uses it.
* A quarantine batch contains its enforcement (`EnforceScope`); the triggers appear as
  conditions that abort the whole batch (`EpochAdvances`, `ClearanceAdvances`).
* Any subject that is not contained may be planned for quarantine at any time (`RiskEngine` says
  when), and so is the counting of child sessions in `openSession` abstracted, whose insert and
  quarantine share one batch (`opens`).
* Risk states that containment does not tell apart (`normal`, `elevated`, `review_required`,
  `cleared`) are one. In `review_required` the code refuses more (lease uses), so nothing is lost.
* The mode is `enforce`. Agents are registered. Whether a member may clear is not modelled: a
  clearance the trigger refuses is a handler that stops (`Crash`).
* The two walks of the lineage are kept apart, as in the code. A handler checks *every* subject
  above it (`ScopeKeys`: its agent, its session and ancestors, and their agents). A quarantine walks
  down (`InScope`): a session reaches its subtree, an agent reaches its own decisions and descends
  only through sessions that have not expired by its clock. `NoClaimInContainedScope` and
  `NoApproveInContainedScope` are stated over what the handlers check, and name what the second
  walk misses (`Beyond`).
* A second clearance that raced past the first appends a second `security.cleared` event; the
  handler then answers with an error. That is why `ClearedIsRecorded` says "at least one".

### 2.2 `RiskEngine`

`subject` has the columns `state`, `score`, `since` (`cleared_at`) and `version` of
`risk_subjects`; `signals` the rows of `risk_signals`; `last` the latest `risk_transitions` row of
each subject; `req` what `loadRuntimeContext` and `planSubjects` have made: the plan. `Assess` is
an evaluation up to its batch, `Report` the other endpoints that raise signals, `Commit` the
batch with its versioned upserts, whose transition is only written if the update took effect.
Members quarantine and clear; verification completes a containment; the mode changes.

* Which signals an evaluation raises is a choice among what its facts admit; the rules' points,
  windows and thresholds are the code's numbers, and the scores are computed with them.
* `alone` and `lifted` are history variables of a plan, kept by every write of another party
  (`Overtaken`): nobody has changed the rows since it was made; the subjects whose quarantine a
  clearance has lifted since. `QuarantineIsSticky` says with `lifted` what a handler that read
  before a clearance may still do to the cleared row: quarantine the plan's target again, whose
  upsert looks at no version (`runtime/containment.ts:108`), and nothing else.
* Time is counted in half hours, which every window is a multiple of; an epoch is kept as the
  time of the clearance.

### 2.3 `PolicyEngine`, `Normalization`, `Gateway`, `DecisionLog`

Values are typed records, so that a condition meets a value of the wrong type as it does in
JSON; strings are sequences of pieces, so that trimming, lower case, prefixes and wildcards do
what the code does without spelling characters. `Normalization` gives each body its action, its
correlation and its `Fingerprint`, or nothing if the body is refused. `PolicyEngine` evaluates
the policies that apply, which a `SELECT` returns in any order, and fails closed.

In `Gateway`, `Receive` reads the organization, the agent, the policies and an earlier decision
under the same `request_id`; `LoadContext` / `SkipContext` read the runtime context, assess, and
plan; `Commit`, `CommitFails`, `CommitLoses` and `CommitCore` are the full batch and the core
batch without evidence that monitor mode falls back to; `Reread` and `Recheck` are the loser of
the unique index and the containment check of a replay. `Fail` is a handler that dies or fails
closed. Around it the mode, the key, agents, policies, sessions and quarantines change.

* `open` in `req` is history: the scope has not been contained in enforce mode ever since the
  request arrived. It is an upper bound of what a handler could know.
* What a scope's verdict can be, and whom its signals quarantine, is `Assessments`; a scope that is
  contained is blocked, and may get a further subject quarantined. The `catch` around the assessment
  in monitor mode (`gateway/evaluate.ts:247`) is left out: the assessment is a pure function of rows
  already loaded. It would record the policies' decision without evidence, as after `CommitCore`.
* `due` in a decision is history: what a declarative reading of the policies (`Reference`) calls
  for, written without the engine's loop, order or early exits.
* `DecisionLog` has a `log` that gets one entry for each key and never changes, and clients that
  are told what is in it, or to stop. The refinement maps `decisions` to the log (its decision
  and fingerprint) and the finished invocations to what was told.

### 2.4 `ApprovalNotifications`, `SecurityAlerts`

`ap` is the state of approvals, `ntf` the queue, `log` the attempt log, `accepted` what Slack
accepted, `req` the deliveries in flight (one per invocation), `sweep` the cron passes in
progress. `Queue`, `Load`, `Skip`, `Claim`, `Post`, `Record` are the statements of
`queueApprovalNotification` and `deliverNotification`; `SweepStart`, `Abandon`, `SweepBackfill`,
`Backfill`, `SweepDue`, `Deliver` those of `sweepApprovalNotifications`, one row at a time.
`SecurityAlerts` is the corresponding queue of `runtime/alerts.ts`: the batch of a transition
queues an alert, and `pass` is an invocation that goes through the queue (`BeginPass`,
`AbandonAlert`, `SelectDue`, `LoadAlert`, `ClaimAlert`, `PostAlert`, `RecordAlert`), in the
background of a request or in cron. It has no retry in place, and a record counts only for its
own attempt.

* Time is relative: `due` and `lease` are `next_attempt_at` and `lease_until` minus the clock.
* The attempt number a delivery of a notification records with is the one it *loaded* plus one,
  as in the code. `Post` may be accepted and still time out (`reached`).
* `MaxAge <= LeaseTime` is assumed: a statement is executed, and a pass of the sweep handles the
  abandoned rows it found, within a lease (60 s) of the clock it uses. The code needs it: the
  sweep gives up whatever attempt is under way when its clock says that the lease is over, but
  logs it under the number it read when the pass began. A claim from a clock more than a lease
  behind would let it log one number twice and the next never: the index on
  `(notification_id, attempt)` is not unique.
* Left out: the look-back windows and row limits of the sweep, payloads, a channel that is
  configured again, an organization that is suspended, the order in which a pass handles its
  rows (any order is allowed).

### 2.5 The control plane

Each of these modules has its own tables and its own requests (`req`, `call`, `calls`), whose
`stage` is the statement that comes next and whose other fields are what the handler has read.

* `ConsoleAccess`: `challenges`, `invites`, `members`, `sessions` are tables; a session remembers
  through which challenge it was made (`via`), and how often its member had been disabled
  (`born`), which are not columns. Cryptography is a step that may fail.
* `PolicyAdmin`: `editor` is the state of the page (form, loaded version, conflict), `call` a
  request at the server, `versions` the table with what the editor had touched (`edited`, history).
  `PolicyRows` is how the rule builder turns a rule into rows and back (`rowsFromConditions`,
  `rowsToConditions`), which is not the identity: `LeftAlone` says what it may change (white space
  around single values; the values of a list take the type of its first). A page can be left, or its
  policy archived, while a save is under way: the save goes on and its answer finds no page
  (`GoesElsewhere`); it counts against `MaxFaults`, as an answer that is lost. The late answer to a
  create still opens the created policy, which is the same as leaving and opening it.
* `OrganizationControls`: a request works with the row of the organization its session was loaded
  with. `cache` is the image a visitor's browser keeps with its ETag.
* `KeyedResource`: the reducer and the generations of `keyed-resource.ts`, mounting and
  navigation, a clearance that the page waits for. `ApprovalQueue`: the `seq` of `useApi`, tabs,
  the 15 s poll, the dialog. `AuditTrail`: the rows and their keyset cursor `(created_at, id)`,
  the list that appends pages; rows are committed later than their `created_at` says.
* `SlackDestination`: a ciphertext is bound to the id of its row (`boundTo`); console requests and
  the operator's script read, then write one batch. `FoundingAccess`: the form's token with its
  age, two endpoints, overlapping retries. Of the fields, the email and the hidden `website` are
  kept: who fills in the latter is answered "ok" before the token is looked at, and nothing is stored
  (`Caught`).

## 3. Runs

`tlc -config <cfg> <module>` for each. Every property of a passing run has a *mutant*: an operator
next to a definition, marked `mutant`, that changes it the way a plausible slip would and that
makes TLC find the property violated (`mutants` in `PROJECT.json`).

| Run | Instance | Properties |
|---|---|---|
| `incidents` (`MCContainment_incidents.cfg`) | one session, 3 handlers, 2 incident ids, 3 instants, clocks lagging by 1 | `IncidentAgreement`, `ClearedIsRecorded`, `EpochsMoveForward` |
| `lineage` (`..._lineage.cfg`) | a session of `lead`, which may expire, with a child of `helper`; 2 handlers, 1 lease, 1 approval, 1 incident, 1 crash | `TypeOK`, `UsesLostOnlyToCrashes`, `NoClaimInContainedScope`, `NoApproveInContainedScope` |
| `approvals` (`..._approvals.cfg`) | 2 handlers, 1 approval, 1 incident, 1 crash, clock to 3, fair | `AtMostOneExecution`, `OpenIncidentsSettle` |
| `risk` (`MCRiskEngine.cfg`) | 3 handlers with 5 kinds of facts or 3 kinds of reports, half an hour, 2 changes by members | `EveryChangeIsRecorded`, `BlocksWhatItQuarantines`, `QuarantineIsSticky`, `CatchesUp` |
| `gateway` (`MCGateway.cfg`) | 2 requests, 6 bodies under one `request_id` or none, 5 policies of which 2 are published, 1 failure, 1 change around them | `NoAllowInContainedScope`, `PolicyIsUpheld`, `SimulationForetells`, `EnforcedDecisionsHaveEvidence`, `AuthorityMatchesDecision`, `ImplementsDecisionLog` |
| `notify` (`MCNotifications.cfg`) | one approval with its review request and result, or one alert; 1 handler, 1 cron, 2 (alerts: 3) attempts, 1 crash, fair | `EveryAttemptIsLogged`, `QueuedIsClaimable`, `ResolutionsFollowTheReview`, `AlertAttemptsAreLogged`, `NotificationsSettle`, `ResolutionsAreQueued`, `AlertsSettle` |
| `control_plane` (`MCControlPlane.cfg`) | eight components, each with 2 or 3 requests in flight | `OneSignInPerChallenge`, `InviteEndsOnce`, `DisablingEndsSessions`; `HistoryIsComplete`, `NothingIsReverted`; `RevokedTokensStayRevoked`; `ShowsTheRoute`, `ClearedStaysCleared`, `SpinnerIsAnswered`; `ResolvedStaysResolved`; `PagesFitTogether`; `StoredSecretIsReadable`, `TrailTellsTheDestination`; `ThanksForOneLead` |
| `invalidated`, `contained`, `signal_twice`, `last_owner`, `founding_retry` | the smallest that show it | violated, see section 4 |

**Composed instances.** `ControlPlane`, which `MCControlPlane` instantiates, and `MCNotifications`
put components side by side that share no tables. A behaviour chooses one of them at the start
(`focus`, `queue`) and only that one moves; the others rest in an initial state, or have no value at all. Nothing is lost: a property
of one component is about its own variables, and no step of another one changes them.

The run `lineage` does the like with a constraint (`OneConcern`): a behaviour uses leases or
approvals, and meets quarantines or invocations that die, so that the states of these are added
instead of multiplied. None of its properties is about a lease and an approval at once; that lease
uses lost to crashes stay so under a quarantine is proved (`UsesLostOnlyToCrashes`, section 6).

**Bounds, and why they are enough.**

* Two handlers show any race of a read against a batch; the third in `incidents` and `risk` lets a
  third party move in between (quarantine, verification and clearance of one subject; two plans
  and a clearance). Incident ids, leases, approvals and alerts are independent of each other, and
  the second incident shows that a subject is quarantined again after a clearance.
* The forest has two sessions of two agents: the descendant case and the inherited case, with a
  parent that expires before its child, so that every exception of the two lineage properties
  happens (without `Beyond`, TLC finds both violated). One session suffices where lineage is not the
  question.
* Clocks: three instants and a lag of one give every order of "read the clock, read the row,
  write" against an expiry and an epoch.
* `risk`: half an hour is the largest common divisor of the windows; one step of it passes
  the shortest window and not the others. The facts are chosen so that one rule, several rules and
  no rule fire, for subjects that overlap, and so that scores pass every threshold.
* `gateway`: the bodies include the same action spelled twice, another action under the same id,
  a child of a decision, an MCP call of an unregistered agent, one with a session and a lease, and
  one that is refused. One policy is malformed, so that failing closed happens. One change may
  be a quarantine, a mode switch, a revoked key, a new policy, and so on.
* `notify`: attempts 2 and 3 are a first, a middle and a last attempt. Times are relative
  to the clock and are kept at a floor beyond which nothing tells them apart, so the clock itself
  is not bounded.
* Pages make three requests: an old one, the current one, and the one that replaces it. Audit
  pages hold one row, and three rows share two instants, so that a page boundary falls between
  rows with the same `created_at`.
* Symmetry is declared only in runs without liveness properties, over ids of invocations and rows.

**Fairness, and why the code justifies it.**

* `WF(Tick)`, `WF(ClockTicks)`: time passes.
* `WF(CronVerify)`, `WF(Sweeping(c))`, `WF(BeginPass(c))`: the Worker has a cron trigger, and each
  scheduled invocation runs its sweep to the end or dies, which the next one makes up for.
* `WF(Verification(r))`, `WF(Delivering(r))`, `WF(Runs(w))`: an invocation that was started goes
  on, unless it dies. `Crash` and `Lose` are not fair and their number is bounded: with an invocation
  that dies each time, nothing would ever settle.
* No client, member or integration is assumed to do anything.

## 4. Where the code differs from what is said of it

| Run | What it shows |
|---|---|
| `invalidated` | An approved grant that a quarantine recorded as invalidated, "unusable forever" (`runtime/containment.ts:10`), is executed: consume checks the scope in one round trip and claims the grant in the next, and the claim (`gateway/approvals.ts:167`) does not look at the scope. |
| `contained` | `contained` does not mean that "no live lease and no pending approval remains in scope" (`docs/RUNTIME_SECURITY.md:105`): an evaluation that read before the quarantine commits after the verification. |
| `signal_twice` | One behavioral signal, raised by two overlapping evaluations, is inserted twice and quarantines, which `runtime/engine.ts:6` excludes. |
| `last_owner` | The last owner is removed, which `docs/SECURITY_MODEL.md:62` excludes: two owners who demote each other both count two. |
| `founding_retry` | A visitor told to retry (`marketing/founding.ts:146`) is refused as too fast, however long they waited: the fresh token is fetched inside the submission that uses it. |

## 5. Observations

Met while modelling; none contradicts what is said of the program, and the models allow them.

* *Leases, notifications.* A use of a lease can be counted without its `lease_uses` row after a
  crash, and only then (`UsesLostOnlyToCrashes`; `docs/RUNTIME_SECURITY.md:126`). A Slack message can
  be sent twice without a crash, if its claim's lease runs out while Slack is slow. An alert that is
  claimed after its attempts were loaded is recorded by the sweep and sent again.
* *Lineage.* A quarantine of an agent does not descend through its expired sessions
  (`runtime/containment.ts:41`), so a live child session of another agent below one keeps its leases
  and pending approvals. New checks refuse them, since the walk up meets the agent; a lease use or
  an approval whose check came before the quarantine goes through (`Beyond`).
  `docs/RUNTIME_SECURITY.md:114` says of the scope what the code does: the agent's *live* sessions and
  their descendants. Also, a use with an older clock goes through for a lease that had expired by
  the quarantine's clock.
* *Mode.* A handler that read `enforce` quarantines after the switch to `monitor`; one that read
  `monitor` answers once more as in `monitor`.
* *Risk.* The `from_state` of a quarantine's transition may be stale. An evaluation that planned a
  quarantine before a clearance quarantines the subject again after it, for signals that the
  clearance took out of the score (`runtime/containment.ts:108` looks at no version).
* *Members.* `updateMember` writes back the status it read, so it can enable a member who was
  disabled meanwhile. A sign-in or a switch under way inserts its session after a disabling: it is
  younger than the disabling, and dead as long as the member is disabled; `DisablingEndsSessions` is
  about the sessions that exist when the member is disabled, and says nothing of this one. Two switches at once make
  two sessions.
* *Policies.* Saving an unchanged rule trims single values and makes the
  values of a list as its first: numbers after a string become strings, and strings that spell
  numbers after a number become numbers. What is typed while a save is under way is overwritten by its answer.
  Counted limits on policies, agents and keys are a count before an insert.
* *Whole rows.* Settings and agents are written back with columns that were read before
  (`organization.ts:74`, `agents.ts:139`). Rotating a badge enables one that was suspended
  meanwhile; a lookup reads a badge and what it tells at different times.
* *Simulation.* It leaves out the gates before the policies (a declared environment, a test key),
  takes a disabled draft as enabled, and stays shown after the draft is edited.
* *Pages.* A late "load more" of an old filter is appended to the rows of the new one. A row that
  commits late is not on a page that was already read. The detail panel of a decision and the page
  of an agent can show a late answer of another one. An answer to the approvals page that takes
  longer than the 15 s poll is superseded by the next; the old tab's rows are shown until the new
  tab's arrive; the pending count of the navigation does not order its answers.
* *Founding Access, Slack, demo.* A visitor whose browser fills in the hidden `website` field is
  thanked and no lead is stored; that is the honeypot at work (`docs/OPERATIONS.md:51`). Two overlapping submissions of one email make two leads. A token
  up to 60 s in the future is accepted. A replacement that finds its channel removed still records
  `slack_replaced` in the trail. On the demo page, the verdict of an earlier scenario can appear
  beside the one chosen since.
* `GET /api/console/security` is declared twice.

## 6. Proofs

`tlapm <Module>.tla`. Each theorem holds for every value of the constants that satisfies the
assumptions of the model's modules. Every safety and every action property of the passing runs is
the conclusion of a theorem, and so is the refinement.

| Module | Proves | Argument |
|---|---|---|
| `ContainmentProofs` | `TypeOK`; `IncidentAgreement`; `ClearedIsRecorded` | `TypeOK` is inductive. The agreement is not: a verification in flight may write for an incident that was cleared. `IncidentInv` adds that incidents in the hands of handlers exist (`HandledIncidentsExist`), that an incident that exists has a subject (`IncidentsHaveSubjects`), and that clearances are recorded. |
| | `EpochsMoveForward`; `AtMostOneExecution`; `NoClaimInContainedScope`; `NoApproveInContainedScope` | Only quarantine and clearance write epochs, under the trigger. Approvals and leases follow their life cycles. `ChecksHold`: once the scope of a lease or an approval is halted, what its handler read before is void; being halted is stable because a quarantine revokes the scope in its own batch. `SessionInv`: the ancestors of an opened session have been opened, and an opened session keeps its expiry, so what a quarantine did not descend to stays `Beyond` it; `LineageIsClosed`: a set of sessions with their parents has all their ancestors. |
| | `UsesLostOnlyToCrashes` | `UsesInv`: the uses that were claimed and have no row are at most the handlers about to record one and the invocations that died; a step moves a use from one of these to the next, and does nothing else to them (`UseSteps`). |
| `RiskProofs` | `EveryChangeIsRecorded`; `BlocksWhatItQuarantines`; `QuarantineIsSticky` | What a plan says of a row is only used while it holds the row's current version (`Waits`), and then it is true of it. A plan that a clearance overtook holds an older version (`IsOvertaken`), so only its quarantine can still take effect. |
| | `CatchesUp` | `CatchInv`: while nobody else has written since a plan was made, the plan covers the signals that count (`Covers`, `Settles`). The score is a sum over a finite set; what is needed of sums (`PointsOf`) is proved from a minimal counterexample, since induction is out of reach. |
| `GatewayProofs` | types; `NoAllowInContainedScope`; `EnforcedDecisionsHaveEvidence`; `AuthorityMatchesDecision`; `ImplementsDecisionLog` | An invariant for each invocation (`RequestOK`: what it has read and computed) and each decision (`RowOK`). The refinement has one lemma per step: it appends to the log, tells, or stutters. |
| `PolicyProofs` | `GlobFindsEveryMatch` | The loop with backtracking of `globMatch` agrees with "the pieces can be laid along the text". Loop invariant `Sound`; the loop ends (`TurnsLeft`); both by the least element of a well-founded order. |
| | `PolicyIsUpheld` | Conditions are true, false or *indeterminate*; `Certain` and `Possible` bound what a group with such conditions is (`Makes`). The strictest applicable effect the loop finds is then the one `Reference` calls for, whatever the order of the rows (`Strictest`), and `PolicyInv` carries it from the computation to the stored decision. |
| | `SimulationForetells` | The editor's rule and the published one are the same rule (`SameRules`), and the decision depends on nothing else (`Decided`). |
| `NotificationProofs` | types; `EveryAttemptIsLogged`; `QueuedIsClaimable`; `ResolutionsFollowTheReview` | `RowInv` relates the log to the row; `PassesAreCurrent` says that what a sweep found abandoned is still that attempt or was claimed again with a lease that the sweep's clock does not see run out; `RetriesAreLeft`; `SentIsAccepted` for results. |
| | `AlertAttemptsAreLogged` | The same for alerts: `StaleOK` for the rows that a pass found abandoned. |
| `AccessProofs` | `OneSignInPerChallenge`; `InviteEndsOnce`; `DisablingEndsSessions` | `Once`: a challenge is with one request or one session at most, and taken from the first on. `InviteOK`: who joined through an invite did so with its only acceptance. `SessionOK`. |
| | `ShowsTheRoute`; `ClearedStaysCleared`; `SpinnerIsAnswered` | Only the latest request is listened to, and nothing that was read before it was sent can have been shown since (`LatestOK`). |
| `ControlPlaneProofs` | `PartsAreFollowed` | A behaviour of all components is one of each. |
| | `StoredSecretIsReadable`; `TrailTellsTheDestination` | `SlackInv`: a row keeps its id for ever, and the row that a request has read is one that was stored, so a ciphertext made for it fits. |
| | `ResolvedStaysResolved` | `QueueInv`: a status that was resolved stays so, and the answer to the latest fetch, the only one that is listened to, does not offer as pending what the page was told is resolved. |
| | `RevokedTokensStayRevoked` | `RevokedIsReplaced`: once a badge was revoked there is a live one, since a rotation writes both in one batch. A late write that would revive the old one makes a second live badge, which the unique index aborts. |
| | `PagesFitTogether` | `TrailInv`: a page has all rows between its two cursors (`PageOK`), whatever `ORDER BY` and `LIMIT` leave open; a page under way that the list will take goes on exactly where the list ends, under the filter of the list (`CallOK`). |
| | `ThanksForOneLead` | `FoundingInv`: two submissions of one email that are leads or about to be were under way at the same time (`Overlap`), and a form that left the honeypot empty says thanks only for a lead that is there. |
| `PolicyAdminProofs` | `RuleIsLeftAlone` | A stored rule that goes through the rule builder and the server's canonical form comes back with no more changed than `LeftAlone` says, condition by condition. |
| | `HistoryIsComplete`; `NothingIsReverted` | `AdminInv`: the versions of a policy are numbered without a gap and the last is in force (`HistoryOK`, `VersionsOK`); what a page shows (`Loads`) and a save carries (`Saves`) differs from the version it names only where its editor edited; the page that an answer will reach is still the one that asked (`Waits`). |

**Assumptions**, which TLC evaluates in every run.

* `SubjectsAssumption`, `ForestAssumption`: agents and sessions are different ids, and sessions form
  a forest, since a parent exists before its child and is never changed.
* `ContainmentAssumption`, `AccessAssumption`, `KeyedResourceAssumption`, `ControlPlaneAssumption`:
  `None` is not an id and ids of different kinds differ; durations and bounds are natural numbers.
* `RiskAssumption`: also, what the endpoints other than evaluate report is what the code lets them.
* `GatewayAssumption`: also, decisions are keyed by `request_id` or by themselves, and policies have
  the columns of the table, with distinct ids. `TextAssumption`: the values that conditions compare
  are well-formed texts.
* `RulesAssumption`: the rule that exists is one that the server stored, rows are what an editor can
  type, lower case is idempotent, and no numeral is white space. `TrailAssumption`: ids and times are
  ordered, a page has at least one row.
* `NotificationsAssumption`, `AlertsAssumption`: a lease is at least as long as a clock in use is
  old. This is the one that the code needs and does not enforce; section 2.4.

Bounds of the models (`MaxCrashes`, `MaxTime`, `MaxChanges`, ...) are any natural numbers.

**What the proofs changed.** Attempts that failed for a good reason corrected the models:
`Reference` did not have the gate before the policies that compares environments (`OutOfPlace`);
`LeftAlone` was stronger than the code for a list that starts with a number (`SpellTheSame`); the history variable of
the audit page was not enough to tell whose page a late answer continues, and is now the request
that the list goes back to (`list`); the bodies of reports had to be limited to those the endpoints send
(`RiskAssumption`).

**Only model-checked**: liveness (`OpenIncidentsSettle`, `NotificationsSettle`, `ResolutionsAreQueued`,
`AlertsSettle`), which needs `ENABLED` and fairness, and that the properties of section 4 are
violated.

## 7. Not modelled

* HTTP routing, CORS, cookies, rate limits, API key lookup: a request that is refused changes
  nothing, and the models let requests be refused.
* Cryptography: WebAuthn, hashing, HMAC and AES-GCM either accept or not. What a ciphertext is
  bound to is modelled (`SlackDestination`).
* What is only said or drawn: Slack payloads, the badge image, pages other than the modelled ones,
  overview counts, explanations of decisions.
* Demo data, the demo and marketing pages, deployment and QA scripts, shared helpers
  (`src/lib/*`): no state that the properties are about.
* Counted limits (members, policies, agents, keys, channels), suspension of organizations except
  as a reason to skip a message, retention.
* The clearing member's permission, and the text that pages and trails carry.
