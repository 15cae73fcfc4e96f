------------------------------- MODULE Gateway -------------------------------
(***************************************************************************)
(* handleEvaluate (src/gateway/evaluate.ts): one invocation per client     *)
(* request, from the first read batch to the answer, with the policies, the *)
(* risk state and the settings of the organization changing between its     *)
(* steps. Clients retry with the same request_id; a write batch may fail,   *)
(* or commit and lose its reply.                                           *)
(*                                                                         *)
(* A decision is a row of `decisions', named by its request_id, or by its   *)
(* invocation when the client sent none (the code makes up a fresh one).    *)
(* How the risk engine scores is not modelled here (see RiskEngine): a      *)
(* scope that is not contained gets any verdict, and in enforce mode the    *)
(* block that quarantines one of its own subjects in the same batch.        *)
(***************************************************************************)
EXTENDS RuntimeScope, Normalization

CONSTANTS Requests,           \* invocations of the gateway
          Ids,                \* request_ids clients use
          Bodies, BodyOf,     \* request bodies clients send, and what is in them
          PolicyUniverse,     \* policies members may publish
          EnvironmentOf, DefaultModeOf,   \* agents.environment, agents.default_mode
          DefaultDecision,    \* organizations.default_decision
          RequireRegistered,  \* organizations.require_registered_agents
          TestKey,            \* is the API key a test key?
          MaxPolicies,        \* bound: policies published at once
          MaxFaults,          \* bound: statements that fail
          MaxChanges          \* bound: changes around the requests

VARIABLES org,       \* runtime_protection, and whether the key may be used
          agents,    \* agents.status
          policies,  \* the enabled policies
          ended,     \* sessions that were closed or have expired
          risk,      \* risk_subjects.state
          decisions, \* decisions, with their risk_evaluations and authority
          req,       \* the invocations
          faults, changes

vars == <<org, agents, policies, ended, risk, decisions, req, faults, changes>>

Modes == {"off", "monitor", "enforce"}
Rows == Ids \cup Requests

\* What a policy is made of.
PolicyColumns == {"id", "enabled", "scope", "agents", "effect", "priority", "created",
                  "reason_code", "conditions"}

ASSUME GatewayAssumption ==
    /\ None \notin Rows /\ Ids \cap Requests = {}
    /\ \A body \in Bodies : BodyOf[body].kind \in {"api", "mcp"}
    /\ IsFiniteSet(PolicyUniverse)
    /\ \A p \in PolicyUniverse :
          /\ DOMAIN p = PolicyColumns
          /\ p.id \in Nat \ {NoPolicy} /\ p.enabled /\ p.priority \in Nat /\ p.created \in Nat
          /\ \A q \in PolicyUniverse \ {p} : q.id # p.id
    /\ DefaultModeOf \in [Agents -> Verdicts \cup {"inherit"}]
    /\ DefaultDecision \in Verdicts
    /\ RequireRegistered \in BOOLEAN /\ TestKey \in BOOLEAN
    /\ {MaxPolicies, MaxFaults, MaxChanges} \subseteq Nat

NoRow == [decision |-> "none"]

----------------------------------------------------------------------------
(* What a request names *)

\* What normalization makes of each body.
ValidBodies == {body \in Bodies : Valid(BodyOf[body])}
Prints == [body \in ValidBodies |-> Fingerprint(BodyOf[body])]
ActionOf(body) == Prints[body].action
CorrelationOf(body) == Prints[body].correlation

\* The registered agent with the body's agent key, or None; the session and the parent
\* decision it claims; the row its decision gets.
Named(text, things) ==
    IF \E x \in things : Same(text, Str(<<x>>))
    THEN CHOOSE x \in things : Same(text, Str(<<x>>)) ELSE None
AgentNamed(body) == Named(ActionOf(body).fields["agent"], Agents)
SessionNamed(body) == Named(CorrelationOf(body).session, Sessions)
ParentNamed(body) == Named(CorrelationOf(body).parent, Rows)
RowNamed(body, r) ==
    LET id == Named(Cleaned(Get(BodyOf[body].given, "request_id")), Ids) IN IF id = None THEN r ELSE id

Claims(body, part) == CorrelationOf(body)[part].type # "missing"

\* identityGate: the reason to block before any policy is looked at, or "".
IdentityGate(body) ==
    LET a == AgentNamed(body)
        declared == ActionOf(body).fields["environment"]
    IN  CASE a = None -> IF RequireRegistered THEN "AGENT_UNKNOWN" ELSE ""
          [] a # None /\ agents[a] # "active" -> "AGENT_DISABLED"
          [] a # None /\ agents[a] = "active" ->
                IF declared.type # "missing" /\ ~Same(declared, Str(<<EnvironmentOf[a]>>))
                THEN "AGENT_ENVIRONMENT_MISMATCH"
                ELSE IF TestKey /\ EnvironmentOf[a] = "production"
                     THEN "API_KEY_ENVIRONMENT_MISMATCH" ELSE ""

\* A registered agent's environment replaces the declared one.
Judged(body) ==
    LET a == AgentNamed(body)
    IN  IF a = None THEN ActionOf(body)
        ELSE [ActionOf(body) EXCEPT !.fields["environment"] = Str(<<EnvironmentOf[a]>>)]

\* A string of JSON is finite: what a wildcard pattern and the field it is for are made of.
IsText(x) == x.type = "string" => Len(x.v) \in Nat /\ DOMAIN x.v = 1..Len(x.v)

ASSUME TextAssumption ==
    \A body \in ValidBodies, p \in PolicyUniverse : ValidGroup(p.conditions) =>
        \A i \in DOMAIN p.conditions.conditions :
            LET c == p.conditions.conditions[i]
            IN  IsText(c.value) /\ IsText(ReadField(Judged(body), c.field))

DefaultFor(a) ==
    IF a # None /\ DefaultModeOf[a] # "inherit" THEN DefaultModeOf[a] ELSE DefaultDecision

\* The results of the gate, or of the policy engine with these policies, on what is read.
ResultsUnder(published, body) ==
    IF IdentityGate(body) # "" THEN {Result("block", IdentityGate(body), NoPolicy, {})}
    ELSE Evaluate(Judged(body), AgentNamed(body), published, DefaultFor(AgentNamed(body)))

PolicyResults(body) == ResultsUnder(policies, body)

----------------------------------------------------------------------------
(* Simulation *)

DraftBeside(draft) == policies \cup {draft}   \* mutant: the published version stays in force

\* A draft takes the place of the policy it is a draft of, and counts as enabled and as new.
WithDraft(draft) ==
    LET newest == Max({p.created : p \in policies \cup {draft}}) + 1
    IN  {p \in policies : p.id # draft.id}
            \cup {[draft EXCEPT !.enabled = TRUE, !.created = newest, !.reason_code = ""]}

\* simulatePolicy: who may act is checked, the declared environment and the key are not.
Simulate(body, draft) ==
    LET a == AgentNamed(body)
    IN  CASE a = None /\ RequireRegistered -> {Result("block", "AGENT_UNKNOWN", NoPolicy, {})}
          [] a # None /\ agents[a] # "active" -> {Result("block", "AGENT_DISABLED", NoPolicy, {})}
          [] OTHER -> Evaluate(Judged(body), a, WithDraft(draft), DefaultFor(a))

----------------------------------------------------------------------------
(* Replays *)

AnyFingerprint(body, row) == TRUE   \* mutant: a used request_id is repeated for any action
SameFingerprint(body, row) == Prints[body] = decisions[row].fingerprint

----------------------------------------------------------------------------
(* Runtime context *)

Quarantined(x) == risk[x] = "quarantined"

\* An unregistered agent is no subject.
Bounds(a, s) == ScopeKeys(a, s) \cap Subjects
ScopeQuarantined(a, s) == \E x \in Bounds(a, s) : Quarantined(x)

\* loadRuntimeContext's verdicts on the session and the parent decision.
SessionIsValid(body) ==
    LET s == SessionNamed(body)
    IN  s # None /\ AgentOf[s] = AgentNamed(body) /\ s \notin ended

ParentIsValid(body) ==
    LET p == ParentNamed(body)
    IN  /\ p # None /\ decisions[p] # NoRow
        /\ IF Claims(body, "session")
           THEN SessionIsValid(body) /\ decisions[p].session \in Lineage(SessionNamed(body))
           ELSE decisions[p].session = None /\ decisions[p].agent = AgentNamed(body)

\* correlationGate
CorrelationGate(body) ==
    IF Claims(body, "session") /\ ~SessionIsValid(body) THEN "SESSION_INVALID"
    ELSE IF Claims(body, "parent") /\ ~ParentIsValid(body) THEN "PARENT_INVALID"
    ELSE ""

ValidSession(body) == IF SessionIsValid(body) THEN SessionNamed(body) ELSE None

Rank(decision) == 2 - EffectRank(decision)
MostRestrictive(policy, runtime) == IF Rank(runtime) > Rank(policy) THEN runtime ELSE policy
Effective(mode, policy, runtime) == IF mode = "enforce" THEN MostRestrictive(policy, runtime) ELSE policy

\* Subjects the signals of one evaluation may quarantine: the agent or the session.
Direct(a, s) == {a, s} \ {None}

\* assessEvaluation: [verdict, quarantine]. A contained scope is blocked, whatever its score,
\* and its signals may quarantine a further subject of it.
Assessments(mode, a, s) ==
    {[verdict |-> v, quarantine |-> None] :
        v \in IF ScopeQuarantined(a, s) THEN {"block"}
              ELSE IF mode = "enforce" THEN {"allow", "review"} ELSE Verdicts}
    \cup {[verdict |-> "block", quarantine |-> x] :
             x \in IF mode = "enforce" THEN {y \in Direct(a, s) : ~Quarantined(y)} ELSE {}}

----------------------------------------------------------------------------
(* Invocations *)

(***************************************************************************)
(* "context": the policies have been read, the runtime context comes next. *)
(* "commit", "core": the write batch, and the one without runtime evidence. *)
(* "reread": the unique index refused the row. "recheck": a decision was    *)
(* found, and in enforce mode its scope is looked at before it is repeated. *)
(* `due' is what the policies the request read call for (see Reference), and *)
(* `open' is TRUE if at some moment since the request arrived its scope was  *)
(* not contained in enforce mode: neither is in the code.                   *)
(***************************************************************************)
Idle == [stage |-> "idle"]
Done(q, answer) == [stage |-> "done", body |-> q.body, row |-> q.row, open |-> q.open,
                    answer |-> answer]
Refused == [stage |-> "done", answer |-> "refused"]

InFlight(r) == req[r].stage \notin {"idle", "done"}
Ends(r, answer) == req' = [req EXCEPT ![r] = Done(req[r], answer)]

OpenUnder(o, states, body) ==
    \/ o.mode # "enforce"
    \/ \A x \in Bounds(AgentNamed(body), SessionNamed(body)) : states[x] # "quarantined"

\* The change of `req' when the mode or a risk state changes around the invocations.
Witness(o, states) ==
    req' = [r \in Requests |->
               IF InFlight(r)
               THEN [req[r] EXCEPT !.open = @ \/ OpenUnder(o, states, req[r].body)]
               ELSE req[r]]

Unchanged == UNCHANGED <<org, agents, policies, ended, risk, decisions, faults, changes>>

----------------------------------------------------------------------------
(* What the policies call for, said without the engine's order of evaluation *)

\* A wildcard pattern and a value match if the value can be cut into one part per piece of the
\* pattern: anything for a wildcard, the piece itself for any other.
Matches(pattern, value) ==
    \E cut \in [0..Len(pattern) -> 0..Len(value)] :
        /\ cut[0] = 0 /\ cut[Len(pattern)] = Len(value)
        /\ \A i \in 1..Len(pattern) :
              \/ pattern[i] = "*" /\ cut[i - 1] <= cut[i]
              \/ cut[i] = cut[i - 1] + 1 /\ pattern[i] = value[cut[i]]

Truth(action, c) ==
    IF c.operator = "glob"
    THEN LET actual == ReadField(action, c.field) IN
         IF actual.type = "string" /\ Matches(CanonicalValue(c).v, actual.v) THEN "true" ELSE "false"
    ELSE EvaluateCondition(action, c)

\* A policy may hold, or must hold, whatever the values of its indeterminate conditions.
Outcomes(action, g) ==
    {(IF g.match = "all" THEN \A i \in DOMAIN g.conditions : t[i]
      ELSE \E i \in DOMAIN g.conditions : t[i]) :
        t \in {u \in [DOMAIN g.conditions -> BOOLEAN] :
                  \A i \in DOMAIN g.conditions :
                      LET truth == Truth(action, g.conditions[i])
                      IN  truth # "indeterminate" => (u[i] <=> truth = "true")}}
MayHold(action, p) == TRUE \in Outcomes(action, p.conditions)
MustHold(action, p) == FALSE \notin Outcomes(action, p.conditions)

\* An agent acts only in the environment it is registered for, and not in production with a
\* test key.
OutOfPlace(a, declared) ==
    \/ declared.type # "missing" /\ ~Same(declared, Str(<<EnvironmentOf[a]>>))
    \/ TestKey /\ EnvironmentOf[a] = "production"

Reference(body) ==
    LET a == AgentNamed(body)
        bearing == {p \in policies : p.enabled /\ (p.scope = "organization" \/ a \in p.agents)}
    IN  IF \/ a = None /\ RequireRegistered
           \/ a # None /\ agents[a] = "disabled"
           \/ a # None /\ OutOfPlace(a, ActionOf(body).fields["environment"])
           \/ \E p \in bearing : ~WellFormed(p)
           \/ \E p \in bearing : p.effect = "block" /\ MayHold(Judged(body), p)
        THEN "block"
        ELSE IF \E p \in bearing : p.effect = "review" /\ MayHold(Judged(body), p) THEN "review"
        ELSE IF \E p \in bearing : p.effect = "allow" /\ MustHold(Judged(body), p) THEN "allow"
        ELSE DefaultFor(a)
----------------------------------------------------------------------------
Init ==
    /\ org \in [mode : Modes, usable : {TRUE}]
    /\ agents = [a \in Agents |-> "active"]
    /\ policies \in {ps \in SUBSET PolicyUniverse : Cardinality(ps) <= MaxPolicies}
    /\ ended = {}
    /\ risk = [x \in Subjects |-> "normal"]
    /\ decisions = [row \in Rows |-> NoRow]
    /\ req = [r \in Requests |-> Idle]
    /\ faults = 0 /\ changes = 0

FoundAsRecorded(r, q) ==   \* mutant: a replay is answered without looking at its scope again
    req' = [req EXCEPT ![r] = Done(q, IF SameFingerprint(q.body, q.row)
                                      THEN decisions[q.row].decision ELSE "refused")]

\* What is done with a decision that exists: refused for another action, looked at again in
\* enforce mode, else repeated.
Found(r, q) ==
    IF ~SameFingerprint(q.body, q.row) THEN req' = [req EXCEPT ![r] = Done(q, "refused")]
    ELSE IF q.mode = "enforce" THEN req' = [req EXCEPT ![r] = [q EXCEPT !.stage = "recheck"]]
    ELSE req' = [req EXCEPT ![r] = Done(q, decisions[q.row].decision)]

(***************************************************************************)
(* The first batch: key, settings, agent, policies and the decision of the *)
(* same request_id. An invalid body or an unusable key ends the request.    *)
(***************************************************************************)
Receive(r) ==
    /\ req[r] = Idle
    /\ \E body \in Bodies :
        LET q == [stage |-> "context", body |-> body, row |-> RowNamed(body, r), mode |-> org.mode,
                  open |-> OpenUnder(org, risk, body)]
        IN  IF body \notin ValidBodies \/ ~org.usable THEN req' = [req EXCEPT ![r] = Refused]
            ELSE IF decisions[q.row] # NoRow THEN Found(r, q)
            ELSE \E result \in PolicyResults(body) :
                    req' = [req EXCEPT ![r] =
                               [stage |-> "context", body |-> body, row |-> q.row, mode |-> q.mode,
                                open |-> q.open, result |-> result.decision, due |-> Reference(body)]]
    /\ Unchanged

NeedsContext(q) == q.mode # "off" \/ Correlated(CorrelationOf(q.body))

\* The decision as it will be recorded, and what the batch brings with it.
Planned(q, result, session, assessment, evidence, lease) ==
    [stage |-> "commit", body |-> q.body, row |-> q.row, mode |-> q.mode, open |-> q.open,
     due |-> q.due, decision |-> Effective(q.mode, result, assessment.verdict),
     policy |-> result, session |-> session, quarantine |-> assessment.quarantine,
     evidence |-> evidence, lease |-> lease]

NoAssessment == [verdict |-> "allow", quarantine |-> None]

(***************************************************************************)
(* The runtime context: correlation, risk state, assessment. What the       *)
(* identity gate refused is a block already.                               *)
(***************************************************************************)
LoadContext(r) ==
    /\ req[r].stage = "context"
    /\ NeedsContext(req[r])
    /\ LET q == req[r]
           s == ValidSession(q.body)
           a == AgentNamed(q.body)
           result == IF CorrelationGate(q.body) # "" THEN "block" ELSE q.result
       IN  \E assessment \in IF q.mode = "off" THEN {NoAssessment} ELSE Assessments(q.mode, a, s) :
               req' = [req EXCEPT ![r] =
                          Planned(q, result, s, assessment, q.mode # "off",
                                  /\ Claims(q.body, "lease") /\ s # None
                                  /\ Effective(q.mode, result, assessment.verdict) = "allow")]
    /\ Unchanged

\* Without runtime protection there is nothing to load. In monitor mode a request without
\* correlation goes on when the context cannot be loaded; any other is refused (Fail).
SkipContext(r) ==
    /\ req[r].stage = "context"
    /\ LET q == req[r] IN
       /\ ~Correlated(CorrelationOf(q.body))
       /\ \/ q.mode = "off" /\ UNCHANGED faults
          \/ q.mode = "monitor" /\ faults < MaxFaults /\ faults' = faults + 1
       /\ req' = [req EXCEPT ![r] = Planned(q, q.result, None, NoAssessment, FALSE, FALSE)]
    /\ UNCHANGED <<org, agents, policies, ended, risk, decisions, changes>>

----------------------------------------------------------------------------
(* Durable evidence *)

\* The rows of a batch: the decision, its risk_evaluations row, its approval and its lease.
Recorded(q, evidence, approval, lease) ==
    [decision |-> q.decision, fingerprint |-> Prints[q.body], agent |-> AgentNamed(q.body),
     session |-> q.session, mode |-> q.mode, due |-> q.due, evidence |-> evidence,
     approval |-> approval, lease |-> lease]

FullBatch(q) ==
    /\ decisions' = [decisions EXCEPT ![q.row] =
                        Recorded(q, q.evidence, q.decision = "review", q.lease)]
    /\ risk' = IF q.quarantine = None THEN risk
               ELSE [risk EXCEPT ![q.quarantine] = "quarantined"]

UniqueViolation(q) == decisions[q.row] # NoRow

Reads(q) == [stage |-> "reread", body |-> q.body, row |-> q.row, mode |-> q.mode, open |-> q.open]

\* What a unique violation leads to: only a request with a request_id reads again.
Lost(r) ==
    /\ IF req[r].row \in Ids THEN req' = [req EXCEPT ![r] = Reads(req[r])] ELSE Ends(r, "refused")
    /\ Unchanged

Commit(r) ==
    /\ req[r].stage = "commit"
    /\ ~UniqueViolation(req[r])
    /\ FullBatch(req[r])
    /\ Ends(r, req[r].decision)
    /\ UNCHANGED <<org, agents, policies, ended, faults, changes>>

CommitLoses(r) ==
    /\ req[r].stage \in {"commit", "core"}
    /\ UniqueViolation(req[r])
    /\ Lost(r)

FallsBackInEnforce(q) == q.mode # "off" /\ q.evidence /\ ~Claims(q.body, "lease")   \* mutant

\* The decision may be recorded without its evidence: in monitor mode, and without a lease.
FallsBack(q) == q.mode = "monitor" /\ q.evidence /\ ~Claims(q.body, "lease")

\* The batch fails, or commits and its reply is lost: the handler cannot tell.
CommitFails(r) ==
    /\ req[r].stage = "commit"
    /\ ~UniqueViolation(req[r])
    /\ faults < MaxFaults
    /\ faults' = faults + 1
    /\ FullBatch(req[r]) \/ UNCHANGED <<decisions, risk>>
    /\ IF FallsBack(req[r]) THEN req' = [req EXCEPT ![r].stage = "core"] ELSE Ends(r, "refused")
    /\ UNCHANGED <<org, agents, policies, ended, changes>>

DecisionOnly(q) ==   \* mutant: the approval is left to the full batch
    decisions' = [decisions EXCEPT ![q.row] = Recorded(q, FALSE, FALSE, FALSE)]

\* The core batch has the decision and its approval.
CoreBatch(q) ==
    decisions' = [decisions EXCEPT ![q.row] = Recorded(q, FALSE, q.decision = "review", FALSE)]

CommitCore(r) ==
    /\ req[r].stage = "core"
    /\ ~UniqueViolation(req[r])
    /\ CoreBatch(req[r])
    /\ Ends(r, req[r].decision)
    /\ UNCHANGED <<org, agents, policies, ended, risk, faults, changes>>

----------------------------------------------------------------------------
(* Replay *)

Reread(r) ==
    /\ req[r].stage = "reread"
    /\ Found(r, req[r])
    /\ Unchanged

\* replayContainment: the scope of the recorded decision, as it is now.
Recheck(r) ==
    /\ req[r].stage = "recheck"
    /\ LET row == decisions[req[r].row] IN
       Ends(r, IF ScopeQuarantined(row.agent, row.session) THEN "block" ELSE row.decision)
    /\ Unchanged

\* A read fails where the handler fails closed, a second write fails, or the invocation ends:
\* the client has no decision.
Fail(r) ==
    /\ InFlight(r)
    /\ faults < MaxFaults
    /\ faults' = faults + 1
    /\ Ends(r, "refused")
    /\ UNCHANGED <<org, agents, policies, ended, risk, decisions, changes>>

----------------------------------------------------------------------------
(* The organization changes around the requests *)

Changes == changes < MaxChanges /\ changes' = changes + 1

\* organizations_enforce_sticky aborts leaving enforce during a quarantine.
MayLeaveEnforce == \A x \in Subjects : ~Quarantined(x)

ChangeMode ==
    /\ Changes
    /\ \E mode \in Modes \ {org.mode} :
        /\ org.mode = "enforce" => MayLeaveEnforce
        /\ org' = [org EXCEPT !.mode = mode]
        /\ Witness([org EXCEPT !.mode = mode], risk)
    /\ UNCHANGED <<agents, policies, ended, risk, decisions, faults>>

RevokeKey ==
    /\ Changes
    /\ org' = [org EXCEPT !.usable = FALSE]
    /\ UNCHANGED <<agents, policies, ended, risk, decisions, req, faults>>

ChangePolicies ==
    /\ Changes
    /\ \E p \in PolicyUniverse :
        /\ policies' = IF p \in policies THEN policies \ {p} ELSE policies \cup {p}
        /\ Cardinality(policies') <= MaxPolicies
    /\ UNCHANGED <<org, agents, ended, risk, decisions, req, faults>>

SetAgentStatus ==
    /\ Changes
    /\ \E a \in Agents, status \in {"active", "disabled"} : agents' = [agents EXCEPT ![a] = status]
    /\ UNCHANGED <<org, policies, ended, risk, decisions, req, faults>>

EndSession ==
    /\ Changes
    /\ \E s \in Sessions \ ended : ended' = ended \cup {s}
    /\ UNCHANGED <<org, agents, policies, risk, decisions, req, faults>>

\* A member, or the signals of another endpoint, quarantine a subject; a member clears one.
QuarantineSubject ==
    /\ Changes
    /\ org.mode = "enforce"
    /\ \E x \in Subjects : risk' = [risk EXCEPT ![x] = "quarantined"]
    /\ UNCHANGED <<org, agents, policies, ended, decisions, req, faults>>

ClearSubject ==
    /\ Changes
    /\ \E x \in Subjects :
        /\ Quarantined(x)
        /\ risk' = [risk EXCEPT ![x] = "normal"]
        /\ Witness(org, [risk EXCEPT ![x] = "normal"])
    /\ UNCHANGED <<org, agents, policies, ended, decisions, faults>>

\* Bound: every request has been answered.
AllDone == (\A r \in Requests : req[r].stage = "done") /\ UNCHANGED vars

Next ==
    \/ \E r \in Requests :
        \/ Receive(r) \/ LoadContext(r) \/ SkipContext(r)
        \/ Commit(r) \/ CommitLoses(r) \/ CommitFails(r) \/ CommitCore(r)
        \/ Reread(r) \/ Recheck(r) \/ Fail(r)
    \/ ChangeMode \/ RevokeKey \/ ChangePolicies \/ SetAgentStatus \/ EndSession
    \/ QuarantineSubject \/ ClearSubject \/ AllDone

Spec == Init /\ [][Next]_vars

----------------------------------------------------------------------------
(* Safety *)

Fingerprints == {Prints[body] : body \in ValidBodies}

DecisionRow == [decision : Verdicts, fingerprint : Fingerprints,
                agent : Agents \cup {None}, session : Sessions \cup {None}, mode : Modes,
                due : Verdicts, evidence : BOOLEAN, approval : BOOLEAN, lease : BOOLEAN]

Invocation ==
    {Idle, Refused}
    \cup [stage : {"done"}, body : ValidBodies, row : Rows, open : BOOLEAN,
          answer : Verdicts \cup {"refused"}]
    \cup [stage : {"context"}, body : ValidBodies, row : Rows, mode : Modes, open : BOOLEAN,
          result : Verdicts, due : Verdicts]
    \cup {q \in [stage : {"commit", "core"}, body : ValidBodies, row : Rows, mode : Modes,
                 open : BOOLEAN, due : Verdicts, decision : Verdicts, policy : Verdicts,
                 session : Sessions \cup {None}, quarantine : Subjects \cup {None},
                 evidence : BOOLEAN, lease : BOOLEAN] :
             /\ q.stage = "core" => q.mode = "monitor"
             /\ q.quarantine # None => q.mode = "enforce"}
    \cup [stage : {"reread"}, body : ValidBodies, row : Ids, mode : Modes, open : BOOLEAN]
    \cup [stage : {"recheck"}, body : ValidBodies, row : Ids, mode : {"enforce"}, open : BOOLEAN]

\* Type invariant: the columns of the tables and what the invocations hold. A quarantine is
\* only written in enforce mode, the core batch only in monitor mode, and only a request with
\* a request_id looks for an earlier decision.
TypeOK ==
    /\ org \in [mode : Modes, usable : BOOLEAN]
    /\ agents \in [Agents -> {"active", "disabled"}]
    /\ policies \subseteq PolicyUniverse
    /\ ended \subseteq Sessions
    /\ risk \in [Subjects -> {"normal", "quarantined"}]
    /\ decisions \in [Rows -> {NoRow} \cup DecisionRow]
    /\ req \in [Requests -> Invocation]
    /\ faults \in Nat /\ changes \in Nat

(***************************************************************************)
(* Nobody is told to go on with an action whose scope has been contained,  *)
(* in enforce mode, ever since the request arrived: not by an evaluation,   *)
(* and not by repeating a decision of before the quarantine, found at once  *)
(* or found after losing the race for the request_id. (evaluate.ts:151, 370) *)
(***************************************************************************)
NoAllowInContainedScope ==
    \A r \in Requests : req[r].stage = "done" /\ req[r].answer \in {"allow", "review"} => req[r].open

(***************************************************************************)
(* A decision is never weaker than what the policies it was made from call *)
(* for, and without enforcement it is exactly that: no order of policies,   *)
(* letter case, wildcard, missing value, malformed policy or runtime        *)
(* verdict relaxes it, and monitor mode does not change it, whatever fails. *)
(***************************************************************************)
PolicyIsUpheld ==
    \A row \in Rows : decisions[row] # NoRow =>
        LET d == decisions[row] IN
        /\ Rank(d.decision) >= Rank(d.due)
        /\ d.mode # "enforce" /\ ~Correlated(d.fingerprint.correlation) => d.decision = d.due

\* A decision made under enforcement is recorded with its runtime evidence, although the same
\* batch may be recorded without it in monitor mode. (evaluate.ts:355)
EnforcedDecisionsHaveEvidence ==
    \A row \in Rows :
        decisions[row] # NoRow /\ decisions[row].mode = "enforce" => decisions[row].evidence

(***************************************************************************)
(* The authority recorded with a decision is the decision's: an approval to *)
(* ask for exactly with a review, on both write paths, and a lease only     *)
(* with an allow, for the agent of the session it was claimed in.          *)
(***************************************************************************)
AuthorityMatchesDecision ==
    \A row \in Rows : decisions[row] # NoRow =>
        LET d == decisions[row] IN
        /\ d.approval <=> d.decision = "review"
        /\ d.lease => d.decision = "allow" /\ d.session # None /\ AgentOf[d.session] = d.agent

(***************************************************************************)
(* What the policy editor's test says of a draft is what the gateway will   *)
(* decide once the draft is saved, with all the other policies, for every   *)
(* request whose declared environment and key the gateway would let through: *)
(* no version that is about to be replaced has a say. (policies.ts:301)      *)
(***************************************************************************)
SimulationForetells ==
    (\A r \in Requests : req[r] = Idle) =>
        \A body \in ValidBodies, p \in PolicyUniverse, effect \in Verdicts :
            LET draft == [p EXCEPT !.effect = effect]
                saved == {q \in policies : q.id # p.id} \cup {draft}
            IN  ValidGroup(draft.conditions)
                    /\ IdentityGate(body) \in {"", "AGENT_UNKNOWN", "AGENT_DISABLED"}
                => {x.decision : x \in Simulate(body, draft)}
                       = {x.decision : x \in ResultsUnder(saved, body)}

(***************************************************************************)
(* The abstract specification: an append-only log of one decision per      *)
(* request_id, and clients told only what is in it, for the action they     *)
(* asked about, or to stop. A block, or an error, needs no row.             *)
(***************************************************************************)
Entry(d) == IF d = NoRow THEN NoRow ELSE [decision |-> d.decision, content |-> d.fingerprint]

Said(q) ==
    IF q.stage # "done" THEN [answer |-> "waiting"]
    ELSE IF q.answer \in {"allow", "review"}
    THEN [answer |-> q.answer, key |-> q.row, content |-> Prints[q.body]]
    ELSE [answer |-> "stop"]

Entries == [row \in Rows |-> Entry(decisions[row])]
Answers == [r \in Requests |-> Said(req[r])]

Log == INSTANCE DecisionLog
       WITH Clients <- Requests, Keys <- Rows, Contents <- Fingerprints,
            log <- Entries, told <- Answers

ImplementsDecisionLog == Log!Spec
=============================================================================
