----------------------------- MODULE RiskEngine -----------------------------
(***************************************************************************)
(* The runtime risk of one agent, one session of it and the API key they    *)
(* use: what one evaluation, or one report of an execution, makes of the    *)
(* risk rows it read (runtime/engine.ts, planSubjects of runtime/gateway.ts) *)
(* and the batch that writes it (runtime/store.ts), when several of them     *)
(* and the members' actions interleave. A handler reads everything in one   *)
(* batch, computes, and writes in one batch; nothing is locked in between.   *)
(*                                                                         *)
(* Time is counted in half hours.                                          *)
(***************************************************************************)
EXTENDS Integers, FiniteSets, FiniteSetsExt, Functions

CONSTANTS Agent, Session, Key, None,
          Requests,    \* invocations, each serving one request
          Facts,       \* EvaluationFacts of the evaluations that clients cause
          Reports,     \* what clients say and are refused at the other endpoints
          MaxTime,     \* bound: half hours that pass
          MaxChanges   \* bound: changes that members make

VARIABLES mode,      \* organizations.runtime_protection
          subject,   \* risk_subjects
          signals,   \* risk_signals
          last,      \* the latest risk_transitions row of each subject
          req,       \* the invocations
          now, changes

vars == <<mode, subject, signals, last, req, now, changes>>

Subjects == {Agent, Session, Key}
Modes == {"off", "monitor", "enforce"}
States == {"normal", "elevated", "review_required", "quarantined", "contained", "cleared"}

\* SIGNAL_RULES
Behavioral(points, window) == [hard |-> FALSE, points |-> points, window |-> window]
Hard == [hard |-> TRUE, points |-> 100, window |-> 48]
SignalRules ==
    [AGENT_DISABLED_ATTEMPT         |-> Behavioral(30, 2),
     UNKNOWN_AGENT_PROBING          |-> Behavioral(30, 2),
     REPEATED_BLOCK                 |-> Behavioral(20, 2),
     USE_AFTER_EXPIRY_OR_REVOCATION |-> Behavioral(40, 2),
     UNEXPECTED_MCP_TOOL            |-> Behavioral(25, 2),
     CAPABILITY_ESCALATION          |-> Behavioral(25, 2),
     UNUSUAL_DESTINATION            |-> Behavioral(20, 2),
     HIGH_VELOCITY                  |-> Behavioral(20, 1),
     SENSITIVE_DATA_ESCALATION      |-> Behavioral(25, 2),
     CHILD_SESSION_FANOUT           |-> Behavioral(25, 2),
     SESSION_OR_PARENT_INVALID      |-> Behavioral(50, 2),
     CONTINUATION_AFTER_QUARANTINE  |-> Behavioral(0, 2),
     CROSS_TENANT_REFERENCE         |-> Hard,
     EXECUTED_WITHOUT_AUTHORIZATION |-> Hard]
Codes == DOMAIN SignalRules

ASSUME RiskAssumption ==
    /\ Agent # Session /\ Agent # Key /\ Session # Key /\ None \notin Subjects
    /\ \A f \in Facts : f.agent \in {Agent, None} /\ f.session \in {Session, None}
    /\ \A f \in Reports : f.agent \in {Agent, None} /\ f.session \in {Session, None}
    /\ \A f \in Reports :
          \/ f.about \in {"elsewhere", "execution", "lease", "approval"}
          \/ f.about = "session" /\ f.refusal \in {"parent_unknown", "quarantined", "opened_too_many"}
    /\ {MaxTime, MaxChanges} \subseteq Nat

----------------------------------------------------------------------------
(* States and scores *)

Contained(state) == state \in {"quarantined", "contained"}

Severity(state) ==
    CASE state \in {"normal", "cleared"} -> 0
      [] state = "elevated" -> 1
      [] state = "review_required" -> 2
      [] Contained(state) -> 3

UntilVerified(state) ==   \* mutant: a verified containment no longer blocks
    IF state = "quarantined" THEN "block"
    ELSE IF state = "review_required" THEN "review" ELSE "allow"
VerdictForState(state) ==
    IF Contained(state) THEN "block" ELSE IF state = "review_required" THEN "review" ELSE "allow"

StateForScore(score) ==
    IF score >= 80 THEN "quarantined"
    ELSE IF score >= 50 THEN "review_required"
    ELSE IF score >= 25 THEN "elevated" ELSE "normal"

----------------------------------------------------------------------------
(* Detection *)

New(x, code, key) == [subject |-> x, code |-> code, key |-> key]
When(condition, found) == IF condition THEN found ELSE {}

\* detectEvaluationSignals: behavioral signals go to the session and the agent.
Detect(f, inQuarantinedScope) ==
    LET both(code, key) == {New(x, code, key) : x \in {f.agent, f.session} \ {None}}
        known == f.agent # None /\ f.gate = "none"
    IN  When(f.correlation # "none",
             {New(IF f.agent # None THEN f.agent ELSE Key,
                  IF f.correlation = "cross_tenant" THEN "CROSS_TENANT_REFERENCE"
                  ELSE "SESSION_OR_PARENT_INVALID", "claimed")})
        \cup When(f.gate = "AGENT_DISABLED" /\ f.agent # None,
                  {New(f.agent, "AGENT_DISABLED_ATTEMPT", "disabled")})
        \cup When(f.gate = "AGENT_UNKNOWN" /\ f.unknown >= 3,
                  {New(Key, "UNKNOWN_AGENT_PROBING", "probing")})
        \cup When(inQuarantinedScope, both("CONTINUATION_AFTER_QUARANTINE", "action"))
        \cup When(f.blocks >= 3, both("REPEATED_BLOCK", "3"))
        \cup When(f.blocks >= 10, both("REPEATED_BLOCK", "10"))
        \cup When(known /\ f.newTool, both("UNEXPECTED_MCP_TOOL", "tool"))
        \cup When(known /\ f.newOperation, both("CAPABILITY_ESCALATION", "action"))
        \cup When(known /\ f.newDestination, both("UNUSUAL_DESTINATION", "destination"))
        \cup When(f.session # None /\ f.requests > 60, {New(f.session, "HIGH_VELOCITY", "requests")})
        \cup When(f.session # None /\ f.resources > 25, {New(f.session, "HIGH_VELOCITY", "resources")})
        \cup When(f.session # None /\ f.dataRank >= 2 /\ f.dataRank > f.dataRankBefore,
                  both("SENSITIVE_DATA_ESCALATION", "data"))

\* The subjects a request writes about: the API key, its agent and its session.
Direct(f) == {Key, f.agent, f.session} \ {None}

\* reportEvent: the integration says that it did what it had not been allowed to do.
Unauthorized(f) ==
    /\ f.outcome = "succeeded"
    /\ f.decision = "block" \/ (f.decision = "review" /\ ~f.consumed)

ExecutionSignal(f) == IF Unauthorized(f) THEN {"EXECUTED_WITHOUT_AUTHORIZATION"} ELSE {}

\* LEASE_SIGNAL: most refusals of a lease say nothing about who asked.
LeaseSignal(refusal) ==
    CASE refusal \in {"LEASE_REVOKED", "LEASE_EXPIRED", "LEASE_EXHAUSTED", "LEASE_INVALIDATED"} ->
            {"USE_AFTER_EXPIRY_OR_REVOCATION"}
      [] refusal = "LEASE_QUARANTINED" -> {"CONTINUATION_AFTER_QUARANTINE"}
      [] OTHER -> {}

\* approvalContainmentRefusal and recordConsumeRefusal.
ConsumeSignal(refusal) ==
    IF refusal = "APPROVAL_QUARANTINED" THEN {"CONTINUATION_AFTER_QUARANTINE"}
    ELSE {"USE_AFTER_EXPIRY_OR_REVOCATION"}

\* openSession, whose signals about a fan-out come with the session that it opens.
OpenSignal(answer) ==
    CASE answer = "parent_unknown" -> {"SESSION_OR_PARENT_INVALID"}
      [] answer = "quarantined" -> {"CONTINUATION_AFTER_QUARANTINE"}
      [] answer = "opened_too_many" -> {"CHILD_SESSION_FANOUT"}

\* A decision, a lease or a session of another organization, whatever the endpoint.
RaisedBy(f) ==
    CASE f.about = "elsewhere" -> {"CROSS_TENANT_REFERENCE"}
      [] f.about = "execution" -> ExecutionSignal(f)
      [] f.about = "lease" -> LeaseSignal(f.refusal)
      [] f.about = "approval" -> ConsumeSignal(f.refusal)
      [] f.about = "session" -> OpenSignal(f.refusal)

\* A refused lease that raises nothing is only recorded: no risk is looked at.
AppliesSignals(f) == f.about = "lease" => RaisedBy(f) # {}

\* applyRuntimeSignals: to the agent and the session; to the key if there is neither.
Reported(f) ==
    {New(x, code, f.key) : x \in IF Direct(f) = {Key} THEN {Key} ELSE Direct(f) \ {Key},
                           code \in RaisedBy(f)}

----------------------------------------------------------------------------
(* Assessment *)

Expiry(s) == s.at + SignalRules[s.code].window
CountingSignals(x) ==
    {s \in signals : s.subject = x /\ Expiry(s) > now /\ s.at >= subject[x].since}

Seen(new, counting) ==
    \E s \in counting : s.subject = new.subject /\ s.code = new.code /\ s.key = new.key

DedupeSignals(detected, counting) == {new \in detected : ~Seen(new, counting)}

Points(S) == MapThenSumSet(LAMBDA s : SignalRules[s.code].points, S)

Incremental(x, mine) == subject[x].score + Points(mine)   \* mutant: the stored score goes on
Score(x, mine) == Points(CountingSignals(x)) + Points(mine)

EverySubject(x) == TRUE   \* mutant: an API key can be quarantined
Quarantinable(x) == x # Key

\* The state that a hard signal or the score calls for. An API key is never quarantined.
WouldBe(x, score, hard) ==
    IF Quarantinable(x) /\ hard THEN "quarantined"
    ELSE IF ~Quarantinable(x) /\ StateForScore(score) = "quarantined" THEN "review_required"
    ELSE StateForScore(score)

\* The next state: monitor mode stops at a review, and what was cleared does not become normal.
Reached(m, current, would) ==
    IF would = "quarantined" /\ m = "monitor" THEN "review_required"
    ELSE IF current = "cleared" /\ would = "normal" THEN "cleared" ELSE would

Cause(current, next, hard) ==
    IF next = current THEN "none"
    ELSE IF next = "quarantined" THEN IF hard THEN "hard_signal_quarantine" ELSE "score_quarantine"
    ELSE IF Severity(next) < Severity(current) THEN "decay" ELSE "signals"

\* assessSubject: [state, would, cause, score] for the subject x, given the new signals that
\* are its own.
AssessSubject(m, x, mine) ==
    LET current == subject[x].state
        score == Score(x, mine)
        hard == \E s \in mine : SignalRules[s.code].hard
        would == WouldBe(x, score, hard)
        next == Reached(m, current, would)
    IN  IF Contained(current)
        THEN [state |-> current, would |-> current, cause |-> "none", score |-> score]
        ELSE [state |-> next, would |-> would, cause |-> Cause(current, next, hard), score |-> score]

Candidates(assessments) ==
    {x \in DOMAIN assessments \ {Key} :
        assessments[x].state = "quarantined" /\ assessments[x].cause # "none"}

\* At most one subject of a request is quarantined; an agent covers its sessions.
Target(candidates) ==
    IF candidates = {} THEN None ELSE IF Agent \in candidates THEN Agent ELSE Session

\* The other candidate is held at review_required.
Outranked(x, assessment) ==
    [state |-> "review_required", would |-> assessment.would, score |-> assessment.score,
     cause |-> IF subject[x].state = "review_required" THEN "none" ELSE "signals"]

\* The runtime verdict: of the worst state; in monitor mode, of what would have been.
Verdict(m, assessments) ==
    LET after == {IF m = "monitor" THEN a.would ELSE a.state : a \in Range(assessments)}
    IN  VerdictForState(CHOOSE s \in after : \A t \in after : Severity(t) <= Severity(s))

\* The rows that are written: those that change, or have new signals.
Writes(assessments, target, new) ==
    [x \in {y \in DOMAIN assessments \ {target} :
               assessments[y].cause # "none" \/ \E s \in new : s.subject = y} |->
        [state |-> assessments[x].state, score |-> assessments[x].score,
         cause |-> assessments[x].cause, version |-> subject[x].version]]

PlanFor(m, new, assessments, target) ==
    [new |-> new, target |-> target, verdict |-> Verdict(m, assessments),
     score |-> [x \in DOMAIN assessments |-> assessments[x].score],
     write |-> Writes(assessments, target, new)]

\* planSubjects: who of those who could be is quarantined, the others being held at a review.
Choose(m, new, first) ==
    LET candidates == IF m = "enforce" THEN Candidates(first) ELSE {}
        target == Target(candidates)
    IN  PlanFor(m, new, [x \in DOMAIN first |-> IF x \in candidates \ {target}
                                                THEN Outranked(x, first[x]) ELSE first[x]], target)

PlanWith(m, direct, new) ==
    Choose(m, new, [x \in direct |-> AssessSubject(m, x, {s \in new : s.subject = x})])

\* planSubjects and assessEvaluation: the new signals, the assessments, the subject to
\* quarantine and the runtime verdict.
Plan(m, direct, detected) ==
    PlanWith(m, direct, DedupeSignals(detected, UNION {CountingSignals(x) : x \in direct}))

----------------------------------------------------------------------------
(* Invocations *)

Idle == [stage |-> "idle"]
Done == [stage |-> "done"]

\* Two fields are not in the code. `alone': no other write was made since the handler read.
\* `lifted': the subjects whose quarantine a clearance has lifted since.
Planned(m, plan) ==
    [stage |-> "commit", mode |-> m, at |-> now, plan |-> plan, alone |-> TRUE, lifted |-> {}]

\* Another write, which may have cleared subjects, meets the plans that are under way.
Overtaken(cleared) ==
    [r \in Requests |-> IF req[r].stage = "commit"
                        THEN [req[r] EXCEPT !.alone = FALSE, !.lifted = @ \cup cleared] ELSE req[r]]

Init ==
    /\ mode \in Modes
    /\ subject = [x \in Subjects |-> [state |-> "normal", score |-> 0, since |-> 0, version |-> 0]]
    /\ signals = {}
    /\ last = [x \in Subjects |-> [to |-> "normal", cause |-> "none"]]
    /\ req = [r \in Requests |-> Idle]
    /\ now = 0 /\ changes = 0

\* loadRuntimeContext and assessEvaluation.
Assess(r) ==
    /\ req[r] = Idle
    /\ mode # "off"
    /\ \E f \in Facts :
        LET held == mode = "enforce" /\ \E x \in Direct(f) : Contained(subject[x].state) IN
        req' = [req EXCEPT ![r] = Planned(mode, Plan(mode, Direct(f), Detect(f, held)))]
    /\ UNCHANGED <<mode, subject, signals, last, now, changes>>

\* A refusal, a report or the opening of a session raises signals of its own.
Report(r) ==
    /\ req[r] = Idle
    /\ mode # "off"
    /\ \E f \in {g \in Reports : AppliesSignals(g)} :
        req' = [req EXCEPT ![r] = Planned(mode, Plan(mode, Direct(f), Reported(f)))]
    /\ UNCHANGED <<mode, subject, signals, last, now, changes>>

NotHeld(row, write) == ~Contained(row.state)   \* mutant: the version of the row is not looked at
\* subjectUpsertStatement's WHERE clause; version 0 stands for no row.
Writable(row, write) == row.version = write.version /\ ~Contained(row.state)

\* quarantineStatements' upsert.
Quarantines(x) == x # None /\ ~Contained(subject[x].state)

\* The rows of the subjects after the batch of a plan, whose quarantine comes last.
Written(q) ==
    [x \in Subjects |->
        IF x \in DOMAIN q.plan.write /\ Writable(subject[x], q.plan.write[x])
        THEN [state |-> q.plan.write[x].state, score |-> q.plan.write[x].score,
              since |-> subject[x].since, version |-> subject[x].version + 1]
        ELSE IF x = q.plan.target /\ Quarantines(x)
        THEN [state |-> "quarantined", score |-> q.plan.score[x], since |-> subject[x].since,
              version |-> subject[x].version + 1]
        ELSE subject[x]]

Attempted(x, q) ==   \* mutant: the transition is recorded whether or not the row was written
    x \in DOMAIN q.plan.write /\ q.plan.write[x].cause # "none"

\* transitionIfChangedStatement: only after an update that took effect.
Changed(x, q) ==
    /\ x \in DOMAIN q.plan.write /\ Writable(subject[x], q.plan.write[x])
    /\ q.plan.write[x].cause # "none"

Transitions(q) ==
    [x \in Subjects |->
        IF Changed(x, q) THEN [to |-> q.plan.write[x].state, cause |-> q.plan.write[x].cause]
        ELSE IF x = q.plan.target /\ Quarantines(x)
        THEN [to |-> "quarantined",
              cause |-> IF \E s \in q.plan.new : s.subject = x /\ SignalRules[s.code].hard
                        THEN "hard_signal_quarantine" ELSE "score_quarantine"]
        ELSE last[x]]

\* signalStatements: no unique index stops a signal that another handler inserted meanwhile.
Inserted(r) ==
    {[subject |-> s.subject, code |-> s.code, key |-> s.key, at |-> req[r].at, by |-> r] :
        s \in req[r].plan.new}

Commit(r) ==
    /\ req[r].stage = "commit"
    /\ signals' = signals \cup Inserted(r)
    /\ subject' = Written(req[r])
    /\ last' = Transitions(req[r])
    /\ req' = [Overtaken({}) EXCEPT ![r] = Done]
    /\ UNCHANGED <<mode, now, changes>>

\* The batch fails, or the invocation ends: nothing of it is written.
Fail(r) ==
    /\ req[r].stage = "commit"
    /\ req' = [req EXCEPT ![r] = Done]
    /\ UNCHANGED <<mode, subject, signals, last, now, changes>>

----------------------------------------------------------------------------
(* Members, the clock *)

Changes == changes < MaxChanges /\ changes' = changes + 1

Move(x, row, cause) ==
    /\ subject' = [subject EXCEPT ![x] = row]
    /\ last' = [last EXCEPT ![x] = [to |-> row.state, cause |-> cause]]
    /\ req' = Overtaken(IF row.state = "cleared" THEN {x} ELSE {})
    /\ UNCHANGED <<mode, signals, now>>

\* The row of a subject that a member's action has contained.
Into(x, state) == [state |-> state, score |-> subject[x].score, since |-> subject[x].since,
                   version |-> subject[x].version + 1]

\* A member quarantines an agent or a session.
ManualQuarantine ==
    /\ Changes
    /\ mode = "enforce"
    /\ \E x \in {Agent, Session} :
        /\ Quarantines(x)
        /\ Move(x, Into(x, "quarantined"), "manual_quarantine")

\* verifyContainment of a scope without authority left.
CompleteContainment ==
    /\ Changes
    /\ \E x \in {Agent, Session} :
        /\ subject[x].state = "quarantined"
        /\ Move(x, Into(x, "contained"), "containment_completed")

SignalsGoOn(x) ==   \* mutant: the signals that quarantined a subject still count
    [state |-> "cleared", score |-> 0, since |-> subject[x].since, version |-> subject[x].version + 1]
ClearedRow(x) ==
    [state |-> "cleared", score |-> 0, since |-> now, version |-> subject[x].version + 1]

\* clearIncident: signals of before it no longer count.
Clear ==
    /\ Changes
    /\ \E x \in {Agent, Session} :
        /\ Contained(subject[x].state)
        /\ Move(x, ClearedRow(x), "clearance")

ChangeMode ==
    /\ Changes
    /\ \E m \in Modes \ {mode} : mode' = m
    /\ mode = "enforce" => \A x \in Subjects : ~Contained(subject[x].state)
    /\ UNCHANGED <<subject, signals, last, req, now>>

Tick ==
    /\ now < MaxTime
    /\ now' = now + 1
    /\ UNCHANGED <<mode, subject, signals, last, req, changes>>

\* Bound: the clock stands and no invocation is under way.
AllDone == now = MaxTime /\ (\A r \in Requests : req[r].stage # "commit") /\ UNCHANGED vars

Next ==
    \/ \E r \in Requests : Assess(r) \/ Report(r) \/ Commit(r) \/ Fail(r)
    \/ ManualQuarantine \/ CompleteContainment \/ Clear \/ ChangeMode \/ Tick \/ AllDone

Spec == Init /\ [][Next]_vars

----------------------------------------------------------------------------
(* Properties *)

Row == [state : States, score : Nat, since : Nat, version : Nat]
Signal == [subject : Subjects, code : Codes, key : STRING, at : Nat, by : Requests]

\* Type invariant: the tables with their CHECKs; an API key is contained by no state.
TypeOK ==
    /\ mode \in Modes
    /\ subject \in [Subjects -> Row] /\ ~Contained(subject[Key].state)
    /\ \A s \in signals : s \in Signal
    /\ \A x \in Subjects : last[x].to \in States
    /\ \A r \in Requests : req[r].stage \in {"idle", "commit", "done"}
    /\ now \in Nat /\ changes \in Nat

(***************************************************************************)
(* The history explains every state: the latest transition of a subject     *)
(* leads to the state it is in. An update that lost to another handler, a   *)
(* quarantine or a clearance leaves no transition behind, and one that took *)
(* effect always does.                                                      *)
(***************************************************************************)
EveryChangeIsRecorded == \A x \in Subjects : last[x].to = subject[x].state

(***************************************************************************)
(* Only a clearance lifts a quarantine, and what counts starts again then.  *)
(* A handler that read the row before the quarantine does not write over    *)
(* it, and one that read it before the clearance does not write over the    *)
(* cleared row, nor over what it became, what it computed from what the     *)
(* clearance dismissed: all it still can do is quarantine the subject       *)
(* again, for quarantineStatements' upsert looks at no version.             *)
(***************************************************************************)
QuarantineIsSticky ==
    [][\A x \in Subjects :
          LET held == Contained(subject[x].state)
              moved == subject'[x] # subject[x]
          IN  /\ held /\ moved => \/ Contained(subject'[x].state) /\ changes' # changes
                                  \/ subject'[x].state = "cleared" /\ subject'[x].since = now
              /\ subject'[x].state = "cleared" /\ moved => held \/ subject[x].state = "cleared"
              /\ \A r \in Requests :
                    req[r].stage = "commit" /\ req'[r] = Done /\ moved /\ x \in req[r].lifted
                       => x = req[r].plan.target /\ subject'[x].state = "quarantined"]_vars

\* What the signals that count call for; an API key, and monitor mode, stop at a review.
CalledFor(x, m) ==
    LET state == StateForScore(Points(CountingSignals(x)))
    IN  IF state = "quarantined" /\ (x = Key \/ m = "monitor") THEN "review_required" ELSE state

(***************************************************************************)
(* An evaluation that nobody interfered with leaves no subject below what   *)
(* its signals call for, its own and all those that earlier handlers had    *)
(* left uncounted when they lost their update: the agent not at all, a      *)
(* session only inside a quarantined agent.                                 *)
(***************************************************************************)
CatchesUp ==
    [][\A r \in Requests, m \in Modes :
          /\ req[r].stage = "commit" /\ req[r].alone /\ req[r].mode = m
          /\ req'[r] = Done /\ <<subject, signals>>' # <<subject, signals>>
          => \A x \in DOMAIN req[r].plan.score :
                \/ Severity(subject'[x].state) >= Severity(CalledFor(x, m)')
                \/ x = Session /\ Contained(subject'[Agent].state)]_vars

(***************************************************************************)
(* What Gateway takes for granted of an assessment: in enforce mode the     *)
(* verdict is to block exactly if the scope was contained or the same batch *)
(* quarantines the agent or the session of the request.                     *)
(***************************************************************************)
BlocksWhatItQuarantines ==
    \A r \in Requests : req[r].stage = "commit" /\ req[r].mode = "enforce" /\ req[r].alone =>
        LET direct == DOMAIN req[r].plan.score
            held == \E x \in direct : Contained(subject[x].state)
        IN  req[r].plan.verdict = "block" <=> held \/ req[r].plan.target # None

\* engine.ts:6: "No behavioral signal alone can reach the quarantine threshold".
NoSignalAloneQuarantines ==
    \A x \in Subjects : last[x].cause = "score_quarantine" =>
        Cardinality({<<s.code, s.key>> : s \in {t \in signals : t.subject = x}}) > 1
=============================================================================
