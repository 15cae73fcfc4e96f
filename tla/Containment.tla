----------------------------- MODULE Containment -----------------------------
(***************************************************************************)
(* Quarantine, containment and clearance of one organization in `enforce'  *)
(* mode, with everything that runs against it: evaluations that issue       *)
(* leases and approvals, lease uses, approve, deny and consume, session     *)
(* opening, the background verification of a quarantine and the cron sweep. *)
(*                                                                         *)
(* Every handler reads the database, awaits, and then writes one batch. A   *)
(* batch is one atomic action here; between a handler's last read and its   *)
(* batch, any other step may happen. The handler in flight is a record in   *)
(* `req', holding what it read and the clock value it took when it began    *)
(* (`at', its nowIso). Consecutive reads of one handler are one step.       *)
(* Bound: a batch that inserts a row waits when no unused id is left.       *)
(***************************************************************************)
EXTENDS RuntimeScope

CONSTANTS Incidents, Leases, Approvals, \* ids of rows still to be inserted
          Requests,      \* Worker invocations serving clients
          Cron,          \* the scheduled Worker invocation
          Ops,           \* the operations clients call in this instance
          OpenAtStart,   \* sessions opened before the behaviour starts
          SessionTtls, LeaseTtls, ApprovalTtl, GrantTtl, \* in clock ticks
          MaxUses,       \* max_uses of every lease
          CronGrace,     \* sweepRuntimeSecurity's 30 s
          MaxTime,       \* bound: the clock stops here
          Horizon,       \* bound: no client request starts after this
          MaxLag,        \* bound: age of a handler's clock when it reads
          MaxCrashes     \* bound: invocations that die half way

VARIABLES now,         \* the clock
          sess,        \* agent_sessions
          risk,        \* risk_subjects
          inc,         \* security_incidents
          leases,      \* capability_leases, and their lease_uses rows
          apps,        \* approvals
          invalidated, \* incident_members rows with relation 'invalidated_grant'
          cleared,     \* 'security.cleared' control events, per incident
          req,         \* the handlers in flight
          crashes      \* invocations that died

vars == <<now, sess, risk, inc, leases, apps, invalidated, cleared, req, crashes>>

Never == -1   \* an unset timestamp
Workers == Requests \cup {Cron}
AllOps == {"lease", "review", "use", "approve", "deny", "consume", "signal",
           "quarantine", "clear", "open", "close"}

ASSUME ContainmentAssumption ==
    /\ Cron \notin Requests /\ Ops \subseteq AllOps
    /\ None \notin Incidents \cup Leases \cup Approvals
    /\ OpenAtStart \subseteq Sessions
    /\ \A s \in OpenAtStart : ParentOf[s] # None => ParentOf[s] \in OpenAtStart
    /\ SessionTtls \subseteq Nat \ {0} /\ LeaseTtls \subseteq Nat \ {0}
    /\ {ApprovalTtl, GrantTtl, MaxUses} \subseteq Nat \ {0}
    /\ {CronGrace, MaxTime, Horizon, MaxLag, MaxCrashes} \subseteq Nat

Time == Nat \cup {Never}

\* Rows not inserted yet.
NoSessionRow == [status |-> "none", expires |-> Never]
NoIncident == [status |-> "none", subject |-> None, opened |-> Never]
NoLease == [session |-> None, issued |-> Never, expires |-> Never, revoked |-> FALSE,
            uses |-> 0, recorded |-> 0]
NoApproval == [agent |-> None, session |-> None, status |-> "none", requested |-> Never,
               expires |-> Never, grant |-> Never, consumed |-> 0]

Idle == [op |-> "idle"]

(***************************************************************************)
(* What a handler in flight holds. "lease" and "review": an evaluation     *)
(* about to record an allow with a lease, or a review with its approval.    *)
(* "quarantine": any handler whose plan has a quarantine target; `opens' is *)
(* the session the same batch inserts, if it is openSession's. "verify",    *)
(* "enforce", "count", "contain": the stages of verifyContainment.          *)
(* "record": a lease use granted but without its lease_uses row yet.        *)
(***************************************************************************)
Request ==
    {Idle}
    \cup [op : {"lease", "review"}, agent : Agents, session : Sessions \cup {None}, at : Nat]
    \cup [op : {"quarantine"}, subject : Subjects, at : Nat, opens : Sessions \cup {None}]
    \cup [op : {"verify"}, incident : Incidents]
    \cup [op : {"enforce", "count", "contain", "clear"}, incident : Incidents, at : Nat]
    \cup [op : {"use"}, lease : Leases, at : Nat]
    \cup [op : {"record"}, lease : Leases]
    \cup [op : {"approve", "consume"}, approval : Approvals, at : Nat]
    \cup [op : {"open"}, session : Sessions, at : Nat]

\* The rows of the tables.
SessionRow == [status : {"none", "open", "closed"}, expires : Time]
SubjectRow == [state : {"normal", "quarantined", "contained"}, epoch : Time,
               incident : Incidents \cup {None}, cleared : Time]
IncidentRow == [status : {"none", "open", "contained", "cleared"},
                subject : Subjects \cup {None}, opened : Time]
LeaseRow == [session : Sessions \cup {None}, issued : Time, expires : Time,
             revoked : BOOLEAN, uses : 0..MaxUses, recorded : Nat]
ApprovalRow == [agent : Agents \cup {None}, session : Sessions \cup {None},
                status : {"none", "pending", "approved", "denied", "expired"},
                requested : Time, expires : Time, grant : Time, consumed : Nat]

\* Type invariant: the tables' columns (with the CHECK on uses), the handlers' locals.
TypeOK ==
    /\ now \in Nat /\ crashes \in Nat
    /\ sess \in [Sessions -> SessionRow]
    /\ risk \in [Subjects -> SubjectRow]
    /\ inc \in [Incidents -> IncidentRow]
    /\ leases \in [Leases -> LeaseRow]
    /\ apps \in [Approvals -> ApprovalRow]
    /\ invalidated \subseteq Incidents \X Approvals
    /\ cleared \in [Incidents -> Nat]
    /\ req \in [Workers -> Request]

-----------------------------------------------------------------------------
(* Reading the tables *)

\* isContained. The risk state "normal" stands for normal, elevated,
\* review_required and cleared, which containment does not tell apart.
Contained(x) == risk[x].state \in {"quarantined", "contained"}

\* latestEpoch: was authority issued at t, before the last containment epoch of its scope?
Outdated(t, a, s) == \E x \in ScopeKeys(a, s) : t < risk[x].epoch

\* worstSubject over the scope keys.
ScopeContained(a, s) == \E x \in ScopeKeys(a, s) : Contained(x)

Unexpired(at) == {t \in Sessions : sess[t].status # "none" /\ sess[t].expires > at}

SessionValid(s, at) == sess[s].status = "open" /\ sess[s].expires > at

LeaseAgent(l) == AgentOf[leases[l].session]
LeaseIssued(l) == leases[l].session # None
LeaseLive(l, at) == LeaseIssued(l) /\ ~leases[l].revoked /\ leases[l].expires > at
OwnLease(x, l, at) ==   \* mutant: an agent's scope stops at its own sessions
    LeaseIssued(l) /\ x \in OwnScope(LeaseAgent(l), leases[l].session)
LeaseInScope(x, l, at) ==
    LeaseIssued(l) /\ InScope(x, LeaseAgent(l), leases[l].session, Unexpired(at))

Requested(p) == apps[p].status # "none"
OwnApproval(x, p, at) ==   \* mutant: an agent's scope stops at its own sessions
    Requested(p) /\ x \in OwnScope(apps[p].agent, apps[p].session)
ApprovalInScope(x, p, at) ==
    Requested(p) /\ InScope(x, apps[p].agent, apps[p].session, Unexpired(at))

\* The clock a handler takes, at most MaxLag ticks before its first read.
Clocks == {t \in 0..now : t + MaxLag >= now}

\* A client request of kind `op' begins in a free invocation.
Starts(r, op, at) ==
    /\ r \in Requests /\ op \in Ops /\ req[r] = Idle
    /\ now <= Horizon /\ at \in Clocks

-----------------------------------------------------------------------------
Init ==
    /\ now = 0 /\ crashes = 0
    /\ sess \in [Sessions -> [status : {"none", "open"}, expires : SessionTtls \cup {Never}]]
    /\ \A s \in Sessions :
            IF s \in OpenAtStart THEN sess[s].status = "open" /\ sess[s].expires # Never
            ELSE sess[s] = NoSessionRow
    /\ risk = [x \in Subjects |->
                  [state |-> "normal", epoch |-> Never, incident |-> None, cleared |-> Never]]
    /\ inc = [i \in Incidents |-> NoIncident]
    /\ leases = [l \in Leases |-> NoLease]
    /\ apps = [p \in Approvals |-> NoApproval]
    /\ invalidated = {}
    /\ cleared = [i \in Incidents |-> 0]
    /\ req = [r \in Workers |-> Idle]

-----------------------------------------------------------------------------
(* Evaluation: authority is issued *)

(***************************************************************************)
(* handleEvaluate up to its write batch, for an action the policies allow  *)
(* (with a lease) or send to review: the session, if any, belongs to the    *)
(* agent and is open, and no subject of the scope is contained.             *)
(***************************************************************************)
EvaluateRead(r) ==
    \E kind \in {"lease", "review"}, a \in Agents, s \in Sessions \cup {None}, at \in Clocks :
        /\ Starts(r, kind, at)
        /\ kind = "lease" => s # None
        /\ s # None => AgentOf[s] = a /\ SessionValid(s, at)
        /\ ~ScopeContained(a, s)
        /\ req' = [req EXCEPT ![r] = [op |-> kind, agent |-> a, session |-> s, at |-> at]]
        /\ UNCHANGED <<now, sess, risk, inc, leases, apps, invalidated, cleared, crashes>>

NewLease(s, at, ttl) ==
    [session |-> s, issued |-> at, expires |-> at + ttl, revoked |-> FALSE,
     uses |-> 0, recorded |-> 0]

\* The write batch with a capability lease.
IssueLease(r) ==
    /\ req[r].op = "lease"
    /\ \E l \in Leases, ttl \in LeaseTtls :
        /\ ~LeaseIssued(l)
        /\ leases' = [leases EXCEPT ![l] = NewLease(req[r].session, req[r].at, ttl)]
    /\ req' = [req EXCEPT ![r] = Idle]
    /\ UNCHANGED <<now, sess, risk, inc, apps, invalidated, cleared, crashes>>

NewApproval(a, s, at) ==
    [agent |-> a, session |-> s, status |-> "pending", requested |-> at,
     expires |-> at + ApprovalTtl, grant |-> Never, consumed |-> 0]

\* The write batch with a pending approval.
RequestApproval(r) ==
    /\ req[r].op = "review"
    /\ \E p \in Approvals :
        /\ ~Requested(p)
        /\ apps' = [apps EXCEPT ![p] = NewApproval(req[r].agent, req[r].session, req[r].at)]
    /\ req' = [req EXCEPT ![r] = Idle]
    /\ UNCHANGED <<now, sess, risk, inc, leases, invalidated, cleared, crashes>>

-----------------------------------------------------------------------------
(* Leases *)

\* useLease's refusals that depend on other rows than the lease.
LeaseUsable(l, at) ==
    LET s == leases[l].session IN
    /\ ~Outdated(leases[l].issued, LeaseAgent(l), s)
    /\ SessionValid(s, at)
    /\ ~ScopeContained(LeaseAgent(l), s)

\* mutant: the claim does not check the uses again
LiveOnly(l, at) == LeaseLive(l, at)

\* The WHERE clause of the claim, checked by the read as well.
LeaseClaimable(l, at) == LeaseLive(l, at) /\ leases[l].uses < MaxUses

UseLeaseRead(r) ==
    \E l \in Leases, at \in Clocks :
        /\ Starts(r, "use", at)
        /\ LeaseClaimable(l, at)
        /\ LeaseUsable(l, at)
        /\ req' = [req EXCEPT ![r] = [op |-> "use", lease |-> l, at |-> at]]
        /\ UNCHANGED <<now, sess, risk, inc, leases, apps, invalidated, cleared, crashes>>

GrantedAnyway(l, at) == TRUE   \* mutant: the claim's changes() are not looked at
UseGranted(l, at) == LeaseClaimable(l, at)

\* The claim. When it changes no row the use is refused (LEASE_EXHAUSTED).
ClaimLease(r) ==
    /\ req[r].op = "use"
    /\ LET l == req[r].lease IN
       /\ leases' = IF LeaseClaimable(l, req[r].at) THEN [leases EXCEPT ![l].uses = @ + 1] ELSE leases
       /\ req' = [req EXCEPT ![r] = IF UseGranted(l, req[r].at) THEN [op |-> "record", lease |-> l] ELSE Idle]
    /\ UNCHANGED <<now, sess, risk, inc, apps, invalidated, cleared, crashes>>

\* The batch after the claim: the lease_uses row of a granted use.
RecordLeaseUse(r) ==
    /\ req[r].op = "record"
    /\ leases' = [leases EXCEPT ![req[r].lease].recorded = @ + 1]
    /\ req' = [req EXCEPT ![r] = Idle]
    /\ UNCHANGED <<now, sess, risk, inc, apps, invalidated, cleared, crashes>>

-----------------------------------------------------------------------------
(* Approvals *)

\* approvalScopeContained and approvalContainmentRefusal: issued since the scope's
\* last containment epoch, and the scope not contained.
ApprovalUsable(p) ==
    /\ ~Outdated(apps[p].requested, apps[p].agent, apps[p].session)
    /\ ~ScopeContained(apps[p].agent, apps[p].session)

ApprovalRead(r) ==
    \E op \in {"approve", "consume"}, p \in Approvals, at \in Clocks :
        /\ Starts(r, op, at)
        /\ Requested(p)
        /\ ApprovalUsable(p)
        /\ req' = [req EXCEPT ![r] = [op |-> op, approval |-> p, at |-> at]]
        /\ UNCHANGED <<now, sess, risk, inc, leases, apps, invalidated, cleared, crashes>>

\* actOnApproval's UPDATE ... WHERE status = 'pending' AND expires_at > now.
Actionable(p, at) == apps[p].status = "pending" /\ apps[p].expires > at

Approve(r) ==
    /\ req[r].op = "approve"
    /\ LET p == req[r].approval IN
       IF Actionable(p, req[r].at)
       THEN apps' = [apps EXCEPT ![p].status = "approved", ![p].grant = req[r].at + GrantTtl]
       ELSE UNCHANGED apps
    /\ req' = [req EXCEPT ![r] = Idle]
    /\ UNCHANGED <<now, sess, risk, inc, leases, invalidated, cleared, crashes>>

\* A denial does not look at the scope: its one decisive step is the UPDATE.
Deny ==
    \E r \in Requests, p \in Approvals, at \in Clocks :
        /\ Starts(r, "deny", at)
        /\ Actionable(p, at)
        /\ apps' = [apps EXCEPT ![p].status = "denied"]
        /\ UNCHANGED <<now, sess, risk, inc, leases, invalidated, cleared, req, crashes>>

\* mutant: the UPDATE trusts the read's check of consumed_at
ApprovedGrant(p, at) == apps[p].status = "approved" /\ apps[p].grant > at

\* consumeApproval's UPDATE ... WHERE status = 'approved' AND consumed_at IS NULL
\* AND grant_expires_at > now.
Consumable(p, at) ==
    apps[p].status = "approved" /\ apps[p].consumed = 0 /\ apps[p].grant > at

Consume(r) ==
    /\ req[r].op = "consume"
    /\ LET p == req[r].approval IN
       IF Consumable(p, req[r].at)
       THEN apps' = [apps EXCEPT ![p].consumed = @ + 1]
       ELSE UNCHANGED apps
    /\ req' = [req EXCEPT ![r] = Idle]
    /\ UNCHANGED <<now, sess, risk, inc, leases, invalidated, cleared, crashes>>

\* sweepExpiredApprovals, by cron or by a console request: some of the rows it finds.
SweepExpired ==
    /\ \E at \in Clocks, lapsed \in SUBSET Approvals \ {{}} :
        /\ \A p \in lapsed : apps[p].status = "pending" /\ apps[p].expires <= at
        /\ apps' = [p \in Approvals |->
                       IF p \in lapsed THEN [apps[p] EXCEPT !.status = "expired"] ELSE apps[p]]
    /\ UNCHANGED <<now, sess, risk, inc, leases, invalidated, cleared, req, crashes>>

-----------------------------------------------------------------------------
(* Quarantine *)

(***************************************************************************)
(* A plan to quarantine x, from a read that saw x not contained: the risk   *)
(* engine's (planSubjects, for an evaluation, or for the signals of a       *)
(* refused use or consume: at most one target), or a member's               *)
(* (quarantineSubject).                                                     *)
(***************************************************************************)
QuarantineRead(r) ==
    \E op \in {"signal", "quarantine"}, x \in Subjects, at \in Clocks :
        /\ Starts(r, op, at)
        /\ x \in Sessions => sess[x].status # "none"
        /\ ~Contained(x)
        /\ req' = [req EXCEPT ![r] = [op |-> "quarantine", subject |-> x, at |-> at, opens |-> None]]
        /\ UNCHANGED <<now, sess, risk, inc, leases, apps, invalidated, cleared, crashes>>

\* mutant: leases are revoked, approvals are left to the expiry sweep
RevokeOnly(x, i, at) ==
    /\ leases' = [l \in Leases |->
                     IF LeaseLive(l, at) /\ LeaseInScope(x, l, at)
                     THEN [leases[l] EXCEPT !.revoked = TRUE] ELSE leases[l]]
    /\ UNCHANGED <<apps, invalidated>>

(***************************************************************************)
(* scopeEnforcementStatements for incident i of subject x, in one batch:   *)
(* live leases in scope are revoked, pending approvals in scope are denied  *)
(* by the system, approved and unconsumed ones are recorded as invalidated. *)
(***************************************************************************)
EnforceScope(x, i, at) ==
    /\ leases' = [l \in Leases |->
                     IF LeaseLive(l, at) /\ LeaseInScope(x, l, at)
                     THEN [leases[l] EXCEPT !.revoked = TRUE] ELSE leases[l]]
    /\ apps' = [p \in Approvals |->
                   IF apps[p].status = "pending" /\ ApprovalInScope(x, p, at)
                   THEN [apps[p] EXCEPT !.status = "denied"] ELSE apps[p]]
    /\ invalidated' = invalidated \cup
           {<<i, p>> : p \in {q \in Approvals : /\ apps[q].status = "approved"
                                                /\ apps[q].consumed = 0
                                                /\ ApprovalInScope(x, q, at)}}

\* mutant: the upsert has no WHERE clause
AnyState(x) == TRUE

\* The upsert's WHERE clause: the first statement changes nothing for a contained subject,
\* and every later statement of the batch is guarded by the subject carrying its incident.
Quarantinable(x) == ~Contained(x)

\* mutant: the trigger lets an epoch repeat
NotEarlier(x, at) == at >= risk[x].epoch

\* risk_subjects_transitions aborts a batch that does not move the epoch forward.
EpochAdvances(x, at) == at > risk[x].epoch

\* openSession's insert. Nothing ties a child's lifetime to its parent's.
InsertSession(s, at) ==
    \E ttl \in SessionTtls : sess' = [sess EXCEPT ![s] = [status |-> "open", expires |-> at + ttl]]

\* The quarantine batch. A new incident is verified in the background (afterRuntimeCommit).
Quarantine(r) ==
    /\ req[r].op = "quarantine"
    /\ LET x == req[r].subject
           at == req[r].at
       IN  IF Quarantinable(x) /\ EpochAdvances(x, at)
           THEN \E i \in Incidents :
                    /\ inc[i].status = "none"
                    /\ risk' = [risk EXCEPT ![x].state = "quarantined", ![x].epoch = at,
                                            ![x].incident = i]
                    /\ inc' = [inc EXCEPT ![i] = [status |-> "open", subject |-> x, opened |-> at]]
                    /\ EnforceScope(x, i, at)
                    /\ req' = [req EXCEPT ![r] = [op |-> "verify", incident |-> i]]
           ELSE /\ req' = [req EXCEPT ![r] = Idle]
                /\ UNCHANGED <<risk, inc, leases, apps, invalidated>>
    /\ LET x == req[r].subject
           at == req[r].at
           s == req[r].opens
       IN  IF s # None /\ (Quarantinable(x) => EpochAdvances(x, at))
           THEN InsertSession(s, at) ELSE UNCHANGED sess
    /\ UNCHANGED <<now, cleared, crashes>>

-----------------------------------------------------------------------------
(* Verification *)

\* GUARD: subject x carries incident i, in either contained state.
Carries(x, i) == risk[x].incident = i /\ Contained(x)

\* What verifyContainment reads first.
AwaitsContainment(i) ==
    /\ inc[i].status = "open"
    /\ risk[inc[i].subject].incident = i
    /\ risk[inc[i].subject].state = "quarantined"

VerifyRead(r) ==
    /\ req[r].op = "verify"
    /\ LET i == req[r].incident IN
       \E at \in Clocks :
           req' = [req EXCEPT ![r] =
                      IF AwaitsContainment(i)
                      THEN [op |-> "enforce", incident |-> i, at |-> at] ELSE Idle]
    /\ UNCHANGED <<now, sess, risk, inc, leases, apps, invalidated, cleared, crashes>>

\* The enforcement batch, every statement of it guarded.
VerifyEnforce(r) ==
    /\ req[r].op = "enforce"
    /\ LET i == req[r].incident
           x == inc[i].subject
       IN  /\ IF Carries(x, i) THEN EnforceScope(x, i, req[r].at)
              ELSE UNCHANGED <<leases, apps, invalidated>>
           /\ req' = [req EXCEPT ![r] = [op |-> "count", incident |-> i, at |-> req[r].at]]
    /\ UNCHANGED <<now, sess, risk, inc, cleared, crashes>>

\* No live lease and no pending approval in the scope of x.
ScopeClean(x, at) ==
    /\ \A l \in Leases : ~(LeaseLive(l, at) /\ LeaseInScope(x, l, at))
    /\ \A p \in Approvals : ~(apps[p].status = "pending" /\ ApprovalInScope(x, p, at))

VerifyCount(r) ==
    /\ req[r].op = "count"
    /\ LET i == req[r].incident IN
       req' = [req EXCEPT ![r] =
                  IF ScopeClean(inc[i].subject, req[r].at)
                  THEN [op |-> "contain", incident |-> i, at |-> req[r].at] ELSE Idle]
    /\ UNCHANGED <<now, sess, risk, inc, leases, apps, invalidated, cleared, crashes>>

\* The UPDATEs of the last batch are each guarded by their own row.
ContainsSubject(x, i) == risk[x].incident = i /\ risk[x].state = "quarantined"
ContainsIncident(i) == inc[i].status = "open"

VerifyContain(r) ==
    /\ req[r].op = "contain"
    /\ LET i == req[r].incident
           x == inc[i].subject
       IN  /\ risk' = IF ContainsSubject(x, i)
                      THEN [risk EXCEPT ![x].state = "contained"] ELSE risk
           /\ inc' = IF ContainsIncident(i)
                     THEN [inc EXCEPT ![i].status = "contained"] ELSE inc
    /\ req' = [req EXCEPT ![r] = Idle]
    /\ UNCHANGED <<now, sess, leases, apps, invalidated, cleared, crashes>>

\* mutant: the comparison is the wrong way round
Recent(i) == inc[i].status = "open" /\ inc[i].opened > now - CronGrace

\* sweepRuntimeSecurity's query: open incidents older than the grace period.
Overdue(i) == inc[i].status = "open" /\ inc[i].opened < now - CronGrace

\* The scheduled invocation verifies the overdue incidents one after another.
CronVerify ==
    /\ req[Cron] = Idle
    /\ \E i \in Incidents :
        /\ Overdue(i)
        /\ req' = [req EXCEPT ![Cron] = [op |-> "verify", incident |-> i]]
    /\ UNCHANGED <<now, sess, risk, inc, leases, apps, invalidated, cleared, crashes>>

-----------------------------------------------------------------------------
(* Clearance by a human *)

\* clearIncident's reads.
Clearable(i) ==
    /\ inc[i].status \in {"open", "contained"}
    /\ Carries(inc[i].subject, i)

ClearRead(r) ==
    \E i \in Incidents, at \in Clocks :
        /\ Starts(r, "clear", at)
        /\ Clearable(i)
        /\ req' = [req EXCEPT ![r] = [op |-> "clear", incident |-> i, at |-> at]]
        /\ UNCHANGED <<now, sess, risk, inc, leases, apps, invalidated, cleared, crashes>>

\* The WHERE clause of the clearance's second UPDATE; that of its first is Carries.
VerifiedOnly(i) == inc[i].status = "contained"   \* mutant: open incidents forgotten
ClearsIncident(i) == inc[i].status \in {"open", "contained"}

\* risk_subjects_transitions aborts a clearance whose signals_since does not move
\* forward, or whose cleared_at is the previous one.
ClearanceAdvances(x, at) == at > risk[x].cleared

(***************************************************************************)
(* The clearance batch. Its two events are inserted whether or not the      *)
(* UPDATEs changed a row; the handler looks at the count of the first       *)
(* UPDATE after the commit.                                                 *)
(***************************************************************************)
Clear(r) ==
    /\ req[r].op = "clear"
    /\ LET i == req[r].incident
           x == inc[i].subject
           at == req[r].at
       IN  IF Carries(x, i) /\ ~ClearanceAdvances(x, at)
           THEN UNCHANGED <<risk, inc, cleared>>
           ELSE /\ risk' = IF Carries(x, i)
                           THEN [risk EXCEPT ![x].state = "normal", ![x].cleared = at] ELSE risk
                /\ inc' = IF ClearsIncident(i)
                          THEN [inc EXCEPT ![i].status = "cleared"] ELSE inc
                /\ cleared' = [cleared EXCEPT ![i] = @ + 1]
    /\ req' = [req EXCEPT ![r] = Idle]
    /\ UNCHANGED <<now, sess, leases, apps, invalidated, crashes>>

-----------------------------------------------------------------------------
(* Sessions, the clock and crashes *)

\* A session some handler is about to insert.
Opening(s) ==
    \E r \in Workers :
        \/ req[r].op = "open" /\ req[r].session = s
        \/ req[r].op = "quarantine" /\ req[r].opens = s

(***************************************************************************)
(* openSession up to its insert: the parent is open, no subject of the      *)
(* scope is contained. When the new child is one too many, or too deep, the *)
(* signals it raises may quarantine the parent or the parent's agent in the *)
(* batch that inserts it.                                                   *)
(***************************************************************************)
OpenRead(r) ==
    \E s \in Sessions, at \in Clocks :
        /\ Starts(r, "open", at)
        /\ sess[s].status = "none" /\ ~Opening(s)
        /\ ParentOf[s] # None => SessionValid(ParentOf[s], at)
        /\ ~ScopeContained(AgentOf[s], ParentOf[s])
        /\ \/ req' = [req EXCEPT ![r] = [op |-> "open", session |-> s, at |-> at]]
           \/ /\ ParentOf[s] # None
              /\ \E x \in {ParentOf[s], AgentOf[ParentOf[s]]} :
                     req' = [req EXCEPT ![r] =
                                [op |-> "quarantine", subject |-> x, at |-> at, opens |-> s]]
        /\ UNCHANGED <<now, sess, risk, inc, leases, apps, invalidated, cleared, crashes>>

OpenSession(r) ==
    /\ req[r].op = "open"
    /\ InsertSession(req[r].session, req[r].at)
    /\ req' = [req EXCEPT ![r] = Idle]
    /\ UNCHANGED <<now, risk, inc, leases, apps, invalidated, cleared, crashes>>

CloseSession ==
    /\ \E r \in Requests, s \in Sessions, at \in Clocks :
        /\ Starts(r, "close", at)
        /\ sess[s].status = "open"
        /\ sess' = [sess EXCEPT ![s].status = "closed"]
    /\ UNCHANGED <<now, risk, inc, leases, apps, invalidated, cleared, req, crashes>>

Tick ==
    /\ now < MaxTime
    /\ now' = now + 1
    /\ UNCHANGED <<sess, risk, inc, leases, apps, invalidated, cleared, req, crashes>>

\* An invocation dies, or its next statement fails: what it has not written is lost.
Crash(r) ==
    /\ req[r] # Idle
    /\ crashes < MaxCrashes
    /\ crashes' = crashes + 1
    /\ req' = [req EXCEPT ![r] = Idle]
    /\ UNCHANGED <<now, sess, risk, inc, leases, apps, invalidated, cleared>>

\* Bound: at the end of the clock the behaviour may stop.
EndOfTime == now = MaxTime /\ UNCHANGED vars

Verification(r) == VerifyRead(r) \/ VerifyEnforce(r) \/ VerifyCount(r) \/ VerifyContain(r)

Next ==
    \/ \E r \in Workers :
        \/ EvaluateRead(r) \/ IssueLease(r) \/ RequestApproval(r)
        \/ UseLeaseRead(r) \/ ClaimLease(r) \/ RecordLeaseUse(r)
        \/ ApprovalRead(r) \/ Approve(r) \/ Consume(r)
        \/ QuarantineRead(r) \/ Quarantine(r)
        \/ VerifyRead(r) \/ VerifyEnforce(r) \/ VerifyCount(r) \/ VerifyContain(r)
        \/ ClearRead(r) \/ Clear(r)
        \/ OpenRead(r) \/ OpenSession(r) \/ Crash(r)
    \/ Deny \/ SweepExpired \/ CronVerify \/ CloseSession \/ Tick \/ EndOfTime

Spec == Init /\ [][Next]_vars

(***************************************************************************)
(* Fairness: the clock runs, cron keeps being invoked, and an invocation    *)
(* that verifies a quarantine goes on unless it crashes. Nothing is assumed *)
(* of clients, nor of the members who clear incidents.                      *)
(***************************************************************************)
Fairness ==
    /\ WF_vars(Tick)
    /\ WF_vars(CronVerify)
    /\ \A r \in Workers : WF_vars(Verification(r))

FairSpec == Spec /\ Fairness

-----------------------------------------------------------------------------
(* Safety *)

(***************************************************************************)
(* A subject is contained exactly while it carries an active incident of   *)
(* its own, and the two agree on whether containment has been verified: no  *)
(* order of two quarantines, a verification and a clearance leaves an       *)
(* incident active without its subject contained, two incidents active for  *)
(* one subject, or a contained subject no incident can clear. (containment.ts *)
(* guards every statement by the incident id.)                              *)
(***************************************************************************)
IncidentAgreement ==
    /\ \A x \in Subjects : Contained(x) =>
        /\ risk[x].incident \in Incidents
        /\ inc[risk[x].incident].subject = x
        /\ inc[risk[x].incident].opened = risk[x].epoch
        /\ inc[risk[x].incident].status =
               IF risk[x].state = "quarantined" THEN "open" ELSE "contained"
    /\ \A i \in Incidents : inc[i].status \in {"open", "contained"} =>
        /\ inc[i].subject \in Subjects
        /\ Contained(inc[i].subject)
        /\ risk[inc[i].subject].incident = i

(***************************************************************************)
(* Every use of a lease has its row in lease_uses: the evidence never runs   *)
(* ahead of the claims, and lags behind by the uses whose invocation has not *)
(* written it yet, or died before it could. (api.ts:393, 401)               *)
(***************************************************************************)
UsesLostOnlyToCrashes ==
    \A l \in Leases :
        LET known == leases[l].recorded
                       + Cardinality({r \in Workers : req[r].op = "record" /\ req[r].lease = l})
        IN  leases[l].uses - crashes <= known /\ known <= leases[l].uses

\* Where the two walks of RuntimeScope disagree: x bounds a request of agent a in session s,
\* but every session through which x is above s had expired by the clock of its quarantine,
\* so that quarantine did not descend to s.
Beyond(x, a, s) ==
    /\ x \notin OwnScope(a, s)
    /\ \A t \in Lineage(s) : AgentOf[t] = x => sess[t].expires <= risk[x].epoch

(***************************************************************************)
(* No lease is claimed while any subject that bounds its session (the      *)
(* keys useLease checks) is contained, whatever the handler read before the *)
(* quarantine: the claim's WHERE clause sees the revocation. The code       *)
(* leaves two exceptions, both for a handler whose checks came before the   *)
(* quarantine: a lease that had expired by the quarantine's clock, claimed  *)
(* with an older clock; and a lease of a session below an expired session   *)
(* of the quarantined agent, which SCOPE_CTE does not reach.                *)
(***************************************************************************)
NoClaimInContainedScope ==
    [][\A l \in Leases : leases'[l].uses > leases[l].uses =>
          \A x \in ScopeKeys(LeaseAgent(l), leases[l].session) :
              Contained(x) => \/ leases[l].expires <= risk[x].epoch
                              \/ Beyond(x, LeaseAgent(l), leases[l].session)]_vars

(***************************************************************************)
(* No approval is approved while any subject that bounds it (the keys      *)
(* actOnApproval checks) is contained, even by a member whose check came    *)
(* before the quarantine: the quarantine has cancelled what that check can  *)
(* have seen pending. The one exception the code leaves: the approval's     *)
(* session is below an expired session of the quarantined agent, which      *)
(* SCOPE_CTE does not reach.                                                *)
(***************************************************************************)
NoApproveInContainedScope ==
    [][\A p \in Approvals :
          apps[p].status # "approved" /\ apps'[p].status = "approved" =>
              \A x \in ScopeKeys(apps[p].agent, apps[p].session) :
                  Contained(x) => Beyond(x, apps[p].agent, apps[p].session)]_vars

\* Two consumes that race past the same checks execute the action once.
AtMostOneExecution == \A p \in Approvals : apps[p].consumed <= 1

(***************************************************************************)
(* The containment epoch of a subject never moves back, whatever the clock  *)
(* of the handler that quarantines it, and a new incident always moves it   *)
(* forward: what one incident invalidated, no later one makes valid again.  *)
(* While a subject is contained, and in the step that clears it, its        *)
(* incident and its epoch are fixed, however many handlers had planned to   *)
(* quarantine it.                                                          *)
(***************************************************************************)
EpochsMoveForward ==
    [][\A x \in Subjects :
          /\ risk'[x].epoch >= risk[x].epoch
          /\ risk'[x].incident # risk[x].incident => risk'[x].epoch > risk[x].epoch
          /\ Contained(x) => /\ risk'[x].epoch = risk[x].epoch
                             /\ risk'[x].incident = risk[x].incident]_vars

(***************************************************************************)
(* An incident is cleared if and only if the audit trail says so: no        *)
(* clearance that a trigger aborts, or that comes second, leaves an event   *)
(* for an incident that is still active, and none goes unrecorded. (A       *)
(* second clearance does append a second event: see the README.)           *)
(***************************************************************************)
ClearedIsRecorded ==
    \A i \in Incidents : (inc[i].status = "cleared") <=> (cleared[i] >= 1)

\* Every open incident is in the end contained or cleared, although the background
\* verification that should do it may die, and although evaluations in flight may commit
\* new authority into the scope after the quarantine (sweepRuntimeSecurity).
OpenIncidentsSettle ==
    \A i \in Incidents : inc[i].status = "open" ~> inc[i].status \in {"contained", "cleared"}

-----------------------------------------------------------------------------
(* What the documentation says and the code does not keep *)

\* containment.ts:10: grants recorded as invalidated are "unusable forever".
InvalidatedGrantsStayUnused ==
    [][\A i \in Incidents, p \in Approvals :
          <<i, p>> \in invalidated => apps'[p].consumed = apps[p].consumed]_vars

\* RUNTIME_SECURITY.md:105: in `contained', "no live lease and no pending approval
\* remains in scope."
ContainedMeansClean ==
    \A x \in Subjects : risk[x].state = "contained" => ScopeClean(x, now)
=============================================================================
