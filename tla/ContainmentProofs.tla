-------------------------- MODULE ContainmentProofs --------------------------
(***************************************************************************)
(* Proofs about Containment, for any agents, sessions, forest, rows,       *)
(* invocations, operations and bounds: incidents and subjects agree,        *)
(* clearances are recorded, containment epochs only move forward, no lease   *)
(* is claimed and no approval approved in a contained scope but for what the *)
(* properties name, an approval is consumed at most once, and the evidence   *)
(* of lease uses is complete but for crashes.                              *)
(***************************************************************************)
EXTENDS Containment, FiniteSetTheorems, TLAPS

LEMMA Constants ==
    /\ ApprovalTtl \in Nat \ {0} /\ GrantTtl \in Nat \ {0} /\ MaxUses \in Nat \ {0}
    /\ \A t \in SessionTtls \cup LeaseTtls : t \in Nat \ {0}
    /\ CronGrace \in Nat /\ MaxTime \in Nat /\ MaxCrashes \in Nat
    /\ None \notin Subjects /\ None \notin Agents /\ None \notin Sessions
    /\ None \notin Incidents /\ Cron \in Workers
  BY ContainmentAssumption, SubjectsAssumption DEF Subjects, Workers

\* A handler's clock is a time.
LEMMA ClockType == now \in Nat => \A t \in Clocks : t \in Nat
  BY DEF Clocks

-----------------------------------------------------------------------------
(* Type correctness *)

\* What the handlers in flight hold, by operation.
LEMMA RequestTypes ==
    ASSUME NEW q \in Request
    PROVE  /\ q.op \in {"lease", "review"} =>
                  /\ q.agent \in Agents /\ q.session \in Sessions \cup {None} /\ q.at \in Nat
           /\ q.op = "quarantine" =>
                  /\ q.subject \in Subjects /\ q.at \in Nat /\ q.opens \in Sessions \cup {None}
           /\ q.op \in {"verify", "enforce", "count", "contain", "clear"} => q.incident \in Incidents
           /\ q.op \in {"enforce", "count", "contain", "clear"} => q.at \in Nat
           /\ q.op \in {"use", "record"} => q.lease \in Leases
           /\ q.op \in {"approve", "consume"} => q.approval \in Approvals
           /\ q.op \in {"use", "approve", "consume"} => q.at \in Nat
           /\ q.op = "open" => q.session \in Sessions /\ q.at \in Nat
  BY DEF Request, Idle

\* A handler moves on to a well-formed record.
LEMMA RequestUpdate ==
    ASSUME req \in [Workers -> Request], NEW r \in Workers, NEW q \in Request,
           req' = [req EXCEPT ![r] = q]
    PROVE  req' \in [Workers -> Request]
  OBVIOUS

LEMMA RequestRecords ==
    /\ Idle \in Request
    /\ \A i \in Incidents : [op |-> "verify", incident |-> i] \in Request
    /\ \A i \in Incidents, at \in Nat, op \in {"enforce", "count", "contain", "clear"} :
            [op |-> op, incident |-> i, at |-> at] \in Request
    /\ \A l \in Leases : [op |-> "record", lease |-> l] \in Request
  BY DEF Request

LEMMA TypeInit == Init => TypeOK
  <1> SUFFICES ASSUME Init PROVE TypeOK
    OBVIOUS
  <1>1. sess \in [Sessions -> SessionRow]
    BY Constants DEF Init, SessionRow, Time, Never
  <1>2. risk \in [Subjects -> SubjectRow] /\ inc \in [Incidents -> IncidentRow]
    BY DEF Init, SubjectRow, IncidentRow, NoIncident, Time, Never
  <1>3. leases \in [Leases -> LeaseRow] /\ apps \in [Approvals -> ApprovalRow]
    BY Constants DEF Init, LeaseRow, ApprovalRow, NoLease, NoApproval, Time, Never
  <1> QED
    BY <1>1, <1>2, <1>3, RequestRecords DEF TypeOK, Init

LEMMA TypeReads ==
    ASSUME TypeOK, NEW r \in Workers,
           \/ EvaluateRead(r) \/ UseLeaseRead(r) \/ ApprovalRead(r)
           \/ QuarantineRead(r) \/ ClearRead(r) \/ OpenRead(r)
    PROVE  TypeOK'
  <1> \A t \in Clocks : t \in Nat
    BY ClockType DEF TypeOK
  <1>1. CASE EvaluateRead(r)
    BY <1>1 DEF TypeOK, EvaluateRead, Request
  <1>2. CASE UseLeaseRead(r)
    BY <1>2 DEF TypeOK, UseLeaseRead, Request
  <1>3. CASE ApprovalRead(r)
    BY <1>3 DEF TypeOK, ApprovalRead, Request
  <1>4. CASE QuarantineRead(r)
    BY <1>4 DEF TypeOK, QuarantineRead, Request
  <1>5. CASE ClearRead(r)
    BY <1>5 DEF TypeOK, ClearRead, Request
  <1>6. CASE OpenRead(r)
    <2>1. PICK s \in Sessions, at \in Clocks :
              /\ req[r] = Idle
              /\ \/ req' = [req EXCEPT ![r] = [op |-> "open", session |-> s, at |-> at]]
                 \/ /\ ParentOf[s] # None
                    /\ \E x \in {ParentOf[s], AgentOf[ParentOf[s]]} :
                           req' = [req EXCEPT ![r] =
                               [op |-> "quarantine", subject |-> x, at |-> at, opens |-> s]]
      BY <1>6 DEF OpenRead, Starts
    <2>2. ParentOf[s] # None => {ParentOf[s], AgentOf[ParentOf[s]]} \subseteq Subjects
      BY ForestAssumption DEF Subjects
    <2>3. req' \in [Workers -> Request]
      BY <2>1, <2>2 DEF TypeOK, Request
    <2> QED
      BY <1>6, <2>3 DEF TypeOK, OpenRead
  <1> QED
    BY <1>1, <1>2, <1>3, <1>4, <1>5, <1>6

LEMMA TypeIssueLease ==
    ASSUME TypeOK, NEW r \in Workers, IssueLease(r) PROVE TypeOK'
  <1>1. PICK l \in Leases, ttl \in LeaseTtls :
            leases' = [leases EXCEPT ![l] = NewLease(req[r].session, req[r].at, ttl)]
    BY DEF IssueLease
  <1>2. req[r].session \in Sessions \cup {None} /\ req[r].at \in Nat
    BY RequestTypes DEF TypeOK, IssueLease
  <1>3. NewLease(req[r].session, req[r].at, ttl) \in LeaseRow
    BY <1>2, Constants DEF NewLease, LeaseRow, Time
  <1>4. leases' \in [Leases -> LeaseRow]
    BY <1>1, <1>3 DEF TypeOK
  <1> QED
    BY <1>4, RequestRecords DEF TypeOK, IssueLease

LEMMA TypeRequestApproval ==
    ASSUME TypeOK, NEW r \in Workers, RequestApproval(r) PROVE TypeOK'
  <1>1. PICK p \in Approvals :
            apps' = [apps EXCEPT ![p] = NewApproval(req[r].agent, req[r].session, req[r].at)]
    BY DEF RequestApproval
  <1>2. /\ req[r].agent \in Agents /\ req[r].session \in Sessions \cup {None}
        /\ req[r].at \in Nat
    BY RequestTypes DEF TypeOK, RequestApproval
  <1>3. NewApproval(req[r].agent, req[r].session, req[r].at) \in ApprovalRow
    BY <1>2, Constants DEF NewApproval, ApprovalRow, Time, Never
  <1>4. apps' \in [Approvals -> ApprovalRow]
    BY <1>1, <1>3 DEF TypeOK
  <1> QED
    BY <1>4, RequestRecords DEF TypeOK, RequestApproval

LEMMA TypeUseLease ==
    ASSUME TypeOK, NEW r \in Workers, ClaimLease(r) \/ RecordLeaseUse(r)
    PROVE  TypeOK'
  <1> DEFINE l == req[r].lease
  <1>1. l \in Leases /\ leases[l] \in LeaseRow
    BY RequestTypes DEF TypeOK, ClaimLease, RecordLeaseUse
  <1>2. CASE ClaimLease(r)
    <2>1. CASE LeaseClaimable(l, req[r].at)
      <3>1. [leases[l] EXCEPT !.uses = @ + 1] \in LeaseRow
        BY <1>1, <2>1, Constants DEF LeaseRow, LeaseClaimable
      <3>2. leases' = [leases EXCEPT ![l] = [leases[l] EXCEPT !.uses = @ + 1]]
        BY <1>1, <1>2, <2>1 DEF ClaimLease, TypeOK
      <3>3. leases' \in [Leases -> LeaseRow]
        BY <3>1, <3>2 DEF TypeOK
      <3> QED
        BY <1>1, <1>2, <2>1, <3>3, RequestRecords DEF TypeOK, ClaimLease, UseGranted
    <2>2. CASE ~LeaseClaimable(l, req[r].at)
      BY <1>2, <2>2, RequestRecords DEF TypeOK, ClaimLease, UseGranted
    <2> QED
      BY <2>1, <2>2
  <1>3. CASE RecordLeaseUse(r)
    <2>1. [leases[l] EXCEPT !.recorded = @ + 1] \in LeaseRow
      BY <1>1 DEF LeaseRow
    <2>2. leases' = [leases EXCEPT ![l] = [leases[l] EXCEPT !.recorded = @ + 1]]
      BY <1>1, <1>3 DEF RecordLeaseUse, TypeOK
    <2>3. leases' \in [Leases -> LeaseRow]
      BY <2>1, <2>2 DEF TypeOK
    <2> QED
      BY <1>3, <2>3, RequestRecords DEF TypeOK, RecordLeaseUse
  <1> QED
    BY <1>2, <1>3

\* The lifecycle of approvals: act, consume, expire.
LEMMA TypeApproval ==
    ASSUME TypeOK, NEW r \in Workers, Approve(r) \/ Consume(r)
    PROVE  TypeOK'
  <1> DEFINE p == req[r].approval
             approved == [apps[p] EXCEPT !.status = "approved", !.grant = req[r].at + GrantTtl]
             consumed == [apps[p] EXCEPT !.consumed = @ + 1]
  <1>1. p \in Approvals /\ apps[p] \in ApprovalRow /\ req[r].at \in Nat
    BY RequestTypes DEF TypeOK, Approve, Consume
  <1>2. approved \in ApprovalRow /\ consumed \in ApprovalRow
    <2>1. req[r].at + GrantTtl \in Time
      BY <1>1, Constants DEF Time
    <2>2. approved \in ApprovalRow
      BY <1>1, <2>1 DEF ApprovalRow
    <2>3. consumed \in ApprovalRow
      BY <1>1 DEF ApprovalRow
    <2> QED
      BY <2>2, <2>3
  <1>3. \/ apps' = apps
        \/ apps' = [apps EXCEPT ![p] = approved]
        \/ apps' = [apps EXCEPT ![p] = consumed]
    BY <1>1 DEF TypeOK, Approve, Consume
  <1>4. apps' \in [Approvals -> ApprovalRow]
    BY <1>2, <1>3 DEF TypeOK
  <1> QED
    BY <1>4, RequestRecords DEF TypeOK, Approve, Consume

LEMMA TypeDenyOrExpire == ASSUME TypeOK, Deny \/ SweepExpired PROVE TypeOK'
  <1>1. apps' \in [Approvals -> ApprovalRow]
    <2>1. \A p \in Approvals : /\ [apps[p] EXCEPT !.status = "denied"] \in ApprovalRow
                              /\ [apps[p] EXCEPT !.status = "expired"] \in ApprovalRow
      BY DEF TypeOK, ApprovalRow
    <2>2. CASE Deny
      BY <2>1, <2>2 DEF TypeOK, Deny
    <2>3. CASE SweepExpired
      BY <2>1, <2>3 DEF TypeOK, SweepExpired
    <2> QED
      BY <2>2, <2>3
  <1> QED
    BY <1>1 DEF TypeOK, Deny, SweepExpired

\* The enforcement batch keeps the types of the tables it writes.
LEMMA TypeEnforce ==
    ASSUME TypeOK, NEW x, NEW i \in Incidents, NEW at, EnforceScope(x, i, at)
    PROVE  /\ leases' \in [Leases -> LeaseRow]
           /\ apps' \in [Approvals -> ApprovalRow]
           /\ invalidated' \subseteq Incidents \X Approvals
  <1>1. /\ \A l \in Leases : [leases[l] EXCEPT !.revoked = TRUE] \in LeaseRow
        /\ \A p \in Approvals : [apps[p] EXCEPT !.status = "denied"] \in ApprovalRow
    BY DEF TypeOK, LeaseRow, ApprovalRow
  <1> QED
    BY <1>1 DEF TypeOK, EnforceScope

LEMMA TypeInsertSession ==
    ASSUME TypeOK, NEW s \in Sessions, NEW at \in Nat, InsertSession(s, at)
    PROVE  sess' \in [Sessions -> SessionRow]
  <1>1. PICK ttl \in SessionTtls :
            sess' = [sess EXCEPT ![s] = [status |-> "open", expires |-> at + ttl]]
    BY DEF InsertSession
  <1>2. [status |-> "open", expires |-> at + ttl] \in SessionRow
    BY Constants DEF SessionRow, Time
  <1> QED
    BY <1>1, <1>2 DEF TypeOK

LEMMA TypeQuarantine ==
    ASSUME TypeOK, NEW r \in Workers, Quarantine(r) PROVE TypeOK'
  <1> DEFINE x == req[r].subject
             at == req[r].at
  <1>1. x \in Subjects /\ at \in Nat /\ risk[x] \in SubjectRow
    BY RequestTypes DEF TypeOK, Quarantine
  <1>4. sess' \in [Sessions -> SessionRow]
    <2>1. req[r].opens \in Sessions \cup {None}
      BY RequestTypes DEF TypeOK, Quarantine
    <2>2. CASE req[r].opens # None /\ InsertSession(req[r].opens, at)
      BY <1>1, <2>1, <2>2, TypeInsertSession
    <2>3. CASE UNCHANGED sess
      BY <2>3 DEF TypeOK
    <2> QED
      BY <2>2, <2>3 DEF Quarantine
  <1>2. CASE Quarantinable(x) /\ EpochAdvances(x, at)
    <2>1. PICK i \in Incidents :
              /\ risk' = [risk EXCEPT ![x] =
                     [risk[x] EXCEPT !.state = "quarantined", !.epoch = at, !.incident = i]]
              /\ inc' = [inc EXCEPT ![i] = [status |-> "open", subject |-> x, opened |-> at]]
              /\ EnforceScope(x, i, at)
              /\ req' = [req EXCEPT ![r] = [op |-> "verify", incident |-> i]]
      BY <1>1, <1>2 DEF Quarantine, TypeOK
    <2>2. /\ [risk[x] EXCEPT !.state = "quarantined", !.epoch = at, !.incident = i] \in SubjectRow
          /\ [status |-> "open", subject |-> x, opened |-> at] \in IncidentRow
      BY <1>1 DEF SubjectRow, IncidentRow, Time
    <2>3. risk' \in [Subjects -> SubjectRow] /\ inc' \in [Incidents -> IncidentRow]
      BY <2>1, <2>2 DEF TypeOK
    <2> QED
      BY <1>2, <1>4, <2>1, <2>3, TypeEnforce, RequestRecords DEF TypeOK, Quarantine
  <1>3. CASE ~(Quarantinable(x) /\ EpochAdvances(x, at))
    BY <1>3, <1>4, RequestRecords DEF TypeOK, Quarantine
  <1> QED
    BY <1>2, <1>3

LEMMA TypeVerify ==
    ASSUME TypeOK, NEW r \in Workers,
           VerifyRead(r) \/ VerifyEnforce(r) \/ VerifyCount(r) \/ VerifyContain(r)
    PROVE  TypeOK'
  <1> DEFINE i == req[r].incident
             x == inc[i].subject
  <1>1. i \in Incidents
    BY RequestTypes DEF TypeOK, VerifyRead, VerifyEnforce, VerifyCount, VerifyContain
  <1>2. CASE VerifyEnforce(r)
    <2>1. [op |-> "count", incident |-> i, at |-> req[r].at] \in Request /\ req[r].at \in Nat
      BY <1>1, <1>2, RequestTypes, RequestRecords DEF TypeOK, VerifyEnforce
    <2>2. req' \in [Workers -> Request]
      BY <1>2, <2>1 DEF TypeOK, VerifyEnforce
    <2>3. CASE EnforceScope(x, i, req[r].at)
      BY <1>1, <1>2, <2>1, <2>2, <2>3, TypeEnforce DEF TypeOK, VerifyEnforce
    <2>4. CASE UNCHANGED <<leases, apps, invalidated>>
      BY <1>2, <2>2, <2>4 DEF TypeOK, VerifyEnforce
    <2> QED
      BY <1>2, <2>3, <2>4 DEF VerifyEnforce
  <1>3. CASE VerifyCount(r)
    <2>1. [op |-> "contain", incident |-> i, at |-> req[r].at] \in Request
      BY <1>1, <1>3, RequestTypes, RequestRecords DEF TypeOK, VerifyCount
    <2> QED
      BY <1>3, <2>1, RequestRecords DEF TypeOK, VerifyCount
  <1>4. CASE VerifyContain(r)
    <2>1. /\ \A y \in Subjects : [risk[y] EXCEPT !.state = "contained"] \in SubjectRow
          /\ [inc[i] EXCEPT !.status = "contained"] \in IncidentRow
      BY <1>1 DEF TypeOK, SubjectRow, IncidentRow
    <2>2. risk' = risk \/ risk' = [risk EXCEPT ![x] = [risk[x] EXCEPT !.state = "contained"]]
      BY <1>4 DEF VerifyContain
    <2>3. inc' = inc \/ inc' = [inc EXCEPT ![i] = [inc[i] EXCEPT !.status = "contained"]]
      BY <1>4 DEF VerifyContain
    <2>4. risk' \in [Subjects -> SubjectRow] /\ inc' \in [Incidents -> IncidentRow]
      BY <2>1, <2>2, <2>3 DEF TypeOK
    <2> QED
      BY <1>4, <2>4, RequestRecords DEF TypeOK, VerifyContain
  <1>5. CASE VerifyRead(r)
    <2>1. PICK at \in Clocks :
              req' = [req EXCEPT ![r] = IF AwaitsContainment(i)
                         THEN [op |-> "enforce", incident |-> i, at |-> at] ELSE Idle]
      BY <1>5 DEF VerifyRead
    <2>2. [op |-> "enforce", incident |-> i, at |-> at] \in Request
      BY <1>1, ClockType, RequestRecords DEF TypeOK
    <2>3. req' \in [Workers -> Request]
      BY <2>1, <2>2, RequestRecords DEF TypeOK
    <2> QED
      BY <1>5, <2>3 DEF TypeOK, VerifyRead
  <1> QED
    BY <1>2, <1>3, <1>4, <1>5

LEMMA TypeCronVerify == ASSUME TypeOK, CronVerify PROVE TypeOK'
  BY RequestRecords, Constants DEF TypeOK, CronVerify

LEMMA TypeClear ==
    ASSUME TypeOK, NEW r \in Workers, Clear(r) PROVE TypeOK'
  <1> DEFINE i == req[r].incident
             x == inc[i].subject
             at == req[r].at
  <1>1. i \in Incidents /\ at \in Nat
    BY RequestTypes DEF TypeOK, Clear
  <1>2. /\ \A y \in Subjects :
               [risk[y] EXCEPT !.state = "normal", !.cleared = at] \in SubjectRow
        /\ [inc[i] EXCEPT !.status = "cleared"] \in IncidentRow
    <2>1. ASSUME NEW row \in SubjectRow
          PROVE  [row EXCEPT !.state = "normal", !.cleared = at] \in SubjectRow
      BY <1>1 DEF SubjectRow, Time
    <2>2. [inc[i] EXCEPT !.status = "cleared"] \in IncidentRow
      BY <1>1 DEF TypeOK, IncidentRow
    <2> QED
      BY <2>1, <2>2 DEF TypeOK
  <1>3. \/ risk' = risk
        \/ risk' = [risk EXCEPT ![x] = [risk[x] EXCEPT !.state = "normal", !.cleared = at]]
    BY DEF Clear
  <1>4. inc' = inc \/ inc' = [inc EXCEPT ![i] = [inc[i] EXCEPT !.status = "cleared"]]
    BY DEF Clear
  <1>5. risk' \in [Subjects -> SubjectRow]
    <2> DEFINE row(y) == [risk[y] EXCEPT !.state = "normal", !.cleared = at]
    <2>1. risk' = risk \/ risk' = [risk EXCEPT ![x] = row(x)]
      BY <1>3
    <2>2. \A y \in Subjects : row(y) \in SubjectRow
      BY <1>2
    <2> HIDE DEF row
    <2> QED
      BY <2>1, <2>2 DEF TypeOK
  <1>6. inc' \in [Incidents -> IncidentRow]
    BY <1>2, <1>4 DEF TypeOK
  <1>7. cleared' \in [Incidents -> Nat]
    BY <1>1 DEF TypeOK, Clear
  <1> QED
    BY <1>5, <1>6, <1>7, RequestRecords DEF TypeOK, Clear

LEMMA TypeSession ==
    ASSUME TypeOK, (\E r \in Workers : OpenSession(r)) \/ CloseSession PROVE TypeOK'
  <1>1. CASE \E r \in Workers : OpenSession(r)
    <2>1. PICK r \in Workers : OpenSession(r)
      BY <1>1
    <2>2. req[r].session \in Sessions /\ req[r].at \in Nat
      BY <2>1, RequestTypes DEF TypeOK, OpenSession
    <2>3. InsertSession(req[r].session, req[r].at)
      BY <2>1 DEF OpenSession
    <2>4. sess' \in [Sessions -> SessionRow]
      BY <2>2, <2>3, TypeInsertSession
    <2> QED
      BY <2>1, <2>4, RequestRecords DEF TypeOK, OpenSession
  <1>2. CASE CloseSession
    <2>1. \A s \in Sessions : [sess[s] EXCEPT !.status = "closed"] \in SessionRow
      BY DEF TypeOK, SessionRow
    <2> QED
      BY <1>2, <2>1 DEF TypeOK, CloseSession
  <1> QED
    BY <1>1, <1>2

LEMMA TypeEnvironment ==
    ASSUME TypeOK, Tick \/ EndOfTime \/ (\E r \in Workers : Crash(r)) \/ UNCHANGED vars
    PROVE  TypeOK'
  BY RequestRecords DEF TypeOK, Tick, EndOfTime, Crash, vars

LEMMA TypeStep == TypeOK /\ [Next]_vars => TypeOK'
  BY TypeReads, TypeIssueLease, TypeRequestApproval, TypeUseLease, TypeApproval,
     TypeDenyOrExpire, TypeQuarantine, TypeVerify, TypeCronVerify, TypeClear, TypeSession,
     TypeEnvironment DEF Next

\* Every table keeps its columns' types; in particular no lease is used more than MaxUses times.
THEOREM TypeCorrect == Spec => []TypeOK
  BY TypeInit, TypeStep, PTL DEF Spec

-----------------------------------------------------------------------------
(* Incidents and their subjects *)

\* The handlers that work on an incident.
IncidentOps == {"verify", "enforce", "count", "contain", "clear"}

\* A handler holds the id of an incident that exists,
HandledIncidentsExist ==
    \A r \in Workers :
        req[r].op \in IncidentOps => inc[req[r].incident].status # "none"

\* and an incident that exists has a subject.
IncidentsHaveSubjects ==
    \A i \in Incidents : inc[i].status # "none" => inc[i].subject \in Subjects

\* With these two, the agreement is inductive: a handler's incident that is no longer active
\* is carried by no contained subject, so the guarded UPDATEs change both rows or neither.
IncidentInv ==
    /\ IncidentAgreement
    /\ ClearedIsRecorded
    /\ IncidentsHaveSubjects
    /\ HandledIncidentsExist

LEMMA IncidentInit == Init => IncidentInv
  <1> SUFFICES ASSUME Init PROVE IncidentInv
    OBVIOUS
  <1>1. IncidentAgreement
    BY DEF Init, IncidentAgreement, Contained, NoIncident
  <1>2. ClearedIsRecorded /\ IncidentsHaveSubjects
    BY DEF Init, ClearedIsRecorded, IncidentsHaveSubjects, NoIncident
  <1>3. HandledIncidentsExist
    BY DEF Init, HandledIncidentsExist, IncidentOps, Idle
  <1> QED
    BY <1>1, <1>2, <1>3 DEF IncidentInv

\* A step of one handler that writes none of the three tables.
LEMMA IncidentFrame ==
    ASSUME TypeOK, IncidentInv, UNCHANGED <<risk, inc, cleared>>,
           NEW r \in Workers, NEW q \in Request, req' = [req EXCEPT ![r] = q],
           q.op \in IncidentOps => inc[q.incident].status # "none"
    PROVE  IncidentInv'
  <1>1. IncidentAgreement' /\ ClearedIsRecorded' /\ IncidentsHaveSubjects'
    BY DEF IncidentInv, IncidentAgreement, Contained, ClearedIsRecorded,
           IncidentsHaveSubjects
  <1>2. HandledIncidentsExist'
    BY DEF TypeOK, IncidentInv, HandledIncidentsExist
  <1> QED
    BY <1>1, <1>2 DEF IncidentInv

LEMMA IncidentReads ==
    ASSUME TypeOK, IncidentInv, NEW r \in Workers,
           \/ EvaluateRead(r) \/ UseLeaseRead(r) \/ ApprovalRead(r)
           \/ QuarantineRead(r) \/ ClearRead(r) \/ OpenRead(r)
    PROVE  IncidentInv'
  <1>1. /\ req' = [req EXCEPT ![r] = req'[r]]
        /\ req'[r].op \in IncidentOps => inc[req'[r].incident].status # "none"
    <2>1. CASE EvaluateRead(r)
      BY <2>1 DEF EvaluateRead, IncidentOps, TypeOK
    <2>2. CASE UseLeaseRead(r)
      BY <2>2 DEF UseLeaseRead, IncidentOps, TypeOK
    <2>3. CASE ApprovalRead(r)
      BY <2>3 DEF ApprovalRead, IncidentOps, TypeOK
    <2>4. CASE QuarantineRead(r)
      BY <2>4 DEF QuarantineRead, IncidentOps, TypeOK
    <2>5. CASE ClearRead(r)
      BY <2>5 DEF ClearRead, Clearable, IncidentOps, TypeOK
    <2>6. CASE OpenRead(r)
      BY <2>6 DEF OpenRead, IncidentOps, TypeOK
    <2> QED
      BY <2>1, <2>2, <2>3, <2>4, <2>5, <2>6
  <1>2. req'[r] \in Request
    BY TypeReads DEF TypeOK
  <1>3. UNCHANGED <<risk, inc, cleared>>
    BY DEF EvaluateRead, UseLeaseRead, ApprovalRead, QuarantineRead, ClearRead, OpenRead
  <1> QED
    BY <1>1, <1>2, <1>3, IncidentFrame

\* The writes of the other handlers.
LEMMA IncidentOtherWrites ==
    ASSUME TypeOK, IncidentInv, NEW r \in Workers,
           \/ IssueLease(r) \/ RequestApproval(r) \/ ClaimLease(r) \/ RecordLeaseUse(r)
           \/ Approve(r) \/ Consume(r) \/ OpenSession(r) \/ Crash(r)
    PROVE  IncidentInv'
  <1>1. UNCHANGED <<risk, inc, cleared>>
    BY DEF IssueLease, RequestApproval, ClaimLease, RecordLeaseUse, Approve, Consume,
           OpenSession, Crash
  <1>2. PICK q \in {Idle} \cup [op : {"record"}, lease : Leases] : req' = [req EXCEPT ![r] = q]
    <2>1. CASE ClaimLease(r)
      <3>1. req[r].lease \in Leases
        BY <2>1, RequestTypes DEF TypeOK, ClaimLease
      <3> QED
        BY <2>1, <3>1 DEF ClaimLease
    <2>2. CASE ~ClaimLease(r)
      BY <2>2 DEF IssueLease, RequestApproval, RecordLeaseUse, Approve, Consume,
                  OpenSession, Crash
    <2> QED
      BY <2>1, <2>2
  <1>3. q \in Request /\ q.op \notin IncidentOps
    BY DEF Request, Idle, IncidentOps
  <1> QED
    BY <1>1, <1>2, <1>3, IncidentFrame

LEMMA IncidentOthers ==
    ASSUME TypeOK, IncidentInv,
           Deny \/ SweepExpired \/ CloseSession \/ Tick \/ EndOfTime \/ UNCHANGED vars
    PROVE  IncidentInv'
  <1>1. UNCHANGED <<risk, inc, cleared, req>>
    BY DEF Deny, SweepExpired, CloseSession, Tick, EndOfTime, vars
  <1> QED
    BY <1>1 DEF IncidentInv, IncidentAgreement, Contained, ClearedIsRecorded,
                IncidentsHaveSubjects, HandledIncidentsExist

LEMMA IncidentCronVerify ==
    ASSUME TypeOK, IncidentInv, CronVerify PROVE IncidentInv'
  <1>1. PICK i \in Incidents :
            /\ Overdue(i)
            /\ req' = [req EXCEPT ![Cron] = [op |-> "verify", incident |-> i]]
    BY DEF CronVerify
  <1>2. inc[i].status # "none"
    BY <1>1 DEF Overdue
  <1> QED
    BY <1>1, <1>2, Constants, RequestRecords, IncidentFrame DEF CronVerify

\* Verification keeps hold of one incident.
LEMMA IncidentVerify ==
    ASSUME TypeOK, IncidentInv, NEW r \in Workers,
           VerifyRead(r) \/ VerifyEnforce(r) \/ VerifyCount(r)
    PROVE  IncidentInv'
  <1> DEFINE i == req[r].incident
  <1>1. i \in Incidents /\ inc[i].status # "none"
    BY RequestTypes DEF TypeOK, IncidentInv, HandledIncidentsExist, IncidentOps,
                        VerifyRead, VerifyEnforce, VerifyCount
  <1>2. /\ req' = [req EXCEPT ![r] = req'[r]]
        /\ req'[r].op \in IncidentOps => req'[r].incident = i
    <2>1. CASE VerifyRead(r)
      BY <2>1 DEF VerifyRead, IncidentOps, TypeOK, Idle
    <2>2. CASE VerifyEnforce(r) \/ VerifyCount(r)
      BY <2>2 DEF VerifyEnforce, VerifyCount, IncidentOps, TypeOK, Idle
    <2> QED
      BY <2>1, <2>2
  <1>3. req'[r] \in Request
    BY TypeVerify DEF TypeOK
  <1>4. UNCHANGED <<risk, inc, cleared>>
    BY DEF VerifyRead, VerifyEnforce, VerifyCount
  <1> QED
    BY <1>1, <1>2, <1>3, <1>4, IncidentFrame

\* What the agreement says of one incident and its subject.
LEMMA ActiveIncident ==
    ASSUME TypeOK, IncidentInv, NEW i \in Incidents, inc[i].status # "none"
    PROVE  /\ inc[i].subject \in Subjects
           /\ inc[i].status \in {"open", "contained"} <=> Carries(inc[i].subject, i)
           /\ inc[i].status = "open" <=> ContainsSubject(inc[i].subject, i)
  <1> DEFINE x == inc[i].subject
  <1>1. x \in Subjects
    BY DEF IncidentInv, IncidentsHaveSubjects
  <1>2. Contained(x) /\ risk[x].incident = i =>
            inc[i].status = IF risk[x].state = "quarantined" THEN "open" ELSE "contained"
    BY <1>1 DEF IncidentInv, IncidentAgreement
  <1>3. inc[i].status \in {"open", "contained"} => Contained(x) /\ risk[x].incident = i
    BY DEF IncidentInv, IncidentAgreement
  <1> QED
    BY <1>1, <1>2, <1>3 DEF Carries, ContainsSubject, Contained

\* One subject's row and one incident's row written together. No other subject carries the
\* incident and no other active incident names the subject.
LEMMA IncidentWrite ==
    ASSUME TypeOK, IncidentAgreement, NEW x \in Subjects, NEW i \in Incidents,
           NEW row \in SubjectRow, NEW irow \in IncidentRow,
           risk' = [risk EXCEPT ![x] = row], inc' = [inc EXCEPT ![i] = irow],
           \A y \in Subjects \ {x} : Contained(y) => risk[y].incident # i,
           \A j \in Incidents \ {i} :
               inc[j].status \in {"open", "contained"} => inc[j].subject # x,
           row.state \in {"quarantined", "contained"} =>
               /\ row.incident = i /\ irow.subject = x /\ irow.opened = row.epoch
               /\ irow.status = IF row.state = "quarantined" THEN "open" ELSE "contained",
           irow.status \in {"open", "contained"} =>
               row.state \in {"quarantined", "contained"}
    PROVE  IncidentAgreement'
  <1>1. risk'[x] = row /\ \A y \in Subjects \ {x} : risk'[y] = risk[y]
    BY DEF TypeOK
  <1>2. inc'[i] = irow /\ \A j \in Incidents \ {i} : inc'[j] = inc[j]
    BY DEF TypeOK
  <1>3. ASSUME NEW y \in Subjects, Contained(y)'
        PROVE  /\ risk'[y].incident \in Incidents
               /\ inc'[risk'[y].incident].subject = y
               /\ inc'[risk'[y].incident].opened = risk'[y].epoch
               /\ inc'[risk'[y].incident].status =
                      IF risk'[y].state = "quarantined" THEN "open" ELSE "contained"
    <2>1. CASE y = x
      BY <1>1, <1>2, <1>3, <2>1 DEF Contained
    <2>2. CASE y # x
      <3>1. risk'[y] = risk[y] /\ Contained(y)
        BY <1>1, <1>3, <2>2 DEF Contained
      <3>2. risk[y].incident \in Incidents \ {i}
        BY <2>2, <3>1 DEF IncidentAgreement
      <3>3. inc'[risk[y].incident] = inc[risk[y].incident]
        BY <1>2, <3>2
      <3> QED
        BY <3>1, <3>3 DEF IncidentAgreement
    <2> QED
      BY <2>1, <2>2
  <1>4. ASSUME NEW j \in Incidents, inc'[j].status \in {"open", "contained"}
        PROVE  /\ inc'[j].subject \in Subjects
               /\ Contained(inc[j].subject)'
               /\ risk'[inc'[j].subject].incident = j
    <2>1. CASE j = i
      BY <1>1, <1>2, <1>4, <2>1 DEF Contained
    <2>2. CASE j # i
      <3>1. inc'[j] = inc[j] /\ inc[j].subject # x
        BY <1>2, <1>4, <2>2
      <3>2. /\ inc[j].subject \in Subjects /\ Contained(inc[j].subject)
            /\ risk[inc[j].subject].incident = j
        BY <1>4, <3>1 DEF IncidentAgreement
      <3>3. risk'[inc[j].subject] = risk[inc[j].subject]
        BY <1>1, <3>1, <3>2
      <3> QED
        BY <3>1, <3>2, <3>3 DEF Contained
    <2> QED
      BY <2>1, <2>2
  <1> QED
    BY <1>3, <1>4 DEF IncidentAgreement

\* The incident of a subject is nobody else's.
LEMMA OwnIncident ==
    ASSUME TypeOK, IncidentAgreement, NEW x \in Subjects, NEW i \in Incidents,
           Contained(x), risk[x].incident = i
    PROVE  /\ inc[i].subject = x
           /\ inc[i].opened = risk[x].epoch
           /\ inc[i].status = IF risk[x].state = "quarantined" THEN "open" ELSE "contained"
           /\ \A y \in Subjects \ {x} : Contained(y) => risk[y].incident # i
           /\ \A j \in Incidents \ {i} :
                  inc[j].status \in {"open", "contained"} => inc[j].subject # x
  BY DEF IncidentAgreement

LEMMA IncidentVerifyContain ==
    ASSUME TypeOK, IncidentInv, NEW r \in Workers, VerifyContain(r)
    PROVE  IncidentInv'
  <1> DEFINE i == req[r].incident
             x == inc[i].subject
  <1>1. i \in Incidents /\ inc[i].status # "none"
    BY RequestTypes DEF TypeOK, IncidentInv, HandledIncidentsExist, IncidentOps, VerifyContain
  <1>2. req' = [req EXCEPT ![r] = Idle] /\ cleared' = cleared
    BY DEF VerifyContain
  <1>3. CASE inc[i].status = "open"
    <2> DEFINE row == [risk[x] EXCEPT !.state = "contained"]
               irow == [inc[i] EXCEPT !.status = "contained"]
    <2>1. /\ risk[x].incident = i /\ risk[x].state = "quarantined" /\ Contained(x)
          /\ x \in Subjects
      BY <1>1, <1>3, ActiveIncident DEF ContainsSubject, Contained
    <2>2. risk' = [risk EXCEPT ![x] = row] /\ inc' = [inc EXCEPT ![i] = irow]
      BY <1>3, <2>1 DEF VerifyContain, ContainsSubject, ContainsIncident
    <2>3. /\ row \in SubjectRow /\ row.state = "contained"
          /\ row.incident = i /\ row.epoch = risk[x].epoch
      BY <2>1 DEF TypeOK, SubjectRow
    <2>4. /\ irow \in IncidentRow /\ irow.status = "contained"
          /\ irow.subject = x /\ irow.opened = inc[i].opened
      BY <1>1 DEF TypeOK, IncidentRow
    <2> HIDE DEF row, irow
    <2>5. IncidentAgreement'
      <3>1. /\ inc[i].opened = risk[x].epoch
            /\ \A y \in Subjects \ {x} : Contained(y) => risk[y].incident # i
            /\ \A j \in Incidents \ {i} :
                   inc[j].status \in {"open", "contained"} => inc[j].subject # x
        BY <1>1, <2>1, OwnIncident DEF IncidentInv
      <3>2. row.state \in {"quarantined", "contained"} =>
                /\ row.incident = i /\ irow.subject = x /\ irow.opened = row.epoch
                /\ irow.status = IF row.state = "quarantined" THEN "open" ELSE "contained"
        BY <2>3, <2>4, <3>1
      <3>3. irow.status \in {"open", "contained"} => row.state \in {"quarantined", "contained"}
        BY <2>3
      <3>4. i \in Incidents /\ x \in Subjects /\ row \in SubjectRow /\ irow \in IncidentRow
        BY <1>1, <2>1, <2>3, <2>4
      <3>5. IncidentAgreement
        BY DEF IncidentInv
      <3> HIDE DEF i, x
      <3> QED
        BY <2>2, <3>1, <3>2, <3>3, <3>4, <3>5, IncidentWrite
    <2>6. ClearedIsRecorded' /\ IncidentsHaveSubjects'
      BY <1>1, <1>2, <1>3, <2>1, <2>2, <2>4
         DEF TypeOK, IncidentInv, ClearedIsRecorded, IncidentsHaveSubjects
    <2>7. HandledIncidentsExist'
      BY <1>1, <1>2, <2>2, <2>4, RequestTypes
         DEF TypeOK, IncidentInv, HandledIncidentsExist, IncidentOps, Idle
    <2> QED
      BY <2>5, <2>6, <2>7 DEF IncidentInv
  <1>4. CASE inc[i].status # "open"
    <2>1. UNCHANGED <<risk, inc>>
      BY <1>1, <1>4, ActiveIncident DEF VerifyContain, ContainsIncident
    <2> QED
      BY <1>2, <2>1, RequestRecords, IncidentFrame DEF Idle, IncidentOps
  <1> QED
    BY <1>3, <1>4

LEMMA IncidentClear ==
    ASSUME TypeOK, IncidentInv, NEW r \in Workers, Clear(r)
    PROVE  IncidentInv'
  <1> DEFINE i == req[r].incident
             x == inc[i].subject
             at == req[r].at
  <1>1. i \in Incidents /\ at \in Nat /\ inc[i].status # "none"
    BY RequestTypes DEF TypeOK, IncidentInv, HandledIncidentsExist, IncidentOps, Clear
  <1>2. req' = [req EXCEPT ![r] = Idle]
    BY DEF Clear
  <1>3. CASE Carries(x, i) /\ ~ClearanceAdvances(x, at)
    BY <1>2, <1>3, RequestRecords, IncidentFrame DEF Clear, Idle, IncidentOps
  <1>4. CASE Carries(x, i) /\ ClearanceAdvances(x, at)
    <2> DEFINE row == [risk[x] EXCEPT !.state = "normal", !.cleared = at]
               irow == [inc[i] EXCEPT !.status = "cleared"]
    <2>1. /\ x \in Subjects /\ inc[i].status \in {"open", "contained"}
          /\ risk[x].incident = i /\ Contained(x)
      BY <1>1, <1>4, ActiveIncident DEF Carries
    <2>2. /\ risk' = [risk EXCEPT ![x] = row] /\ inc' = [inc EXCEPT ![i] = irow]
          /\ cleared' = [cleared EXCEPT ![i] = @ + 1]
      BY <1>4, <2>1 DEF Clear, ClearsIncident
    <2>3. row \in SubjectRow /\ row.state = "normal"
      BY <1>1, <2>1 DEF TypeOK, SubjectRow, Time
    <2>4. irow \in IncidentRow /\ irow.status = "cleared" /\ irow.subject = x
      BY <1>1 DEF TypeOK, IncidentRow
    <2> HIDE DEF row, irow
    <2>5. IncidentAgreement'
      <3>1. IncidentAgreement
        BY DEF IncidentInv
      <3>2. /\ \A y \in Subjects \ {x} : Contained(y) => risk[y].incident # i
            /\ \A j \in Incidents \ {i} :
                   inc[j].status \in {"open", "contained"} => inc[j].subject # x
        BY <1>1, <2>1, <3>1, OwnIncident
      <3>3. row.state \notin {"quarantined", "contained"}
            /\ irow.status \notin {"open", "contained"}
        BY <2>3, <2>4
      <3>4. i \in Incidents /\ x \in Subjects
        BY <1>1, <2>1
      <3> HIDE DEF i, x
      <3> QED
        BY <2>2, <2>3, <2>4, <3>1, <3>2, <3>3, <3>4, IncidentWrite
    <2>6. ClearedIsRecorded' /\ IncidentsHaveSubjects'
      BY <1>1, <2>1, <2>2, <2>4
         DEF TypeOK, IncidentInv, ClearedIsRecorded, IncidentsHaveSubjects
    <2>7. HandledIncidentsExist'
      BY <1>1, <1>2, <2>2, <2>4, RequestTypes
         DEF TypeOK, IncidentInv, HandledIncidentsExist, IncidentOps, Idle
    <2> QED
      BY <2>5, <2>6, <2>7 DEF IncidentInv
  \* A second clearance: only its event is written.
  <1>5. CASE ~Carries(x, i)
    <2>1. inc[i].status = "cleared"
      BY <1>1, <1>5, ActiveIncident DEF TypeOK, IncidentRow
    <2>2. UNCHANGED <<risk, inc>> /\ cleared' = [cleared EXCEPT ![i] = @ + 1]
      BY <1>5, <2>1 DEF Clear, ClearsIncident
    <2>3. IncidentAgreement' /\ IncidentsHaveSubjects'
      BY <2>2 DEF IncidentInv, IncidentAgreement, Contained, IncidentsHaveSubjects
    <2>4. ClearedIsRecorded'
      BY <1>1, <2>1, <2>2 DEF TypeOK, IncidentInv, ClearedIsRecorded
    <2>5. HandledIncidentsExist'
      BY <1>2, <2>2 DEF TypeOK, IncidentInv, HandledIncidentsExist, IncidentOps, Idle
    <2> QED
      BY <2>3, <2>4, <2>5 DEF IncidentInv
  <1> QED
    BY <1>3, <1>4, <1>5

LEMMA IncidentQuarantine ==
    ASSUME TypeOK, IncidentInv, NEW r \in Workers, Quarantine(r)
    PROVE  IncidentInv'
  <1> DEFINE x == req[r].subject
             at == req[r].at
  <1>1. x \in Subjects /\ at \in Nat /\ cleared' = cleared
    BY RequestTypes DEF TypeOK, Quarantine
  <1>2. CASE Quarantinable(x) /\ EpochAdvances(x, at)
    <2>1. PICK i \in Incidents :
              /\ inc[i].status = "none"
              /\ risk' = [risk EXCEPT ![x] =
                     [risk[x] EXCEPT !.state = "quarantined", !.epoch = at, !.incident = i]]
              /\ inc' = [inc EXCEPT ![i] = [status |-> "open", subject |-> x, opened |-> at]]
              /\ req' = [req EXCEPT ![r] = [op |-> "verify", incident |-> i]]
      BY <1>1, <1>2 DEF Quarantine, TypeOK
    <2> DEFINE row == [risk[x] EXCEPT !.state = "quarantined", !.epoch = at, !.incident = i]
               irow == [status |-> "open", subject |-> x, opened |-> at]
    <2>2. /\ row \in SubjectRow /\ row.state = "quarantined"
          /\ row.epoch = at /\ row.incident = i
      BY <1>1 DEF TypeOK, SubjectRow, Time
    <2>3. /\ irow \in IncidentRow /\ irow.status = "open"
          /\ irow.subject = x /\ irow.opened = at
      BY <1>1 DEF IncidentRow, Time
    <2>4. risk' = [risk EXCEPT ![x] = row] /\ inc' = [inc EXCEPT ![i] = irow]
      BY <2>1
    <2> HIDE DEF row, irow
    <2>5. IncidentAgreement'
      <3>1. IncidentAgreement
        BY DEF IncidentInv
      <3>2. \A y \in Subjects \ {x} : Contained(y) => risk[y].incident # i
        BY <2>1, <3>1 DEF IncidentAgreement
      <3>3. \A j \in Incidents \ {i} :
                inc[j].status \in {"open", "contained"} => inc[j].subject # x
        BY <1>2, <3>1 DEF IncidentAgreement, Quarantinable
      <3>4. /\ row.state \in {"quarantined", "contained"} =>
                   /\ row.incident = i /\ irow.subject = x /\ irow.opened = row.epoch
                   /\ irow.status = IF row.state = "quarantined" THEN "open" ELSE "contained"
            /\ irow.status \in {"open", "contained"} =>
                   row.state \in {"quarantined", "contained"}
        BY <2>2, <2>3
      <3>5. x \in Subjects /\ i \in Incidents /\ row \in SubjectRow /\ irow \in IncidentRow
        BY <1>1, <2>2, <2>3
      <3> HIDE DEF x, at
      <3> QED
        BY <2>4, <3>1, <3>2, <3>3, <3>4, <3>5, IncidentWrite
    <2>6. ClearedIsRecorded' /\ IncidentsHaveSubjects'
      BY <1>1, <2>1, <2>3, <2>4
         DEF TypeOK, IncidentInv, ClearedIsRecorded, IncidentsHaveSubjects
    <2>7. HandledIncidentsExist'
      <3>1. req'[r] = [op |-> "verify", incident |-> i]
            /\ \A w \in Workers \ {r} : req'[w] = req[w]
        BY <2>1 DEF TypeOK
      <3>2. inc'[i].status = "open" /\ \A j \in Incidents \ {i} : inc'[j] = inc[j]
        BY <2>3, <2>4 DEF TypeOK
      <3> QED
        BY <3>1, <3>2, RequestTypes DEF TypeOK, IncidentInv, HandledIncidentsExist, IncidentOps
    <2> QED
      BY <2>5, <2>6, <2>7 DEF IncidentInv
  <1>3. CASE ~(Quarantinable(x) /\ EpochAdvances(x, at))
    BY <1>1, <1>3, RequestRecords, IncidentFrame DEF Quarantine, Idle, IncidentOps
  <1> QED
    BY <1>2, <1>3

LEMMA IncidentStep == TypeOK /\ IncidentInv /\ [Next]_vars => IncidentInv'
  BY IncidentReads, IncidentOtherWrites, IncidentOthers, IncidentCronVerify, IncidentVerify,
     IncidentVerifyContain, IncidentClear, IncidentQuarantine DEF Next

LEMMA IncidentCorrect == Spec => []IncidentInv
  BY IncidentInit, IncidentStep, TypeCorrect, PTL DEF Spec

\* A subject and its incident agree, whatever quarantines, verifications, clearances and
\* crashes interleave (containment.ts).
THEOREM IncidentsAgree == Spec => []IncidentAgreement
  BY IncidentCorrect, PTL DEF IncidentInv

\* The audit trail says of exactly the cleared incidents that they are cleared.
THEOREM ClearancesAreRecorded == Spec => []ClearedIsRecorded
  BY IncidentCorrect, PTL DEF IncidentInv

-----------------------------------------------------------------------------
(* Epochs *)

\* The steps that write risk_subjects.
LEMMA RiskWriters ==
    ASSUME [Next]_vars
    PROVE  \/ risk' = risk
           \/ \E r \in Workers : Quarantine(r) \/ VerifyContain(r) \/ Clear(r)
  <1>1. ASSUME NEW r \in Workers,
               \/ EvaluateRead(r) \/ IssueLease(r) \/ RequestApproval(r)
               \/ UseLeaseRead(r) \/ ClaimLease(r) \/ RecordLeaseUse(r)
               \/ ApprovalRead(r) \/ Approve(r) \/ Consume(r) \/ QuarantineRead(r)
               \/ VerifyRead(r) \/ VerifyEnforce(r) \/ VerifyCount(r) \/ ClearRead(r)
               \/ OpenRead(r) \/ OpenSession(r) \/ Crash(r)
        PROVE  risk' = risk
    BY <1>1 DEF EvaluateRead, IssueLease, RequestApproval, UseLeaseRead, ClaimLease,
       RecordLeaseUse, ApprovalRead, Approve, Consume, QuarantineRead, VerifyRead,
       VerifyEnforce, VerifyCount, ClearRead, OpenRead, OpenSession, Crash
  <1>2. ASSUME \/ Deny \/ SweepExpired \/ CronVerify \/ CloseSession \/ Tick \/ EndOfTime
               \/ UNCHANGED vars
        PROVE  risk' = risk
    BY <1>2 DEF Deny, SweepExpired, CronVerify, CloseSession, Tick, EndOfTime, vars
  <1> QED
    BY <1>1, <1>2 DEF Next

\* The one batch that writes an epoch or the incident of a subject is a quarantine's.
LEMMA EpochsFrame ==
    ASSUME TypeOK, ~(\E r \in Workers : Quarantine(r)), [Next]_vars
    PROVE  \A x \in Subjects : /\ risk'[x].epoch = risk[x].epoch
                               /\ risk'[x].incident = risk[x].incident
  <1>1. CASE \E r \in Workers : VerifyContain(r)
    BY <1>1 DEF VerifyContain, TypeOK, SubjectRow
  <1>2. CASE \E r \in Workers : Clear(r)
    BY <1>2 DEF Clear, TypeOK, SubjectRow
  <1>3. CASE ~((\E r \in Workers : VerifyContain(r)) \/ (\E r \in Workers : Clear(r)))
    <2>1. risk' = risk
      BY <1>3, RiskWriters
    <2> QED
      BY <2>1
  <1> QED
    BY <1>1, <1>2, <1>3

\* What EpochsMoveForward says of one step and one subject.
EpochMoves(x) ==
    /\ risk'[x].epoch >= risk[x].epoch
    /\ risk'[x].incident # risk[x].incident => risk'[x].epoch > risk[x].epoch
    /\ Contained(x) => /\ risk'[x].epoch = risk[x].epoch
                       /\ risk'[x].incident = risk[x].incident

LEMMA EpochsStep ==
    ASSUME TypeOK, [Next]_vars
    PROVE  \A x \in Subjects : EpochMoves(x)
  <1>1. \A x \in Subjects : risk[x].epoch \in Int
    BY DEF TypeOK, SubjectRow, Time, Never
  <1>2. CASE \E r \in Workers : Quarantine(r)
    <2>1. PICK r \in Workers : Quarantine(r)
      BY <1>2
    <2> DEFINE x == req[r].subject
               at == req[r].at
    <2>2. x \in Subjects /\ at \in Nat
      BY <2>1, RequestTypes DEF TypeOK, Quarantine
    <2>3. CASE Quarantinable(x) /\ EpochAdvances(x, at)
      <3>1. PICK i \in Incidents :
                risk' = [risk EXCEPT ![x] =
                    [risk[x] EXCEPT !.state = "quarantined", !.epoch = at, !.incident = i]]
        BY <2>1, <2>2, <2>3 DEF Quarantine, TypeOK
      <3>2. risk'[x].epoch = at /\ \A y \in Subjects \ {x} : risk'[y] = risk[y]
        BY <2>2, <3>1 DEF TypeOK, SubjectRow
      <3> QED
        BY <1>1, <2>2, <2>3, <3>2 DEF Quarantinable, EpochAdvances, EpochMoves
    <2>4. CASE ~(Quarantinable(x) /\ EpochAdvances(x, at))
      <3>1. risk' = risk
        BY <2>1, <2>4 DEF Quarantine
      <3> QED
        BY <1>1, <3>1 DEF EpochMoves
    <2> QED
      BY <2>3, <2>4
  <1>3. CASE ~(\E r \in Workers : Quarantine(r))
    BY <1>1, <1>3, EpochsFrame DEF EpochMoves
  <1> QED
    BY <1>2, <1>3

\* What a quarantine invalidated stays invalidated: the containment epoch of a subject never
\* moves back, a new incident always moves it forward, and while the subject is contained
\* neither changes (risk_subjects_transitions and the upsert's WHERE clause).
THEOREM EpochsNeverMoveBack == Spec => EpochsMoveForward
  <1>1. TypeOK /\ [Next]_vars =>
            [\A x \in Subjects :
                /\ risk'[x].epoch >= risk[x].epoch
                /\ risk'[x].incident # risk[x].incident => risk'[x].epoch > risk[x].epoch
                /\ Contained(x) => /\ risk'[x].epoch = risk[x].epoch
                                   /\ risk'[x].incident = risk[x].incident]_vars
    BY EpochsStep DEF EpochMoves
  <1> QED
    BY <1>1, TypeCorrect, PTL DEF Spec, EpochsMoveForward

-----------------------------------------------------------------------------
(* What one step can do to a row *)

LEMMA ApprovalRows ==
    ASSUME NEW row \in ApprovalRow
    PROVE  /\ \A t \in {"denied", "expired"} :
                 LET new == [row EXCEPT !.status = t] IN
                 /\ new.status = t /\ new.agent = row.agent /\ new.session = row.session
                 /\ new.consumed = row.consumed
           /\ \A g \in Time :
                 LET new == [row EXCEPT !.status = "approved", !.grant = g] IN
                 /\ new.status = "approved" /\ new.agent = row.agent
                 /\ new.session = row.session /\ new.consumed = row.consumed
           /\ LET new == [row EXCEPT !.consumed = @ + 1] IN
                 /\ new.status = row.status /\ new.agent = row.agent
                 /\ new.session = row.session /\ new.consumed = row.consumed + 1
  BY DEF ApprovalRow

\* The row of approval p is written by no step but these.
ApprovalWrites(p) ==
    \/ apps'[p] = apps[p]
    \/ /\ Requested(p)
       /\ \E t \in {"denied", "expired"} : apps'[p] = [apps[p] EXCEPT !.status = t]
    \/ \E r \in Workers :
           /\ Approve(r) /\ req[r].approval = p /\ Actionable(p, req[r].at)
           /\ apps'[p] = [apps[p] EXCEPT !.status = "approved", !.grant = req[r].at + GrantTtl]
    \/ apps[p].consumed = 0 /\ apps'[p] = [apps[p] EXCEPT !.consumed = @ + 1]
    \/ /\ ~Requested(p) /\ apps'[p].status = "pending" /\ apps'[p].consumed = 0
       /\ \E r \in Workers : /\ req[r].op = "review" /\ apps'[p].session = req[r].session
                             /\ apps'[p].agent = req[r].agent

LEMMA ApprovalWriters ==
    ASSUME TypeOK, [Next]_vars, NEW p \in Approvals
    PROVE  ApprovalWrites(p)
  <1>1. ASSUME NEW r \in Workers, Approve(r) PROVE ApprovalWrites(p)
    <2>1. req[r].approval \in Approvals
      BY <1>1, RequestTypes DEF TypeOK, Approve
    <2> QED
      BY <1>1, <2>1 DEF Approve, ApprovalWrites, TypeOK
  <1>2. ASSUME NEW r \in Workers, Consume(r) PROVE ApprovalWrites(p)
    <2>1. req[r].approval \in Approvals
      BY <1>2, RequestTypes DEF TypeOK, Consume
    <2> QED
      BY <1>2, <2>1 DEF Consume, Consumable, ApprovalWrites, TypeOK
  <1>3. ASSUME NEW r \in Workers, RequestApproval(r) PROVE ApprovalWrites(p)
    <2>1. PICK q \in Approvals :
              /\ ~Requested(q)
              /\ apps' = [apps EXCEPT ![q] =
                             NewApproval(req[r].agent, req[r].session, req[r].at)]
      BY <1>3 DEF RequestApproval
    <2>2. LET new == NewApproval(req[r].agent, req[r].session, req[r].at) IN
          new.status = "pending" /\ new.consumed = 0
          /\ new.session = req[r].session /\ new.agent = req[r].agent
      BY DEF NewApproval
    <2>3. CASE p = q
      BY <1>3, <2>1, <2>2, <2>3 DEF RequestApproval, ApprovalWrites, TypeOK
    <2>4. CASE p # q
      BY <2>1, <2>4 DEF ApprovalWrites, TypeOK
    <2> QED
      BY <2>3, <2>4
  <1>4. ASSUME Deny \/ SweepExpired PROVE ApprovalWrites(p)
    BY <1>4 DEF Deny, SweepExpired, Actionable, Requested, ApprovalWrites, TypeOK
  <1>5. ASSUME NEW r \in Workers, Quarantine(r) \/ VerifyEnforce(r) PROVE ApprovalWrites(p)
    BY <1>5 DEF Quarantine, VerifyEnforce, EnforceScope, ApprovalInScope, ApprovalWrites
  <1>6. ASSUME NEW r \in Workers,
               \/ EvaluateRead(r) \/ IssueLease(r) \/ UseLeaseRead(r) \/ ClaimLease(r)
               \/ RecordLeaseUse(r) \/ ApprovalRead(r) \/ QuarantineRead(r)
               \/ VerifyRead(r) \/ VerifyCount(r) \/ VerifyContain(r) \/ ClearRead(r) \/ Clear(r)
               \/ OpenRead(r) \/ OpenSession(r) \/ Crash(r)
        PROVE  apps' = apps
    BY <1>6 DEF EvaluateRead, IssueLease, UseLeaseRead, ClaimLease, RecordLeaseUse,
       ApprovalRead, QuarantineRead, VerifyRead, VerifyCount, VerifyContain, ClearRead, Clear,
       OpenRead, OpenSession, Crash
  <1>7. ASSUME CronVerify \/ CloseSession \/ Tick \/ EndOfTime \/ UNCHANGED vars
        PROVE  apps' = apps
    BY <1>7 DEF CronVerify, CloseSession, Tick, EndOfTime, vars
  <1>8. apps' = apps => ApprovalWrites(p)
    BY DEF ApprovalWrites
  <1> QED
    BY <1>1, <1>2, <1>3, <1>4, <1>5, <1>6, <1>7, <1>8 DEF Next

\* An approval keeps its agent and session, never becomes pending again, and is approved
\* or consumed by a guarded UPDATE only (approvals_transitions).
LEMMA ApprovalLifecycle ==
    ASSUME TypeOK, [Next]_vars, NEW p \in Approvals, Requested(p)
    PROVE  /\ apps'[p].agent = apps[p].agent /\ apps'[p].session = apps[p].session
           /\ apps'[p].status # "none"
           /\ apps'[p].status = "pending" => apps[p].status = "pending"
           /\ apps'[p].status = "approved" /\ apps[p].status # "approved" =>
                  \E r \in Workers : /\ Approve(r) /\ req[r].approval = p
                                     /\ Actionable(p, req[r].at)
           /\ apps'[p].consumed # apps[p].consumed =>
                  apps[p].consumed = 0 /\ apps'[p].consumed = 1
  <1>1. apps[p] \in ApprovalRow /\ apps[p].status # "none"
    BY DEF TypeOK, Requested
  <1>2. ApprovalWrites(p)
    BY ApprovalWriters
  <1>3. CASE apps'[p] = apps[p]
    BY <1>1, <1>3
  <1>4. CASE \E t \in {"denied", "expired"} : apps'[p] = [apps[p] EXCEPT !.status = t]
    BY <1>1, <1>4, ApprovalRows
  <1>5. CASE \E r \in Workers :
                /\ Approve(r) /\ req[r].approval = p /\ Actionable(p, req[r].at)
                /\ apps'[p] = [apps[p] EXCEPT !.status = "approved",
                                              !.grant = req[r].at + GrantTtl]
    <2>1. PICK r \in Workers :
                /\ Approve(r) /\ req[r].approval = p /\ Actionable(p, req[r].at)
                /\ apps'[p] = [apps[p] EXCEPT !.status = "approved",
                                              !.grant = req[r].at + GrantTtl]
      BY <1>5
    <2>2. req[r].at + GrantTtl \in Time
      BY <2>1, RequestTypes, Constants DEF TypeOK, Approve, Time
    <2>3. /\ apps'[p].status = "approved" /\ apps'[p].agent = apps[p].agent
          /\ apps'[p].session = apps[p].session /\ apps'[p].consumed = apps[p].consumed
      BY <1>1, <2>1, <2>2, ApprovalRows
    <2> QED
      BY <2>1, <2>3
  <1>6. CASE apps[p].consumed = 0 /\ apps'[p] = [apps[p] EXCEPT !.consumed = @ + 1]
    BY <1>1, <1>6, ApprovalRows
  <1> QED
    BY <1>2, <1>3, <1>4, <1>5, <1>6 DEF ApprovalWrites

LEMMA LeaseRows ==
    ASSUME NEW row \in LeaseRow
    PROVE  /\ LET new == [row EXCEPT !.revoked = TRUE] IN
                 /\ new.revoked = TRUE /\ new.session = row.session
                 /\ new.expires = row.expires /\ new.uses = row.uses
           /\ LET new == [row EXCEPT !.uses = @ + 1] IN
                 /\ new.revoked = row.revoked /\ new.session = row.session
                 /\ new.expires = row.expires
           /\ LET new == [row EXCEPT !.recorded = @ + 1] IN
                 /\ new.revoked = row.revoked /\ new.session = row.session
                 /\ new.expires = row.expires /\ new.uses = row.uses
  BY DEF LeaseRow

\* The row of lease l is written by no step but these.
LeaseWrites(l) ==
    \/ leases'[l] = leases[l]
    \/ leases'[l] = [leases[l] EXCEPT !.revoked = TRUE]
    \/ leases'[l] = [leases[l] EXCEPT !.recorded = @ + 1]
    \/ /\ leases'[l] = [leases[l] EXCEPT !.uses = @ + 1]
       /\ \E r \in Workers :
              ClaimLease(r) /\ req[r].lease = l /\ LeaseClaimable(l, req[r].at)
    \/ ~LeaseIssued(l) /\ leases'[l].uses = 0

LEMMA LeaseWriters ==
    ASSUME TypeOK, [Next]_vars, NEW l \in Leases
    PROVE  LeaseWrites(l)
  <1>1. ASSUME NEW r \in Workers, ClaimLease(r) PROVE LeaseWrites(l)
    <2>1. req[r].lease \in Leases
      BY <1>1, RequestTypes DEF TypeOK, ClaimLease
    <2> QED
      BY <1>1, <2>1 DEF ClaimLease, LeaseWrites, TypeOK
  <1>2. ASSUME NEW r \in Workers, RecordLeaseUse(r) PROVE LeaseWrites(l)
    <2>1. req[r].lease \in Leases
      BY <1>2, RequestTypes DEF TypeOK, RecordLeaseUse
    <2> QED
      BY <1>2, <2>1 DEF RecordLeaseUse, LeaseWrites, TypeOK
  <1>3. ASSUME NEW r \in Workers, IssueLease(r) PROVE LeaseWrites(l)
    <2>1. PICK k \in Leases, ttl \in LeaseTtls :
              /\ ~LeaseIssued(k)
              /\ leases' = [leases EXCEPT ![k] = NewLease(req[r].session, req[r].at, ttl)]
      BY <1>3 DEF IssueLease
    <2>2. NewLease(req[r].session, req[r].at, ttl).uses = 0
      BY DEF NewLease
    <2>3. CASE l = k
      BY <2>1, <2>2, <2>3 DEF LeaseWrites, TypeOK
    <2>4. CASE l # k
      BY <2>1, <2>4 DEF LeaseWrites, TypeOK
    <2> QED
      BY <2>3, <2>4
  <1>4. ASSUME NEW r \in Workers, Quarantine(r) \/ VerifyEnforce(r) PROVE LeaseWrites(l)
    BY <1>4 DEF Quarantine, VerifyEnforce, EnforceScope, LeaseWrites
  <1>5. ASSUME NEW r \in Workers,
               \/ EvaluateRead(r) \/ RequestApproval(r) \/ UseLeaseRead(r)
               \/ ApprovalRead(r) \/ Approve(r) \/ Consume(r) \/ QuarantineRead(r)
               \/ VerifyRead(r) \/ VerifyCount(r) \/ VerifyContain(r) \/ ClearRead(r) \/ Clear(r)
               \/ OpenRead(r) \/ OpenSession(r) \/ Crash(r)
        PROVE  leases' = leases
    BY <1>5 DEF EvaluateRead, RequestApproval, UseLeaseRead, ApprovalRead, Approve, Consume,
       QuarantineRead, VerifyRead, VerifyCount, VerifyContain, ClearRead, Clear, OpenRead, OpenSession,
       Crash
  <1>6. ASSUME \/ Deny \/ SweepExpired \/ CronVerify \/ CloseSession \/ Tick \/ EndOfTime
               \/ UNCHANGED vars
        PROVE  leases' = leases
    BY <1>6 DEF Deny, SweepExpired, CronVerify, CloseSession, Tick, EndOfTime, vars
  <1>7. leases' = leases => LeaseWrites(l)
    BY DEF LeaseWrites
  <1> QED
    BY <1>1, <1>2, <1>3, <1>4, <1>5, <1>6, <1>7 DEF Next

\* A lease keeps its session and its expiry, never loses its revocation, and is used by a
\* guarded UPDATE only (capability_leases_transitions).
LEMMA LeaseLifecycle ==
    ASSUME TypeOK, [Next]_vars, NEW l \in Leases
    PROVE  /\ LeaseIssued(l) =>
                  /\ leases'[l].session = leases[l].session
                  /\ leases'[l].expires = leases[l].expires
                  /\ leases[l].revoked => leases'[l].revoked
           /\ leases'[l].uses > leases[l].uses =>
                  \E r \in Workers :
                      ClaimLease(r) /\ req[r].lease = l /\ LeaseClaimable(l, req[r].at)
  <1>1. leases[l] \in LeaseRow /\ leases[l].uses \in Nat
    BY Constants DEF TypeOK, LeaseRow
  <1>2. LeaseWrites(l)
    BY LeaseWriters
  <1>3. CASE leases'[l] = leases[l]
    BY <1>1, <1>3
  <1>4. CASE leases'[l] = [leases[l] EXCEPT !.revoked = TRUE]
    BY <1>1, <1>4, LeaseRows
  <1>5. CASE leases'[l] = [leases[l] EXCEPT !.recorded = @ + 1]
    BY <1>1, <1>5, LeaseRows
  <1>6. CASE /\ leases'[l] = [leases[l] EXCEPT !.uses = @ + 1]
             /\ \E r \in Workers :
                    ClaimLease(r) /\ req[r].lease = l /\ LeaseClaimable(l, req[r].at)
    BY <1>1, <1>6, LeaseRows
  <1>7. CASE ~LeaseIssued(l) /\ leases'[l].uses = 0
    BY <1>1, <1>7
  <1> QED
    BY <1>2, <1>3, <1>4, <1>5, <1>6, <1>7 DEF LeaseWrites

\* A row that is not inserted yet is at most inserted, as a pending approval.
LEMMA ApprovalInsert ==
    ASSUME TypeOK, [Next]_vars, NEW p \in Approvals, ~Requested(p)
    PROVE  /\ apps'[p].status # "approved"
           /\ apps'[p].consumed = apps[p].consumed \/ apps'[p].consumed \in {0, 1}
  <1>1. ApprovalWrites(p) /\ apps[p] \in ApprovalRow /\ apps[p].status = "none"
    BY ApprovalWriters DEF TypeOK, Requested
  <1>2. \/ apps'[p] = apps[p]
        \/ \E t \in {"denied", "expired"} : apps'[p] = [apps[p] EXCEPT !.status = t]
        \/ apps[p].consumed = 0 /\ apps'[p] = [apps[p] EXCEPT !.consumed = @ + 1]
        \/ apps'[p].status = "pending" /\ apps'[p].consumed = 0
    BY <1>1 DEF ApprovalWrites, Actionable
  <1>3. CASE apps'[p] = apps[p] \/ (apps'[p].status = "pending" /\ apps'[p].consumed = 0)
    BY <1>1, <1>3
  <1>4. CASE \E t \in {"denied", "expired"} : apps'[p] = [apps[p] EXCEPT !.status = t]
    BY <1>1, <1>4, ApprovalRows
  <1>5. CASE apps[p].consumed = 0 /\ apps'[p] = [apps[p] EXCEPT !.consumed = @ + 1]
    BY <1>1, <1>5, ApprovalRows
  <1> QED
    BY <1>2, <1>3, <1>4, <1>5

\* The evaluation that inserts an approval is one about to record a review.
LEMMA ApprovalIsReviewed ==
    ASSUME TypeOK, [Next]_vars, NEW p \in Approvals, ~Requested(p), Requested(p)'
    PROVE  \E r \in Workers : /\ req[r].op = "review" /\ apps'[p].session = req[r].session
                              /\ apps'[p].agent = req[r].agent
  <1>1. /\ ApprovalWrites(p) /\ apps[p] \in ApprovalRow
        /\ apps[p].status = "none" /\ apps'[p].status # "none"
    BY ApprovalWriters DEF TypeOK, Requested
  <1>2. ASSUME apps'[p] = [apps[p] EXCEPT !.consumed = @ + 1] PROVE FALSE
    <2>1. apps'[p].status = apps[p].status
      BY <1>1, <1>2, ApprovalRows
    <2> QED
      BY <1>1, <2>1
  <1> QED
    BY <1>1, <1>2 DEF ApprovalWrites, Actionable

LEMMA OneExecutionStep == TypeOK /\ AtMostOneExecution /\ [Next]_vars => AtMostOneExecution'
  <1> SUFFICES ASSUME TypeOK, AtMostOneExecution, [Next]_vars, NEW p \in Approvals
               PROVE  apps'[p].consumed <= 1
    BY DEF AtMostOneExecution
  <1>1. apps[p].consumed <= 1
    BY DEF AtMostOneExecution
  <1> QED
    BY <1>1, ApprovalInsert, ApprovalLifecycle

\* However many consumes read the approval before one of them writes (consumeApproval).
THEOREM ConsumedOnce == Spec => []AtMostOneExecution
  <1>1. Init => AtMostOneExecution
    BY DEF Init, AtMostOneExecution, NoApproval
  <1> QED
    BY <1>1, OneExecutionStep, TypeCorrect, PTL DEF Spec

-----------------------------------------------------------------------------
(* Lineages *)

ParentClosed(E) == \A t \in E : ParentOf[t] # None => ParentOf[t] \in E

\* A parent-closed set of sessions holds the ancestors of its members. The recursive function
\* of Ancestry exists: w lists its ten values.
LEMMA LineageIsClosed ==
    ASSUME NEW E \in SUBSET Sessions, NEW s \in E, ParentClosed(E)
    PROVE  Ancestry[s] \subseteq E
  <1> DEFINE Up(S) == S \cup ({ParentOf[t] : t \in S} \ {None})
             F(f) == [n \in 0..(MaxDepth + 1) |-> IF n = 0 THEN {s} ELSE Up(f[n - 1])]
             u1 == Up({s})
             u2 == Up(u1)
             u3 == Up(u2)
             u4 == Up(u3)
             u5 == Up(u4)
             u6 == Up(u5)
             u7 == Up(u6)
             u8 == Up(u7)
             u9 == Up(u8)
             w == [n \in 0..(MaxDepth + 1) |->
                      CASE n = 0 -> {s} [] n = 1 -> u1 [] n = 2 -> u2 [] n = 3 -> u3
                        [] n = 4 -> u4 [] n = 5 -> u5 [] n = 6 -> u6 [] n = 7 -> u7
                        [] n = 8 -> u8 [] n = 9 -> u9]
             up == CHOOSE f : f = F(f)
  <1>1. Ancestry[s] = up[MaxDepth + 1]
    BY DEF Ancestry
  <1>2. \A S \in SUBSET E : Up(S) \in SUBSET E
    BY DEF ParentClosed
  <1>3. w = F(w)
    <2> HIDE DEF Up
    <2> QED
      BY DEF MaxDepth
  <1>4. up = F(up)
    BY <1>3
  <1> HIDE DEF up, Up
  <1>5. /\ up[0] \in SUBSET E
        /\ \A n \in 0..MaxDepth : up[n] \in SUBSET E => up[n + 1] \in SUBSET E
    BY <1>2, <1>4 DEF MaxDepth
  <1>6. up[9] \in SUBSET E
    BY <1>5 DEF MaxDepth
  <1> QED
    BY <1>1, <1>6 DEF MaxDepth

LEMMA LineageType == \A s \in Sessions \cup {None} : Lineage(s) \subseteq Sessions
  <1>1. ParentClosed(Sessions)
    BY ForestAssumption DEF ParentClosed
  <1> QED
    BY <1>1, LineageIsClosed DEF Lineage

LEMMA ScopeKeysAreSubjects ==
    \A a \in Agents, s \in Sessions \cup {None} : ScopeKeys(a, s) \subseteq Subjects
  BY LineageType, ForestAssumption DEF ScopeKeys, Subjects

\* An optional session that has been opened.
Exists(s) == s = None \/ sess[s].status # "none"

\* Handler r is about to insert session s.
Opens(r, s) ==
    \/ req[r].op = "open" /\ req[r].session = s
    \/ req[r].op = "quarantine" /\ req[r].opens = s

\* The ancestors of an opened session have been opened, so their expiry is fixed: a session is
\* inserted once, by the one handler that opens it, below a parent that exists; and what
\* handlers and approvals refer to exists.
SessionInv ==
    /\ \A s \in Sessions : sess[s].status # "none" => Exists(ParentOf[s])
    /\ \A r \in Workers, s \in Sessions : Opens(r, s) =>
           /\ sess[s].status = "none" /\ Exists(ParentOf[s])
           /\ \A q \in Workers : Opens(q, s) => q = r
    /\ \A r \in Workers : req[r].op = "review" => Exists(req[r].session)
    /\ \A p \in Approvals : Requested(p) => Exists(apps[p].session) /\ apps[p].agent \in Agents

LEMMA SessionInit == Init => SessionInv
  <1> SUFFICES ASSUME Init PROVE SessionInv
    OBVIOUS
  <1>1. ASSUME NEW s \in Sessions, sess[s].status # "none" PROVE Exists(ParentOf[s])
    <2>1. s \in OpenAtStart
      BY <1>1 DEF Init, NoSessionRow
    <2>2. ParentOf[s] # None => ParentOf[s] \in OpenAtStart /\ ParentOf[s] \in Sessions
      BY <2>1, ContainmentAssumption
    <2> QED
      BY <2>2 DEF Init, Exists
  <1>2. \A r \in Workers : req[r] = Idle
    BY DEF Init
  <1>3. \A p \in Approvals : ~Requested(p)
    BY DEF Init, NoApproval, Requested
  <1> QED
    BY <1>1, <1>2, <1>3 DEF SessionInv, Opens, Idle

\* The steps that write agent_sessions: a session is closed, or a handler inserts the one it
\* opens and is done with it.
LEMMA SessionWriters ==
    ASSUME TypeOK, [Next]_vars
    PROVE  \/ sess' = sess
           \/ \E s \in Sessions : /\ sess[s].status = "open" /\ req' = req
                                  /\ sess' = [sess EXCEPT ![s].status = "closed"]
           \/ \E r \in Workers, s \in Sessions, row \in SessionRow :
                  /\ Opens(r, s) /\ row.status = "open"
                  /\ sess' = [sess EXCEPT ![s] = row]
                  /\ \A t \in Sessions : ~Opens(r, t)'
  <1>1. ASSUME NEW s \in Sessions, NEW at \in Nat, InsertSession(s, at)
        PROVE  \E row \in SessionRow : row.status = "open" /\ sess' = [sess EXCEPT ![s] = row]
    <2>1. PICK ttl \in SessionTtls :
              sess' = [sess EXCEPT ![s] = [status |-> "open", expires |-> at + ttl]]
      BY <1>1 DEF InsertSession
    <2>2. [status |-> "open", expires |-> at + ttl] \in SessionRow
      BY Constants DEF SessionRow, Time
    <2> QED
      BY <2>1, <2>2
  <1>2. CASE \E r \in Workers : OpenSession(r)
    <2>1. PICK r \in Workers : OpenSession(r)
      BY <1>2
    <2>2. req[r].session \in Sessions /\ req[r].at \in Nat /\ Opens(r, req[r].session)
      BY <2>1, RequestTypes DEF TypeOK, OpenSession, Opens
    <2>3. \A t \in Sessions : ~Opens(r, t)'
      BY <2>1 DEF OpenSession, Opens, Idle, TypeOK
    <2>4. InsertSession(req[r].session, req[r].at)
      BY <2>1 DEF OpenSession
    <2> QED
      BY <1>1, <2>2, <2>3, <2>4
  <1>3. CASE \E r \in Workers : Quarantine(r)
    <2>1. PICK r \in Workers : Quarantine(r)
      BY <1>3
    <2>2. req[r].opens \in Sessions \cup {None} /\ req[r].at \in Nat
      BY <2>1, RequestTypes DEF TypeOK, Quarantine
    <2>3. \A t \in Sessions : ~Opens(r, t)'
      <3>1. \/ req' = [req EXCEPT ![r] = Idle]
            \/ \E i \in Incidents : req' = [req EXCEPT ![r] = [op |-> "verify", incident |-> i]]
        BY <2>1 DEF Quarantine
      <3> QED
        BY <3>1 DEF Opens, Idle, TypeOK
    <2>4. CASE req[r].opens # None /\ InsertSession(req[r].opens, req[r].at)
      <3>1. req[r].opens \in Sessions /\ Opens(r, req[r].opens)
        BY <2>1, <2>2, <2>4 DEF Quarantine, Opens
      <3> QED
        BY <1>1, <2>2, <2>3, <2>4, <3>1
    <2> QED
      BY <2>1, <2>4 DEF Quarantine
  <1>4. CASE CloseSession
    BY <1>4 DEF CloseSession
  <1>5. ASSUME NEW r \in Workers,
               \/ EvaluateRead(r) \/ IssueLease(r) \/ RequestApproval(r)
               \/ UseLeaseRead(r) \/ ClaimLease(r) \/ RecordLeaseUse(r)
               \/ ApprovalRead(r) \/ Approve(r) \/ Consume(r) \/ QuarantineRead(r)
               \/ VerifyRead(r) \/ VerifyEnforce(r) \/ VerifyCount(r) \/ VerifyContain(r)
               \/ ClearRead(r) \/ Clear(r) \/ OpenRead(r) \/ Crash(r)
        PROVE  sess' = sess
    BY <1>5 DEF EvaluateRead, IssueLease, RequestApproval, UseLeaseRead, ClaimLease,
       RecordLeaseUse, ApprovalRead, Approve, Consume, QuarantineRead, VerifyRead,
       VerifyEnforce, VerifyCount, VerifyContain, ClearRead, Clear, OpenRead, Crash
  <1>6. ASSUME Deny \/ SweepExpired \/ CronVerify \/ Tick \/ EndOfTime \/ UNCHANGED vars
        PROVE  sess' = sess
    BY <1>6 DEF Deny, SweepExpired, CronVerify, Tick, EndOfTime, vars
  <1> QED
    BY <1>2, <1>3, <1>4, <1>5, <1>6 DEF Next

\* A handler starts to open a session, or to record a review, by its reads only.
LEMMA OpeningStarts ==
    ASSUME TypeOK, [Next]_vars, NEW r \in Workers, req'[r] # req[r]
    PROVE  /\ req'[r].op = "review" => sess' = sess /\ Exists(req'[r].session)
           /\ \A s \in Sessions : Opens(r, s)' =>
                  /\ sess' = sess /\ sess[s].status = "none" /\ Exists(ParentOf[s])
                  /\ \A q \in Workers : ~Opens(q, s)
                  /\ \A q \in Workers \ {r} : req'[q] = req[q]
  <1> DEFINE Quiet == req'[r].op \notin {"review", "open"}
                      /\ (req'[r].op = "quarantine" => req'[r].opens = None)
             Goal == /\ req'[r].op = "review" => sess' = sess /\ Exists(req'[r].session)
                     /\ \A s \in Sessions : Opens(r, s)' =>
                            /\ sess' = sess /\ sess[s].status = "none" /\ Exists(ParentOf[s])
                            /\ \A q \in Workers : ~Opens(q, s)
                            /\ \A q \in Workers \ {r} : req'[q] = req[q]
  <1>1. ASSUME Quiet PROVE Goal
    BY <1>1, Constants DEF Opens
  <1>2. ASSUME NEW w \in Workers,
               \/ IssueLease(w) \/ RequestApproval(w) \/ RecordLeaseUse(w) \/ Approve(w)
               \/ Consume(w) \/ VerifyContain(w) \/ Clear(w) \/ OpenSession(w) \/ Crash(w)
        PROVE  Quiet
    <2>1. req' = [req EXCEPT ![w] = Idle]
      BY <1>2 DEF IssueLease, RequestApproval, RecordLeaseUse, Approve, Consume,
         VerifyContain, Clear, OpenSession, Crash
    <2> QED
      BY <2>1 DEF TypeOK, Idle
  <1>3. ASSUME NEW w \in Workers,
               \/ UseLeaseRead(w) \/ ApprovalRead(w) \/ QuarantineRead(w) \/ ClearRead(w)
        PROVE  Quiet
    BY <1>3 DEF TypeOK, UseLeaseRead, ApprovalRead, QuarantineRead, ClearRead
  <1>4. ASSUME NEW w \in Workers,
               \/ ClaimLease(w) \/ Quarantine(w) \/ VerifyRead(w) \/ VerifyEnforce(w)
               \/ VerifyCount(w)
        PROVE  Quiet
    <2>1. CASE ClaimLease(w)
      BY <2>1 DEF TypeOK, ClaimLease, Idle
    <2>2. CASE Quarantine(w)
      <3>1. \/ req' = [req EXCEPT ![w] = Idle]
            \/ \E i \in Incidents : req' = [req EXCEPT ![w] = [op |-> "verify", incident |-> i]]
        BY <2>2 DEF Quarantine
      <3> QED
        BY <3>1 DEF TypeOK, Idle
    <2>3. CASE VerifyRead(w)
      BY <2>3 DEF TypeOK, VerifyRead, Idle
    <2>4. CASE VerifyEnforce(w)
      BY <2>4 DEF TypeOK, VerifyEnforce, Idle
    <2>5. CASE VerifyCount(w)
      BY <2>5 DEF TypeOK, VerifyCount, Idle
    <2> QED
      BY <1>4, <2>1, <2>2, <2>3, <2>4, <2>5
  <1>5. CronVerify => Quiet
    BY DEF TypeOK, CronVerify
  <1>6. ASSUME NEW w \in Workers, EvaluateRead(w) PROVE Goal
    <2>1. PICK kind \in {"lease", "review"}, a \in Agents, s \in Sessions \cup {None}, at \in Clocks :
              /\ s # None => SessionValid(s, at)
              /\ req' = [req EXCEPT ![w] = [op |-> kind, agent |-> a, session |-> s, at |-> at]]
              /\ sess' = sess
      BY <1>6 DEF EvaluateRead
    <2>2. Exists(s)
      BY <2>1 DEF SessionValid, Exists
    <2>3. w = r /\ req'[r] = [op |-> kind, agent |-> a, session |-> s, at |-> at]
      BY <2>1 DEF TypeOK
    <2>4. \A t \in Sessions : ~Opens(r, t)'
      BY <2>3 DEF Opens
    <2> QED
      BY <2>1, <2>2, <2>3, <2>4
  <1>7. ASSUME NEW w \in Workers, OpenRead(w) PROVE Goal
    <2>1. PICK s \in Sessions, at \in Clocks :
              /\ sess[s].status = "none" /\ ~Opening(s)
              /\ ParentOf[s] # None => SessionValid(ParentOf[s], at)
              /\ \/ req' = [req EXCEPT ![w] = [op |-> "open", session |-> s, at |-> at]]
                 \/ \E x \in {ParentOf[s], AgentOf[ParentOf[s]]} :
                        req' = [req EXCEPT ![w] =
                            [op |-> "quarantine", subject |-> x, at |-> at, opens |-> s]]
              /\ sess' = sess
      BY <1>7 DEF OpenRead
    <2>2. Exists(ParentOf[s]) /\ \A q \in Workers : ~Opens(q, s)
      BY <2>1 DEF SessionValid, Exists, Opening, Opens
    <2>3. /\ w = r /\ \A q \in Workers \ {r} : req'[q] = req[q]
          /\ req'[r].op # "review" /\ \A t \in Sessions : Opens(r, t)' => t = s
      BY <2>1 DEF TypeOK, Opens
    <2> QED
      BY <2>1, <2>2, <2>3
  <1>8. ~(Deny \/ SweepExpired \/ CloseSession \/ Tick \/ EndOfTime \/ UNCHANGED vars)
    BY DEF Deny, SweepExpired, CloseSession, Tick, EndOfTime, vars
  <1> HIDE DEF Quiet, Goal
  <1>9. Goal
    BY <1>1, <1>2, <1>3, <1>4, <1>5, <1>6, <1>7, <1>8 DEF Next
  <1> QED
    BY <1>9 DEF Goal

\* An opened session stays, with its expiry.
SessionsStay ==
    \A s \in Sessions : sess[s].status # "none" =>
        sess'[s].status # "none" /\ sess'[s].expires = sess[s].expires

LEMMA SessionLifecycle ==
    ASSUME TypeOK, SessionInv, [Next]_vars
    PROVE  SessionsStay
  <1>1. CASE sess' = sess
    BY <1>1 DEF SessionsStay
  <1>2. CASE \E s \in Sessions : sess' = [sess EXCEPT ![s].status = "closed"]
    BY <1>2 DEF SessionsStay, TypeOK, SessionRow
  <1>3. CASE \E r \in Workers, s \in Sessions, row \in SessionRow :
                 Opens(r, s) /\ sess' = [sess EXCEPT ![s] = row]
    BY <1>3 DEF SessionsStay, SessionInv, TypeOK
  <1> QED
    BY <1>1, <1>2, <1>3, SessionWriters

LEMMA SessionStep == TypeOK /\ SessionInv /\ [Next]_vars => SessionInv'
  <1> SUFFICES ASSUME TypeOK, SessionInv, [Next]_vars PROVE SessionInv'
    OBVIOUS
  <1>1. \A s \in Sessions \cup {None} : Exists(s) => Exists(s)'
    BY SessionLifecycle DEF SessionsStay, Exists
  <1>2. \A s \in Sessions : ParentOf[s] \in Sessions \cup {None}
    BY ForestAssumption
  <1>3. ASSUME NEW s \in Sessions, sess'[s].status # "none" PROVE Exists(ParentOf[s])'
    <2>1. sess[s].status # "none" \/ \E r \in Workers : Opens(r, s)
      BY <1>3, SessionWriters DEF TypeOK
    <2>2. Exists(ParentOf[s])
      BY <2>1 DEF SessionInv
    <2> QED
      BY <1>1, <1>2, <2>2
  <1>4. ASSUME NEW r \in Workers, NEW s \in Sessions, Opens(r, s)'
        PROVE  /\ sess'[s].status = "none" /\ Exists(ParentOf[s])'
               /\ \A q \in Workers : Opens(q, s)' => q = r
    <2>1. CASE req'[r] # req[r]
      <3>1. /\ sess' = sess /\ sess[s].status = "none" /\ Exists(ParentOf[s])
            /\ \A q \in Workers : ~Opens(q, s)
            /\ \A q \in Workers \ {r} : req'[q] = req[q]
        BY <1>4, <2>1, OpeningStarts
      <3> QED
        BY <1>1, <1>2, <3>1 DEF Opens
    <2>2. CASE req'[r] = req[r]
      <3>1. Opens(r, s)
        BY <1>4, <2>2 DEF Opens
      <3>2. /\ sess[s].status = "none" /\ Exists(ParentOf[s])
            /\ \A q \in Workers : Opens(q, s) => q = r
        BY <3>1 DEF SessionInv
      <3>3. sess'[s] = sess[s]
        BY <1>4, <3>2, SessionWriters DEF TypeOK
      <3>4. ASSUME NEW q \in Workers, Opens(q, s)' PROVE q = r
        <4>1. CASE req'[q] = req[q]
          BY <3>2, <3>4, <4>1 DEF Opens
        <4>2. CASE req'[q] # req[q]
          BY <3>1, <3>4, <4>2, OpeningStarts
        <4> QED
          BY <4>1, <4>2
      <3> QED
        BY <1>1, <1>2, <3>2, <3>3, <3>4
    <2> QED
      BY <2>1, <2>2
  <1>5. ASSUME NEW r \in Workers, req'[r].op = "review" PROVE Exists(req[r].session)'
    <2>1. CASE req'[r] # req[r]
      BY <1>5, <2>1, OpeningStarts DEF Exists
    <2>2. CASE req'[r] = req[r]
      <3>1. Exists(req[r].session) /\ req[r].session \in Sessions \cup {None}
        BY <1>5, <2>2, RequestTypes DEF SessionInv, TypeOK
      <3> QED
        BY <1>1, <2>2, <3>1 DEF Exists
    <2> QED
      BY <2>1, <2>2
  <1>6. ASSUME NEW p \in Approvals, Requested(p)'
        PROVE  Exists(apps[p].session)' /\ apps'[p].agent \in Agents
    <2>1. PICK s \in Sessions \cup {None} : apps'[p].session = s /\ Exists(s)
      <3>1. CASE Requested(p)
        <4>1. apps'[p].session = apps[p].session /\ Exists(apps[p].session)
          BY <3>1, ApprovalLifecycle DEF SessionInv
        <4>2. apps[p].session \in Sessions \cup {None}
          BY DEF TypeOK, ApprovalRow
        <4> QED
          BY <4>1, <4>2
      <3>2. CASE ~Requested(p)
        <4>1. PICK r \in Workers : req[r].op = "review" /\ apps'[p].session = req[r].session
          BY <1>6, <3>2, ApprovalIsReviewed
        <4> QED
          BY <4>1, RequestTypes DEF SessionInv, TypeOK
      <3> QED
        BY <3>1, <3>2
    <2>2. apps'[p].agent \in Agents
      <3>1. CASE Requested(p)
        BY <3>1, ApprovalLifecycle DEF SessionInv
      <3>2. CASE ~Requested(p)
        <4>1. PICK r \in Workers : req[r].op = "review" /\ apps'[p].agent = req[r].agent
          BY <1>6, <3>2, ApprovalIsReviewed
        <4> QED
          BY <4>1, RequestTypes DEF TypeOK
      <3> QED
        BY <3>1, <3>2
    <2> QED
      BY <1>1, <2>1, <2>2 DEF Exists
  <1> QED
    BY <1>3, <1>4, <1>5, <1>6 DEF SessionInv

\* All ancestors of an opened session have been opened.
LEMMA LineageExists ==
    ASSUME TypeOK, SessionInv, NEW s \in Sessions \cup {None}, Exists(s)
    PROVE  \A t \in Lineage(s) : t \in Sessions /\ sess[t].status # "none"
  <1> DEFINE Opened == {t \in Sessions : sess[t].status # "none"}
  <1>1. ParentClosed(Opened)
    BY ForestAssumption DEF ParentClosed, SessionInv, Exists
  <1>2. CASE s = None
    BY <1>2 DEF Lineage
  <1>3. CASE s # None
    <2>1. s \in Opened /\ Opened \in SUBSET Sessions
      BY <1>3 DEF Exists
    <2> HIDE DEF Opened
    <2>2. Ancestry[s] \subseteq Opened
      BY <1>1, <2>1, LineageIsClosed
    <2> QED
      BY <1>3, <2>2 DEF Lineage, Opened
  <1> QED
    BY <1>2, <1>3

-----------------------------------------------------------------------------
(* Containment halts the authority in its scope *)

\* A subject becomes contained by the quarantine batch that enforces its scope.
LEMMA ContainmentWriters ==
    ASSUME TypeOK, [Next]_vars, NEW x \in Subjects, Contained(x)'
    PROVE  \/ Contained(x) /\ risk'[x].epoch = risk[x].epoch
           \/ \E i \in Incidents : EnforceScope(x, i, risk'[x].epoch)
  <1>1. CASE \E r \in Workers : Quarantine(r)
    <2>1. PICK r \in Workers : Quarantine(r)
      BY <1>1
    <2> DEFINE y == req[r].subject
               at == req[r].at
    <2>2. y \in Subjects
      BY <2>1, RequestTypes DEF TypeOK, Quarantine
    <2>3. CASE Quarantinable(y) /\ EpochAdvances(y, at)
      <3>1. PICK i \in Incidents :
                /\ risk' = [risk EXCEPT ![y] =
                       [risk[y] EXCEPT !.state = "quarantined", !.epoch = at, !.incident = i]]
                /\ EnforceScope(y, i, at)
        BY <2>1, <2>2, <2>3 DEF Quarantine, TypeOK
      <3>2. risk'[y].epoch = at /\ \A z \in Subjects \ {y} : risk'[z] = risk[z]
        BY <2>2, <3>1 DEF TypeOK, SubjectRow
      <3>3. CASE x = y
        BY <3>1, <3>2, <3>3
      <3>4. CASE x # y
        BY <3>2, <3>4 DEF Contained
      <3> QED
        BY <3>3, <3>4
    <2>4. CASE ~(Quarantinable(y) /\ EpochAdvances(y, at))
      BY <2>1, <2>4 DEF Quarantine, Contained
    <2> QED
      BY <2>3, <2>4
  <1>2. CASE ~\E r \in Workers : Quarantine(r)
    <2>1. risk'[x].epoch = risk[x].epoch
      BY <1>2, EpochsFrame
    <2>2. ASSUME NEW r \in Workers, VerifyContain(r) PROVE Contained(x)
      BY <2>2 DEF VerifyContain, ContainsSubject, Contained, TypeOK, SubjectRow
    <2>3. ASSUME NEW r \in Workers, Clear(r) PROVE Contained(x)
      BY <2>3 DEF Clear, Contained, TypeOK, SubjectRow
    <2>4. CASE risk' = risk
      BY <2>4 DEF Contained
    <2> QED
      BY <1>2, <2>1, <2>2, <2>3, <2>4, RiskWriters
  <1> QED
    BY <1>1, <1>2

\* A subject that becomes contained reaches down to session s, or is beyond it; one that was
\* contained and beyond s stays so.
LEMMA BeyondStep ==
    ASSUME TypeOK, SessionInv, [Next]_vars,
           NEW a \in Agents, NEW s \in Sessions \cup {None}, Exists(s),
           NEW x \in ScopeKeys(a, s), Contained(x)'
    PROVE  \/ /\ Contained(x) /\ risk'[x].epoch = risk[x].epoch
              /\ Beyond(x, a, s) => Beyond(x, a, s)'
           \/ \E i \in Incidents :
                  /\ EnforceScope(x, i, risk'[x].epoch)
                  /\ InScope(x, a, s, Unexpired(risk'[x].epoch)) \/ Beyond(x, a, s)'
  <1>1. x \in Subjects
    BY ScopeKeysAreSubjects
  <1>2. ASSUME NEW t \in Lineage(s)
        PROVE  t \in Sessions /\ sess[t].status # "none" /\ sess'[t].expires = sess[t].expires
    BY LineageExists, SessionLifecycle DEF SessionsStay
  <1>3. CASE Contained(x) /\ risk'[x].epoch = risk[x].epoch
    BY <1>2, <1>3 DEF Beyond
  <1>4. CASE \E i \in Incidents : EnforceScope(x, i, risk'[x].epoch)
    <2> DEFINE at == risk'[x].epoch
    <2>1. ASSUME ~InScope(x, a, s, Unexpired(at)) PROVE Beyond(x, a, s)'
      <3>1. x \notin OwnScope(a, s)
        BY <2>1 DEF InScope
      <3>2. ASSUME NEW t \in Lineage(s), AgentOf[t] = x PROVE sess'[t].expires <= at
        <4>1. t \notin Unexpired(at)
          BY <2>1, <3>2 DEF InScope
        <4>2. ~(sess[t].expires > at)
          BY <1>2, <4>1 DEF Unexpired
        <4>3. sess[t].expires \in Int /\ at \in Int
          BY <1>1, <1>2, TypeStep DEF TypeOK, SessionRow, SubjectRow, Time, Never
        <4> QED
          BY <1>2, <4>2, <4>3
      <3> QED
        BY <3>1, <3>2 DEF Beyond
    <2> QED
      BY <1>4, <2>1
  <1> QED
    BY <1>1, <1>3, <1>4, ContainmentWriters

\* No contained subject that bounds the lease leaves it usable, but for the two exceptions,
LeaseHalted(l) ==
    \A x \in ScopeKeys(LeaseAgent(l), leases[l].session) :
        Contained(x) => \/ leases[l].revoked \/ leases[l].expires <= risk[x].epoch
                        \/ Beyond(x, LeaseAgent(l), leases[l].session)

\* and none that bounds the approval leaves it pending, but for the one.
ApprovalHalted(p) ==
    \A x \in ScopeKeys(apps[p].agent, apps[p].session) :
        Contained(x) => \/ apps[p].status # "pending"
                        \/ Beyond(x, apps[p].agent, apps[p].session)

\* A lease that can be in use: it is issued, to a session that exists.
InUse(l) == LeaseIssued(l) /\ sess[leases[l].session].status # "none"

\* What the checks of a handler in flight still guarantee when its UPDATE comes.
ChecksHold ==
    \A r \in Workers :
        /\ req[r].op = "use" => InUse(req[r].lease) /\ LeaseHalted(req[r].lease)
        /\ req[r].op = "approve" =>
               Requested(req[r].approval) /\ ApprovalHalted(req[r].approval)

LEMMA LeaseHaltedStep ==
    ASSUME TypeOK, SessionInv, [Next]_vars, NEW l \in Leases, InUse(l), LeaseHalted(l)
    PROVE  InUse(l)' /\ LeaseHalted(l)'
  <1>1. /\ leases'[l].session = leases[l].session
        /\ leases'[l].expires = leases[l].expires
        /\ leases[l].revoked => leases'[l].revoked
    BY LeaseLifecycle DEF InUse
  <1>2. PICK s \in Sessions, a \in Agents :
            s = leases[l].session /\ a = AgentOf[s] /\ sess[s].status # "none"
    BY ForestAssumption DEF InUse, LeaseIssued, TypeOK, LeaseRow
  <1>3. ASSUME NEW x \in ScopeKeys(a, s), Contained(x)'
        PROVE  leases'[l].revoked \/ leases'[l].expires <= risk'[x].epoch \/ Beyond(x, a, s)'
    <2>1. CASE /\ Contained(x) /\ risk'[x].epoch = risk[x].epoch
               /\ Beyond(x, a, s) => Beyond(x, a, s)'
      BY <1>1, <1>2, <2>1 DEF LeaseHalted, LeaseAgent
    <2>2. CASE Beyond(x, a, s)'
      BY <2>2
    <2>3. CASE \E i \in Incidents :
                   /\ EnforceScope(x, i, risk'[x].epoch)
                   /\ InScope(x, a, s, Unexpired(risk'[x].epoch))
      <3> DEFINE at == risk'[x].epoch
      <3>1. LeaseInScope(x, l, at)
        BY <1>2, <2>3 DEF LeaseInScope, LeaseAgent, InUse
      <3>2. LeaseLive(l, at) => leases'[l] = [leases[l] EXCEPT !.revoked = TRUE]
        BY <2>3, <3>1 DEF EnforceScope
      <3>3. [leases[l] EXCEPT !.revoked = TRUE].revoked = TRUE
        BY LeaseRows DEF TypeOK
      <3>4. leases[l].expires \in Int /\ at \in Int
        <4>1. x \in Subjects
          BY <1>2, ScopeKeysAreSubjects
        <4> QED
          BY <4>1, TypeStep DEF TypeOK, LeaseRow, SubjectRow, Time, Never
      <3>5. CASE LeaseLive(l, at)
        <4>1. leases'[l].revoked = TRUE
          BY <3>2, <3>3, <3>5
        <4> QED
          BY <4>1
      <3>6. CASE ~LeaseLive(l, at)
        <4>1. leases[l].revoked \/ ~(leases[l].expires > at)
          BY <3>6 DEF LeaseLive, InUse
        <4>2. leases'[l].revoked \/ leases[l].expires <= at
          BY <1>1, <3>4, <4>1
        <4> QED
          BY <1>1, <4>2
      <3> QED
        BY <3>5, <3>6
    <2>4. Exists(s)
      BY <1>2 DEF Exists
    <2> QED
      BY <1>2, <1>3, <2>1, <2>2, <2>3, <2>4, BeyondStep
  <1>4. InUse(l)'
    BY <1>1, <1>2, SessionLifecycle DEF SessionsStay, InUse, LeaseIssued
  <1>5. LeaseAgent(l)' = a /\ leases'[l].session = s
    BY <1>1, <1>2 DEF LeaseAgent
  <1> QED
    BY <1>3, <1>4, <1>5 DEF LeaseHalted

LEMMA ApprovalHaltedStep ==
    ASSUME TypeOK, SessionInv, [Next]_vars, NEW p \in Approvals, Requested(p), ApprovalHalted(p)
    PROVE  Requested(p)' /\ ApprovalHalted(p)'
  <1>1. /\ apps'[p].agent = apps[p].agent /\ apps'[p].session = apps[p].session
        /\ apps'[p].status # "none"
        /\ apps'[p].status = "pending" => apps[p].status = "pending"
    BY ApprovalLifecycle
  <1>2. PICK s \in Sessions \cup {None}, a \in Agents :
            s = apps[p].session /\ a = apps[p].agent /\ Exists(s)
    BY DEF SessionInv, TypeOK, ApprovalRow
  <1>3. ASSUME NEW x \in ScopeKeys(a, s), Contained(x)'
        PROVE  apps'[p].status # "pending" \/ Beyond(x, a, s)'
    <2>1. CASE /\ Contained(x) /\ risk'[x].epoch = risk[x].epoch
               /\ Beyond(x, a, s) => Beyond(x, a, s)'
      BY <1>1, <1>2, <2>1 DEF ApprovalHalted
    <2>2. CASE Beyond(x, a, s)'
      BY <2>2
    <2>3. CASE \E i \in Incidents :
                   /\ EnforceScope(x, i, risk'[x].epoch)
                   /\ InScope(x, a, s, Unexpired(risk'[x].epoch))
      <3>1. ApprovalInScope(x, p, risk'[x].epoch)
        BY <1>2, <2>3 DEF ApprovalInScope
      <3>2. apps[p].status = "pending" => apps'[p] = [apps[p] EXCEPT !.status = "denied"]
        BY <2>3, <3>1 DEF EnforceScope
      <3>3. [apps[p] EXCEPT !.status = "denied"].status = "denied"
        BY ApprovalRows DEF TypeOK
      <3> QED
        BY <1>1, <3>2, <3>3
    <2> QED
      BY <1>2, <1>3, <2>1, <2>2, <2>3, BeyondStep
  <1> QED
    BY <1>1, <1>2, <1>3 DEF ApprovalHalted, Requested

\* A handler starts to use a lease, or to approve, by its reads only.
LEMMA CheckStarts ==
    ASSUME TypeOK, [Next]_vars, NEW r \in Workers, req'[r] # req[r]
    PROVE  /\ req'[r].op = "use" => UseLeaseRead(r)
           /\ req'[r].op = "approve" => ApprovalRead(r)
  <1>1. ASSUME NEW w \in Workers,
               \/ IssueLease(w) \/ RequestApproval(w) \/ RecordLeaseUse(w) \/ Approve(w)
               \/ Consume(w) \/ VerifyContain(w) \/ Clear(w) \/ OpenSession(w) \/ Crash(w)
        PROVE  req' = [req EXCEPT ![w] = Idle]
    BY <1>1 DEF IssueLease, RequestApproval, RecordLeaseUse, Approve, Consume,
       VerifyContain, Clear, OpenSession, Crash
  <1>2. ASSUME NEW w \in Workers, req' = [req EXCEPT ![w] = Idle]
        PROVE  req'[r].op \notin {"use", "approve"}
    BY <1>2 DEF TypeOK, Idle
  <1>3. ASSUME NEW w \in Workers,
               \/ EvaluateRead(w) \/ ClaimLease(w) \/ QuarantineRead(w) \/ Quarantine(w)
               \/ VerifyRead(w) \/ VerifyEnforce(w) \/ VerifyCount(w) \/ ClearRead(w)
               \/ OpenRead(w)
        PROVE  req'[r].op \notin {"use", "approve"}
    <2>1. CASE EvaluateRead(w)
      BY <2>1 DEF TypeOK, EvaluateRead
    <2>2. CASE ClaimLease(w)
      BY <2>2 DEF TypeOK, ClaimLease, Idle
    <2>3. CASE QuarantineRead(w)
      BY <2>3 DEF TypeOK, QuarantineRead
    <2>4. CASE Quarantine(w)
      <3>1. \/ req' = [req EXCEPT ![w] = Idle]
            \/ \E i \in Incidents : req' = [req EXCEPT ![w] = [op |-> "verify", incident |-> i]]
        BY <2>4 DEF Quarantine
      <3> QED
        BY <3>1 DEF TypeOK, Idle
    <2>5. CASE VerifyEnforce(w)
      BY <2>5 DEF TypeOK, VerifyEnforce, Idle
    <2>6. CASE VerifyCount(w)
      BY <2>6 DEF TypeOK, VerifyCount, Idle
    <2>7. CASE ClearRead(w)
      BY <2>7 DEF TypeOK, ClearRead
    <2>8. CASE OpenRead(w)
      BY <2>8 DEF TypeOK, OpenRead
    <2>9. CASE VerifyRead(w)
      BY <2>9 DEF TypeOK, VerifyRead, Idle
    <2> QED
      BY <1>3, <2>1, <2>2, <2>3, <2>4, <2>5, <2>6, <2>7, <2>8, <2>9
  <1>4. ASSUME NEW w \in Workers, UseLeaseRead(w) \/ ApprovalRead(w)
        PROVE  /\ req'[r].op = "use" => UseLeaseRead(r)
               /\ req'[r].op = "approve" => ApprovalRead(r)
    BY <1>4 DEF TypeOK, UseLeaseRead, ApprovalRead
  <1>5. CronVerify => req'[r].op \notin {"use", "approve"}
    BY DEF TypeOK, CronVerify
  <1>6. ~(Deny \/ SweepExpired \/ CloseSession \/ Tick \/ EndOfTime \/ UNCHANGED vars)
    BY DEF Deny, SweepExpired, CloseSession, Tick, EndOfTime, vars
  <1> QED
    BY <1>1, <1>2, <1>3, <1>4, <1>5, <1>6 DEF Next

LEMMA ChecksInit == Init => ChecksHold
  BY DEF Init, ChecksHold, Idle

LEMMA ChecksStep == TypeOK /\ SessionInv /\ ChecksHold /\ [Next]_vars => ChecksHold'
  <1> SUFFICES ASSUME TypeOK, SessionInv, ChecksHold, [Next]_vars, NEW r \in Workers
               PROVE  (/\ req[r].op = "use" =>
                             InUse(req[r].lease) /\ LeaseHalted(req[r].lease)
                       /\ req[r].op = "approve" =>
                             /\ Requested(req[r].approval)
                             /\ ApprovalHalted(req[r].approval))'
    BY DEF ChecksHold
  <1>1. CASE req'[r] = req[r]
    <2>1. ASSUME req[r].op = "use"
          PROVE  (InUse(req[r].lease) /\ LeaseHalted(req[r].lease))'
      <3>1. PICK l \in Leases : l = req[r].lease
        BY <2>1, RequestTypes DEF TypeOK
      <3>2. InUse(l)' /\ LeaseHalted(l)'
        BY <2>1, <3>1, LeaseHaltedStep DEF ChecksHold
      <3>3. req'[r].lease = l
        BY <1>1, <3>1
      <3> QED
        BY <3>2, <3>3 DEF InUse, LeaseIssued, LeaseHalted, LeaseAgent, Beyond
    <2>2. ASSUME req[r].op = "approve"
          PROVE  (Requested(req[r].approval) /\ ApprovalHalted(req[r].approval))'
      <3>1. PICK p \in Approvals : p = req[r].approval
        BY <2>2, RequestTypes DEF TypeOK
      <3>2. Requested(p)' /\ ApprovalHalted(p)'
        BY <2>2, <3>1, ApprovalHaltedStep DEF ChecksHold
      <3>3. req'[r].approval = p
        BY <1>1, <3>1
      <3> QED
        BY <3>2, <3>3 DEF Requested, ApprovalHalted, Beyond
    <2> QED
      BY <1>1, <2>1, <2>2
  <1>2. CASE req'[r] # req[r] /\ req'[r].op = "use"
    <2>1. UseLeaseRead(r)
      BY <1>2, CheckStarts
    <2>2. PICK l \in Leases, at \in Clocks :
              /\ LeaseClaimable(l, at) /\ LeaseUsable(l, at)
              /\ req' = [req EXCEPT ![r] = [op |-> "use", lease |-> l, at |-> at]]
              /\ UNCHANGED <<risk, leases, sess>>
      BY <2>1 DEF UseLeaseRead
    <2>3. req'[r].lease = l
      BY <2>2 DEF TypeOK
    <2>4. InUse(l)
      BY <2>2 DEF LeaseClaimable, LeaseLive, LeaseUsable, SessionValid, InUse
    <2>5. LeaseHalted(l)
      BY <2>2 DEF LeaseUsable, ScopeContained, LeaseHalted
    <2> QED
      BY <1>2, <2>2, <2>3, <2>4, <2>5
         DEF InUse, LeaseIssued, LeaseHalted, LeaseAgent, Contained, Beyond
  <1>3. CASE req'[r] # req[r] /\ req'[r].op = "approve"
    <2>1. ApprovalRead(r)
      BY <1>3, CheckStarts
    <2>2. PICK p \in Approvals :
              /\ Requested(p) /\ ApprovalUsable(p)
              /\ req'[r].approval = p
              /\ UNCHANGED <<risk, apps, sess>>
      BY <2>1 DEF ApprovalRead, TypeOK
    <2>3. ApprovalHalted(p)
      BY <2>2 DEF ApprovalUsable, ScopeContained, ApprovalHalted
    <2> QED
      BY <1>3, <2>2, <2>3 DEF Requested, ApprovalHalted, Contained, Beyond
  <1> QED
    BY <1>1, <1>2, <1>3

LEMMA ChecksCorrect == Spec => [](SessionInv /\ ChecksHold)
  BY SessionInit, SessionStep, ChecksInit, ChecksStep, TypeCorrect, PTL DEF Spec

\* A lease is not claimed while a subject that bounds its session is contained, however late
\* the claim comes after its checks (useLease): what was live by the quarantine's clock, and
\* within reach of the quarantine, has been revoked.
THEOREM ClaimsAreOutsideContainment == Spec => NoClaimInContainedScope
  <1>1. TypeOK /\ ChecksHold /\ [Next]_vars =>
            [\A l \in Leases : leases'[l].uses > leases[l].uses =>
                \A x \in ScopeKeys(LeaseAgent(l), leases[l].session) :
                    Contained(x) => \/ leases[l].expires <= risk[x].epoch
                                    \/ Beyond(x, LeaseAgent(l), leases[l].session)]_vars
    <2> SUFFICES ASSUME TypeOK, ChecksHold, [Next]_vars, NEW l \in Leases,
                        leases'[l].uses > leases[l].uses,
                        NEW x \in ScopeKeys(LeaseAgent(l), leases[l].session), Contained(x)
                 PROVE  \/ leases[l].expires <= risk[x].epoch
                        \/ Beyond(x, LeaseAgent(l), leases[l].session)
      OBVIOUS
    <2>1. PICK r \in Workers :
              ClaimLease(r) /\ req[r].lease = l /\ LeaseClaimable(l, req[r].at)
      BY LeaseLifecycle
    <2>2. LeaseHalted(l) /\ ~leases[l].revoked
      BY <2>1 DEF ChecksHold, ClaimLease, LeaseClaimable, LeaseLive
    <2> QED
      BY <2>2 DEF LeaseHalted
  <1> QED
    BY <1>1, TypeCorrect, ChecksCorrect, PTL DEF Spec, NoClaimInContainedScope

\* An approval is not approved while a subject that bounds it is contained, even if the
\* member's check of the scope came before the quarantine (actOnApproval): the quarantine has
\* cancelled it, unless it is beyond the quarantine's reach.
THEOREM ApprovalsAreOutsideContainment == Spec => NoApproveInContainedScope
  <1>1. TypeOK /\ ChecksHold /\ [Next]_vars =>
            [\A p \in Approvals :
                apps[p].status # "approved" /\ apps'[p].status = "approved" =>
                    \A x \in ScopeKeys(apps[p].agent, apps[p].session) :
                        Contained(x) => Beyond(x, apps[p].agent, apps[p].session)]_vars
    <2> SUFFICES ASSUME TypeOK, ChecksHold, [Next]_vars, NEW p \in Approvals,
                        apps[p].status # "approved", apps'[p].status = "approved",
                        NEW x \in ScopeKeys(apps[p].agent, apps[p].session), Contained(x)
                 PROVE  Beyond(x, apps[p].agent, apps[p].session)
      OBVIOUS
    <2>1. PICK r \in Workers : Approve(r) /\ req[r].approval = p /\ Actionable(p, req[r].at)
      BY ApprovalInsert, ApprovalLifecycle
    <2> QED
      BY <2>1 DEF ChecksHold, Approve, ApprovalHalted, Actionable
  <1> QED
    BY <1>1, TypeCorrect, ChecksCorrect, PTL DEF Spec, NoApproveInContainedScope

-----------------------------------------------------------------------------
(* The evidence of lease uses *)

Recording(l) == {r \in Workers : req[r].op = "record" /\ req[r].lease = l}

Tally(l, claimed, recorded, died) ==
    /\ leases'[l].uses = leases[l].uses + claimed
    /\ leases'[l].recorded = leases[l].recorded + recorded
    /\ crashes' = crashes + died

\* What a step does to the uses of lease l, to their rows, and to the handlers that still owe
\* a row: nothing; a claim; a row; a crash; or the lease is issued.
UseSteps(l) ==
    \/ Recording(l)' = Recording(l) /\ Tally(l, 0, 0, 0)
    \/ \E r \in Workers \ Recording(l) :
          Recording(l)' = Recording(l) \cup {r} /\ Tally(l, 1, 0, 0) /\ LeaseIssued(l)
    \/ \E r \in Recording(l) : Recording(l)' = Recording(l) \ {r} /\ Tally(l, 0, 1, 0)
    \/ \E r \in Workers : Recording(l)' = Recording(l) \ {r} /\ Tally(l, 0, 0, 1)
    \/ /\ ~LeaseIssued(l) /\ leases'[l].uses = 0 /\ leases'[l].recorded = 0
       /\ Recording(l)' = Recording(l) /\ crashes' = crashes

\* A handler that neither owes a row before nor after a step.
LEMMA RecordingFrame ==
    ASSUME req \in [Workers -> Request], NEW r \in Workers, NEW q, q.op # "record", req[r].op # "record",
           req' = [req EXCEPT ![r] = q], NEW l
    PROVE  Recording(l)' = Recording(l)
  BY DEF Recording

LEMMA UsesOfRow ==
    ASSUME NEW row \in LeaseRow
    PROVE  /\ row.uses \in Nat /\ row.recorded \in Nat
           /\ LET new == [row EXCEPT !.revoked = TRUE] IN
                 new.uses = row.uses /\ new.recorded = row.recorded /\ new.session = row.session
           /\ LET new == [row EXCEPT !.uses = @ + 1] IN
                 new.uses = row.uses + 1 /\ new.recorded = row.recorded
           /\ LET new == [row EXCEPT !.recorded = @ + 1] IN
                 new.uses = row.uses /\ new.recorded = row.recorded + 1
  BY Constants DEF LeaseRow

\* The handlers that neither claim, nor record, nor die leave the handlers that owe a row alone.
LEMMA OtherHandlers ==
    ASSUME TypeOK, NEW l \in Leases, NEW r \in Workers,
           \/ EvaluateRead(r) \/ IssueLease(r) \/ RequestApproval(r) \/ UseLeaseRead(r)
           \/ ApprovalRead(r) \/ Approve(r) \/ Consume(r) \/ QuarantineRead(r) \/ Quarantine(r)
           \/ VerifyRead(r) \/ VerifyEnforce(r) \/ VerifyCount(r) \/ VerifyContain(r)
           \/ ClearRead(r) \/ Clear(r) \/ OpenRead(r) \/ OpenSession(r)
    PROVE  Recording(l)' = Recording(l) /\ crashes' = crashes
  <1>1. PICK q : q.op # "record" /\ req' = [req EXCEPT ![r] = q]
    <2>1. CASE \/ IssueLease(r) \/ RequestApproval(r) \/ Approve(r) \/ Consume(r)
               \/ VerifyContain(r) \/ Clear(r) \/ OpenSession(r)
      BY <2>1 DEF IssueLease, RequestApproval, Approve, Consume, VerifyContain, Clear, OpenSession, Idle
    <2>2. CASE EvaluateRead(r)
      BY <2>2 DEF EvaluateRead
    <2>3. CASE UseLeaseRead(r)
      BY <2>3 DEF UseLeaseRead
    <2>4. CASE ApprovalRead(r)
      BY <2>4 DEF ApprovalRead
    <2>5. CASE QuarantineRead(r)
      BY <2>5 DEF QuarantineRead
    <2>6. CASE Quarantine(r)
      <3>1. \/ req' = [req EXCEPT ![r] = Idle]
            \/ \E i \in Incidents : req' = [req EXCEPT ![r] = [op |-> "verify", incident |-> i]]
        BY <2>6 DEF Quarantine
      <3> QED
        BY <3>1 DEF Idle
    <2>7. CASE VerifyRead(r)
      <3>1. \/ req' = [req EXCEPT ![r] = Idle]
            \/ \E i, at : req' = [req EXCEPT ![r] = [op |-> "enforce", incident |-> i, at |-> at]]
        BY <2>7 DEF VerifyRead
      <3> QED
        BY <3>1 DEF Idle
    <2>8. CASE VerifyEnforce(r)
      BY <2>8 DEF VerifyEnforce
    <2>9. CASE VerifyCount(r)
      <3>1. \/ req' = [req EXCEPT ![r] = Idle]
            \/ \E i, at : req' = [req EXCEPT ![r] = [op |-> "contain", incident |-> i, at |-> at]]
        BY <2>9 DEF VerifyCount
      <3> QED
        BY <3>1 DEF Idle
    <2>10. CASE ClearRead(r)
      BY <2>10 DEF ClearRead
    <2>11. CASE OpenRead(r)
      <3>1. \/ \E s, at : req' = [req EXCEPT ![r] = [op |-> "open", session |-> s, at |-> at]]
            \/ \E x, s, at : req' = [req EXCEPT ![r] =
                   [op |-> "quarantine", subject |-> x, at |-> at, opens |-> s]]
        BY <2>11 DEF OpenRead
      <3> QED
        BY <3>1
    <2> QED
      BY <2>1, <2>2, <2>3, <2>4, <2>5, <2>6, <2>7, <2>8, <2>9, <2>10, <2>11
  <1>2. req[r].op # "record"
    <2>1. CASE \/ EvaluateRead(r) \/ UseLeaseRead(r) \/ ApprovalRead(r) \/ QuarantineRead(r)
               \/ ClearRead(r) \/ OpenRead(r)
      <3>1. req[r] = Idle
        BY <2>1 DEF EvaluateRead, UseLeaseRead, ApprovalRead, QuarantineRead, ClearRead, OpenRead, Starts
      <3> QED
        BY <3>1 DEF Idle
    <2>2. CASE \/ IssueLease(r) \/ RequestApproval(r) \/ Approve(r) \/ Consume(r)
               \/ Quarantine(r) \/ VerifyRead(r) \/ VerifyEnforce(r) \/ VerifyCount(r)
               \/ VerifyContain(r) \/ Clear(r) \/ OpenSession(r)
      BY <2>2 DEF IssueLease, RequestApproval, Approve, Consume, Quarantine, VerifyRead, VerifyEnforce,
         VerifyCount, VerifyContain, Clear, OpenSession
    <2> QED
      BY <2>1, <2>2
  <1>3. crashes' = crashes
    BY DEF EvaluateRead, IssueLease, RequestApproval, UseLeaseRead, ApprovalRead, Approve, Consume,
       QuarantineRead, Quarantine, VerifyRead, VerifyEnforce, VerifyCount, VerifyContain, ClearRead,
       Clear, OpenRead, OpenSession
  <1> QED
    BY <1>1, <1>2, <1>3, RecordingFrame DEF TypeOK

LEMMA OtherTallies ==
    ASSUME TypeOK, NEW l \in Leases, Recording(l)' = Recording(l), crashes' = crashes,
           \/ leases'[l] = leases[l]
           \/ leases'[l] = [leases[l] EXCEPT !.revoked = TRUE]
    PROVE  UseSteps(l)
  <1>1. leases[l] \in LeaseRow /\ crashes \in Nat
    BY DEF TypeOK
  <1>2. leases'[l].uses = leases[l].uses /\ leases'[l].recorded = leases[l].recorded
    BY <1>1, UsesOfRow
  <1> QED
    BY <1>1, <1>2, UsesOfRow DEF UseSteps, Tally

LEMMA UsesStep ==
    ASSUME TypeOK, [Next]_vars, NEW l \in Leases
    PROVE  UseSteps(l)
  <1>1. /\ leases[l] \in LeaseRow /\ crashes \in Nat /\ req \in [Workers -> Request]
        /\ leases \in [Leases -> LeaseRow]
    BY DEF TypeOK
  <1>2. ASSUME NEW r \in Workers, ClaimLease(r) PROVE UseSteps(l)
    <2>1. /\ req[r].op = "use" /\ crashes' = crashes
          /\ req[r].lease \in Leases
      BY <1>1, <1>2, RequestTypes DEF ClaimLease
    <2>2. CASE LeaseClaimable(req[r].lease, req[r].at)
      <3>1. /\ req' = [req EXCEPT ![r] = [op |-> "record", lease |-> req[r].lease]]
            /\ leases' = [leases EXCEPT ![req[r].lease] = [leases[req[r].lease] EXCEPT !.uses = @ + 1]]
        BY <1>1, <1>2, <2>1, <2>2 DEF ClaimLease, UseGranted
      <3>2. CASE req[r].lease = l
        <4>1. r \in Workers \ Recording(l) /\ Recording(l)' = Recording(l) \cup {r}
          BY <1>1, <2>1, <3>1, <3>2 DEF Recording
        <4>2. Tally(l, 1, 0, 0)
          BY <1>1, <2>1, <3>1, <3>2, UsesOfRow DEF Tally
        <4>3. LeaseIssued(l)
          BY <2>2, <3>2 DEF LeaseClaimable, LeaseLive
        <4> QED
          BY <4>1, <4>2, <4>3 DEF UseSteps
      <3>3. CASE req[r].lease # l
        <4>1. Recording(l)' = Recording(l)
          BY <1>1, <2>1, <3>1, <3>3 DEF Recording
        <4>2. leases'[l] = leases[l]
          BY <1>1, <3>1, <3>3
        <4> QED
          BY <2>1, <4>1, <4>2, OtherTallies
      <3> QED
        BY <3>2, <3>3
    <2>3. CASE ~LeaseClaimable(req[r].lease, req[r].at)
      <3>1. leases' = leases /\ req' = [req EXCEPT ![r] = Idle]
        BY <1>2, <2>3 DEF ClaimLease, UseGranted
      <3>2. Idle.op # "record"
        BY DEF Idle
      <3>3. Recording(l)' = Recording(l)
        BY <1>1, <2>1, <3>1, <3>2, RecordingFrame
      <3> QED
        BY <2>1, <3>1, <3>3, OtherTallies
    <2> QED
      BY <2>2, <2>3
  <1>3. ASSUME NEW r \in Workers, RecordLeaseUse(r) PROVE UseSteps(l)
    <2>1. /\ req[r].op = "record" /\ crashes' = crashes /\ req[r].lease \in Leases
          /\ req' = [req EXCEPT ![r] = Idle]
          /\ leases' = [leases EXCEPT ![req[r].lease] = [leases[req[r].lease] EXCEPT !.recorded = @ + 1]]
      BY <1>1, <1>3, RequestTypes DEF RecordLeaseUse
    <2>2. Recording(l)' = Recording(l) \ {r}
      BY <1>1, <2>1 DEF Recording, Idle
    <2>3. CASE req[r].lease = l
      <3>1. r \in Recording(l)
        BY <2>1, <2>3 DEF Recording
      <3>2. Tally(l, 0, 1, 0)
        BY <1>1, <2>1, <2>3, UsesOfRow DEF Tally
      <3> QED
        BY <2>2, <3>1, <3>2 DEF UseSteps
    <2>4. CASE req[r].lease # l
      <3>1. Recording(l)' = Recording(l)
        BY <2>2, <2>4 DEF Recording
      <3>2. leases'[l] = leases[l]
        BY <1>1, <2>1, <2>4
      <3> QED
        BY <2>1, <3>1, <3>2, OtherTallies
    <2> QED
      BY <2>3, <2>4
  <1>4. ASSUME NEW r \in Workers, IssueLease(r) PROVE UseSteps(l)
    <2>1. Recording(l)' = Recording(l) /\ crashes' = crashes
      BY <1>4, OtherHandlers
    <2>2. PICK k \in Leases, ttl \in LeaseTtls :
              /\ ~LeaseIssued(k)
              /\ leases' = [leases EXCEPT ![k] = NewLease(req[r].session, req[r].at, ttl)]
      BY <1>4 DEF IssueLease
    <2>3. CASE l = k
      BY <1>1, <2>1, <2>2, <2>3 DEF UseSteps, NewLease
    <2>4. CASE l # k
      BY <1>1, <2>1, <2>2, <2>4, OtherTallies
    <2> QED
      BY <2>3, <2>4
  <1>5. ASSUME NEW r \in Workers, Crash(r) PROVE UseSteps(l)
    <2>1. leases' = leases /\ crashes' = crashes + 1 /\ req' = [req EXCEPT ![r] = Idle]
      BY <1>5 DEF Crash
    <2>2. Recording(l)' = Recording(l) \ {r}
      BY <1>1, <2>1 DEF Recording, Idle
    <2>3. Tally(l, 0, 0, 1)
      BY <1>1, <2>1, UsesOfRow DEF Tally
    <2> QED
      BY <2>2, <2>3 DEF UseSteps
  <1>6. ASSUME NEW r \in Workers, Quarantine(r) \/ VerifyEnforce(r) PROVE UseSteps(l)
    <2>1. Recording(l)' = Recording(l) /\ crashes' = crashes
      BY <1>6, OtherHandlers
    <2>2. leases'[l] = leases[l] \/ leases'[l] = [leases[l] EXCEPT !.revoked = TRUE]
      BY <1>6 DEF Quarantine, VerifyEnforce, EnforceScope
    <2> QED
      BY <2>1, <2>2, OtherTallies
  <1>7. ASSUME NEW r \in Workers,
               \/ EvaluateRead(r) \/ RequestApproval(r) \/ UseLeaseRead(r)
               \/ ApprovalRead(r) \/ Approve(r) \/ Consume(r) \/ QuarantineRead(r)
               \/ VerifyRead(r) \/ VerifyCount(r) \/ VerifyContain(r) \/ ClearRead(r) \/ Clear(r)
               \/ OpenRead(r) \/ OpenSession(r)
        PROVE  UseSteps(l)
    <2>1. Recording(l)' = Recording(l) /\ crashes' = crashes
      BY <1>7, OtherHandlers
    <2>2. leases' = leases
      BY <1>7 DEF EvaluateRead, RequestApproval, UseLeaseRead, ApprovalRead, Approve, Consume,
         QuarantineRead, VerifyRead, VerifyCount, VerifyContain, ClearRead, Clear, OpenRead, OpenSession
    <2> QED
      BY <2>1, <2>2, OtherTallies
  <1>8. ASSUME CronVerify PROVE UseSteps(l)
    <2>1. /\ Cron \in Workers /\ req[Cron].op # "record" /\ leases' = leases /\ crashes' = crashes
      BY <1>8, Constants DEF CronVerify, Idle
    <2>2. PICK q : q.op # "record" /\ req' = [req EXCEPT ![Cron] = q]
      BY <1>8 DEF CronVerify
    <2>3. Recording(l)' = Recording(l)
      BY <1>1, <2>1, <2>2, RecordingFrame
    <2> QED
      BY <2>1, <2>3, OtherTallies
  <1>9. ASSUME \/ Deny \/ SweepExpired \/ CloseSession \/ Tick \/ EndOfTime \/ UNCHANGED vars
        PROVE  UseSteps(l)
    <2>1. leases' = leases /\ crashes' = crashes /\ req' = req
      BY <1>9 DEF Deny, SweepExpired, CloseSession, Tick, EndOfTime, vars
    <2>2. Recording(l)' = Recording(l)
      BY <2>1 DEF Recording
    <2> QED
      BY <2>1, <2>2, OtherTallies
  <1> QED
    BY <1>2, <1>3, <1>4, <1>5, <1>6, <1>7, <1>8, <1>9 DEF Next

\* The inductive invariant: the uses that are known are counted, and a lease that is not
\* issued yet has none.
UsesOK(l) ==
    /\ IsFiniteSet(Recording(l))
    /\ leases[l].uses - crashes <= leases[l].recorded + Cardinality(Recording(l))
    /\ leases[l].recorded + Cardinality(Recording(l)) <= leases[l].uses
    /\ ~LeaseIssued(l) => leases[l].uses = 0

UsesInv == \A l \in Leases : UsesOK(l)

LEMMA UsesInit == Init => UsesInv
  <1> SUFFICES ASSUME Init, NEW l \in Leases PROVE UsesOK(l)
    BY DEF UsesInv
  <1>1. Recording(l) = {}
    BY DEF Init, Recording, Idle
  <1>2. leases[l].uses = 0 /\ leases[l].recorded = 0 /\ crashes = 0
    BY DEF Init, NoLease
  <1> QED
    BY <1>1, <1>2, FS_EmptySet DEF UsesOK

LEMMA UsesPreserved == TypeOK /\ UsesInv /\ [Next]_vars => UsesInv'
  <1> SUFFICES ASSUME TypeOK, UsesInv, [Next]_vars, NEW l \in Leases PROVE UsesOK(l)'
    BY DEF UsesInv
  <1>1. /\ IsFiniteSet(Recording(l))
        /\ leases[l].uses - crashes <= leases[l].recorded + Cardinality(Recording(l))
        /\ leases[l].recorded + Cardinality(Recording(l)) <= leases[l].uses
        /\ ~LeaseIssued(l) => leases[l].uses = 0
    BY DEF UsesInv, UsesOK
  <1>2. leases[l].uses \in Nat /\ leases[l].recorded \in Nat /\ crashes \in Nat
    BY UsesOfRow DEF TypeOK
  <1>3. Cardinality(Recording(l)) \in Nat
    BY <1>1, FS_CardinalityType
  <1>4. LeaseIssued(l) => LeaseIssued(l)'
    BY LeaseLifecycle DEF LeaseIssued
  <1>5. UseSteps(l)
    BY UsesStep
  <1>6. CASE Recording(l)' = Recording(l) /\ Tally(l, 0, 0, 0)
    BY <1>1, <1>2, <1>3, <1>4, <1>6 DEF UsesOK, Tally
  <1>7. CASE \E r \in Workers \ Recording(l) :
                Recording(l)' = Recording(l) \cup {r} /\ Tally(l, 1, 0, 0) /\ LeaseIssued(l)
    <2>1. PICK r : /\ r \notin Recording(l) /\ Recording(l)' = Recording(l) \cup {r}
                   /\ Tally(l, 1, 0, 0) /\ LeaseIssued(l)
      BY <1>7
    <2>2. IsFiniteSet(Recording(l)') /\ Cardinality(Recording(l)') = Cardinality(Recording(l)) + 1
      BY <1>1, <2>1, FS_AddElement
    <2> QED
      BY <1>1, <1>2, <1>3, <1>4, <2>1, <2>2 DEF UsesOK, Tally
  <1>8. CASE \E r \in Recording(l) : Recording(l)' = Recording(l) \ {r} /\ Tally(l, 0, 1, 0)
    <2>1. PICK r \in Recording(l) : Recording(l)' = Recording(l) \ {r} /\ Tally(l, 0, 1, 0)
      BY <1>8
    <2>2. IsFiniteSet(Recording(l)') /\ Cardinality(Recording(l)') = Cardinality(Recording(l)) - 1
      BY <1>1, <2>1, FS_RemoveElement
    <2> QED
      BY <1>1, <1>2, <1>3, <1>4, <2>1, <2>2 DEF UsesOK, Tally
  <1>9. CASE \E r \in Workers : Recording(l)' = Recording(l) \ {r} /\ Tally(l, 0, 0, 1)
    <2>1. PICK r : Recording(l)' = Recording(l) \ {r} /\ Tally(l, 0, 0, 1)
      BY <1>9
    <2>2. /\ IsFiniteSet(Recording(l)')
          /\ \/ Cardinality(Recording(l)') = Cardinality(Recording(l))
             \/ Cardinality(Recording(l)') = Cardinality(Recording(l)) - 1
      BY <1>1, <2>1, FS_RemoveElement
    <2> QED
      BY <1>1, <1>2, <1>3, <1>4, <2>1, <2>2 DEF UsesOK, Tally
  <1>10. CASE /\ ~LeaseIssued(l) /\ leases'[l].uses = 0 /\ leases'[l].recorded = 0
              /\ Recording(l)' = Recording(l) /\ crashes' = crashes
    <2>1. Cardinality(Recording(l)) = 0
      BY <1>1, <1>2, <1>3, <1>10
    <2> QED
      BY <1>1, <1>2, <1>10, <2>1 DEF UsesOK
  <1> QED
    BY <1>5, <1>6, <1>7, <1>8, <1>9, <1>10 DEF UseSteps

\* The evidence of a lease's uses lags behind by the handlers that owe a row, and by crashes.
THEOREM UsesAreEvidenced == Spec => []UsesLostOnlyToCrashes
  <1>1. UsesInv => UsesLostOnlyToCrashes
    BY DEF UsesInv, UsesOK, UsesLostOnlyToCrashes, Recording
  <1> QED
    BY <1>1, UsesInit, UsesPreserved, TypeCorrect, PTL DEF Spec
=============================================================================
