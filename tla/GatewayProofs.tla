---------------------------- MODULE GatewayProofs ----------------------------
(***************************************************************************)
(* Proofs about Gateway, for any policies, bodies, sessions and invocations: *)
(* the types, that nobody is told to go on in a contained scope, that        *)
(* decisions under enforcement have their evidence and every decision its   *)
(* own authority, and that the gateway implements DecisionLog.              *)
(***************************************************************************)
EXTENDS Gateway, TLAPS

----------------------------------------------------------------------------
(* What the policies, the gates and the assessments return *)

LEMMA EvaluateVerdicts ==
    ASSUME NEW action, NEW a, NEW published, NEW default \in Verdicts,
           NEW result \in Evaluate(action, a, published, default)
    PROVE  result.decision \in Verdicts
<1> DEFINE malformed == {p \in PoliciesInScope(published, a) : ~WellFormed(p)}
           matched == Applicable(action, a, published)
<1>1. CASE malformed # {}
  BY <1>1 DEF Evaluate, Result, Verdicts
<1>2. CASE malformed = {} /\ matched = {}
  BY <1>2 DEF Evaluate, Result
<1>3. CASE malformed = {} /\ matched # {}
  <2>1. \A p \in matched : p.effect \in Verdicts
    BY <1>3 DEF Applicable, WellFormed
  <2>2. PICK p \in matched : result.decision = p.effect
    BY <1>3 DEF Evaluate, Result
  <2>3. QED
    BY <2>1, <2>2
<1>4. QED
  BY <1>1, <1>2, <1>3

LEMMA NamedThings ==
    ASSUME NEW text, NEW things
    PROVE  /\ Named(text, things) \in things \cup {None}
           /\ Named(text, things) # None => text.type = "string" \/ None \in things
BY DEF Named, Same, Str

LEMMA BodyNames ==
    ASSUME NEW body
    PROVE  /\ AgentNamed(body) \in Agents \cup {None}
           /\ SessionNamed(body) \in Sessions \cup {None}
           /\ \A r \in Requests : RowNamed(body, r) \in Ids \cup {r}
<1>1. AgentNamed(body) \in Agents \cup {None} /\ SessionNamed(body) \in Sessions \cup {None}
  BY NamedThings DEF AgentNamed, SessionNamed
<1>2. ASSUME NEW r \in Requests
      PROVE  RowNamed(body, r) \in Ids \cup {r}
  BY NamedThings DEF RowNamed
<1>3. QED
  BY <1>1, <1>2

LEMMA DefaultVerdict ==
    ASSUME NEW body
    PROVE  DefaultFor(AgentNamed(body)) \in Verdicts
BY BodyNames, GatewayAssumption DEF DefaultFor

LEMMA ResultVerdicts ==
    ASSUME NEW body, NEW result \in PolicyResults(body)
    PROVE  result.decision \in Verdicts
<1>1. CASE IdentityGate(body) # ""
  <2>1. PolicyResults(body) = {Result("block", IdentityGate(body), NoPolicy, {})}
    BY <1>1 DEF PolicyResults, ResultsUnder
  <2>2. result = Result("block", IdentityGate(body), NoPolicy, {})
    BY <2>1
  <2>3. QED
    BY <2>2 DEF Result, Verdicts
<1>2. CASE IdentityGate(body) = ""
  <2>1. result \in Evaluate(Judged(body), AgentNamed(body), policies, DefaultFor(AgentNamed(body)))
    BY <1>2 DEF PolicyResults, ResultsUnder
  <2>2. QED
    BY <2>1, DefaultVerdict, EvaluateVerdicts
<1>3. QED
  BY <1>1, <1>2

LEMMA ReferenceVerdicts ==
    ASSUME NEW body
    PROVE  Reference(body) \in Verdicts
<1>1. DefaultFor(AgentNamed(body)) \in Verdicts
  BY DefaultVerdict
<1>2. QED
  BY <1>1 DEF Reference, Verdicts

\* What a body names as its session, it claims.
LEMMA NamedIsClaimed ==
    ASSUME NEW body
    PROVE  SessionNamed(body) # None => Claims(body, "session")
<1>1. None \notin Sessions
  BY SubjectsAssumption DEF Subjects
<1>2. QED
  BY <1>1, NamedThings DEF SessionNamed, Claims

LEMMA LoadedSession ==
    ASSUME NEW body, CorrelationGate(body) = ""
    PROVE  ValidSession(body) = SessionNamed(body)
BY NamedIsClaimed DEF CorrelationGate, ValidSession, SessionIsValid

LEMMA UncorrelatedSession ==
    ASSUME NEW body \in ValidBodies, ~Correlated(CorrelationOf(body))
    PROVE  SessionNamed(body) = None
<1>1. CorrelationOf(body) = Correlation(BodyOf[body].given)
  BY DEF CorrelationOf, Prints, Fingerprint
<1>2. "session" \in DOMAIN CorrelationOf(body)
  BY <1>1 DEF Correlation
<1>3. ~Claims(body, "session")
  BY <1>2 DEF Correlated, Claims
<1>4. QED
  BY <1>3, NamedIsClaimed

\* The runtime verdict can only restrict.
LEMMA Restricts ==
    ASSUME NEW mode \in Modes, NEW policy \in Verdicts, NEW runtime \in Verdicts
    PROVE  /\ Effective(mode, policy, runtime) \in Verdicts
           /\ Effective(mode, policy, runtime) # "block" =>
                 policy # "block" /\ (mode = "enforce" => runtime # "block")
BY DEF Effective, MostRestrictive, Rank, EffectRank, Verdicts, Modes

LEMMA AssessmentTypes ==
    ASSUME NEW mode \in Modes, NEW a \in Agents \cup {None}, NEW s \in Sessions \cup {None},
           NEW assessment \in IF mode = "off" THEN {NoAssessment} ELSE Assessments(mode, a, s)
    PROVE  /\ assessment.verdict \in Verdicts
           /\ assessment.quarantine \in Subjects \cup {None}
           /\ assessment.quarantine # None => mode = "enforce"
           /\ mode = "enforce" /\ assessment.verdict # "block" => ~ScopeQuarantined(a, s)
<1>1. CASE mode = "off"
  BY <1>1 DEF NoAssessment, Verdicts
<1>2. CASE mode # "off"
  <2>1. Direct(a, s) \subseteq Subjects
    BY DEF Direct, Subjects
  <2>2. QED
    BY <1>2, <2>1 DEF Assessments, Verdicts
<1>3. QED
  BY <1>1, <1>2

----------------------------------------------------------------------------
(* The inductive invariant *)

\* A row of an invocation of its own is written by that invocation.
Owns(r, q) ==
    /\ q = Idle => decisions[r] = NoRow
    /\ q.stage \in {"context", "commit", "core"} => q.row \in Ids \cup {r}

\* `open' is TRUE if the scope is open now, or if the request was read outside enforce mode.
SeesOpen(q) ==
    q.stage \notin {"idle", "done"} =>
        /\ q.mode # "enforce" => q.open
        /\ OpenUnder(org, risk, q.body) => q.open

\* What is about to be recorded, repeated or has been answered.
Carries(q) ==
    /\ q.stage = "commit" => (q.mode = "enforce" => q.evidence)
    /\ q.stage \in {"commit", "core"} =>
          /\ q.lease => /\ q.decision = "allow" /\ q.session # None
                       /\ AgentOf[q.session] = AgentNamed(q.body)
          /\ q.decision # "block" => q.open /\ q.session = SessionNamed(q.body)
    /\ q.stage \in {"reread", "recheck"} => decisions[q.row] # NoRow
    /\ q.stage = "recheck" => SameFingerprint(q.body, q.row)
    /\ q.stage = "done" => (q.answer \in {"allow", "review"} => q.open)

RequestOK(r, q) == Owns(r, q) /\ SeesOpen(q) /\ Carries(q)

\* A decision to go on names the agent and the session of every body of its fingerprint.
Names(d) ==
    \A body \in ValidBodies : Prints[body] = d.fingerprint =>
        /\ d.agent = AgentNamed(body)
        /\ d.decision # "block" => d.session = SessionNamed(body)

RowOK(d) ==
    d # NoRow =>
        /\ Names(d)
        /\ d.mode = "enforce" => d.evidence
        /\ d.approval <=> d.decision = "review"
        /\ d.lease => d.decision = "allow" /\ d.session # None /\ AgentOf[d.session] = d.agent

Inv ==
    /\ TypeOK
    /\ \A r \in Requests : RequestOK(r, req[r])
    /\ \A row \in Rows : RowOK(decisions[row])

----------------------------------------------------------------------------
(* Steps of one invocation *)

LEMMA SamePrints ==
    ASSUME NEW b \in ValidBodies, NEW c \in ValidBodies, Prints[b] = Prints[c]
    PROVE  AgentNamed(b) = AgentNamed(c) /\ SessionNamed(b) = SessionNamed(c)
BY DEF AgentNamed, SessionNamed, ActionOf, CorrelationOf

\* The fields an invocation has at its stage.
LEMMA Stages ==
    ASSUME NEW q \in Invocation
    PROVE  /\ q.stage \in {"idle", "done", "context", "commit", "core", "reread", "recheck"}
           /\ q.stage = "idle" => q = Idle
           /\ q.stage \notin {"idle", "done"} =>
                 q.body \in ValidBodies /\ q.row \in Rows /\ q.mode \in Modes /\ q.open \in BOOLEAN
           /\ q.stage = "context" => q.result \in Verdicts /\ q.due \in Verdicts
           /\ q.stage \in {"commit", "core"} =>
                 /\ q.due \in Verdicts /\ q.decision \in Verdicts /\ q.policy \in Verdicts
                 /\ q.session \in Sessions \cup {None} /\ q.quarantine \in Subjects \cup {None}
                 /\ q.evidence \in BOOLEAN /\ q.lease \in BOOLEAN
                 /\ q.stage = "core" => q.mode = "monitor"
                 /\ q.quarantine # None => q.mode = "enforce"
           /\ q.stage \in {"reread", "recheck"} => q.row \in Ids
           /\ q.stage = "recheck" => q.mode = "enforce"
<1> DEFINE Answered == [stage : {"done"}, body : ValidBodies, row : Rows, open : BOOLEAN,
                        answer : Verdicts \cup {"refused"}]
           Reading == [stage : {"context"}, body : ValidBodies, row : Rows, mode : Modes,
                       open : BOOLEAN, result : Verdicts, due : Verdicts]
           Writing == [stage : {"commit", "core"}, body : ValidBodies, row : Rows, mode : Modes,
                       open : BOOLEAN, due : Verdicts, decision : Verdicts, policy : Verdicts,
                       session : Sessions \cup {None}, quarantine : Subjects \cup {None},
                       evidence : BOOLEAN, lease : BOOLEAN]
           Finding == [stage : {"reread"}, body : ValidBodies, row : Ids, mode : Modes,
                       open : BOOLEAN]
           Checking == [stage : {"recheck"}, body : ValidBodies, row : Ids, mode : {"enforce"},
                        open : BOOLEAN]
<1>1. CASE q \in {Idle, Refused}
  BY <1>1 DEF Idle, Refused
<1>2. CASE q \in Answered
  BY <1>2
<1>3. CASE q \in Reading
  BY <1>3
<1>4. CASE /\ q \in Writing
           /\ q.stage = "core" => q.mode = "monitor"
           /\ q.quarantine # None => q.mode = "enforce"
  BY <1>4
<1>5. CASE q \in Finding
  BY <1>5, Ids \subseteq Rows DEF Rows
<1>6. CASE q \in Checking
  BY <1>6, Ids \subseteq Rows, "enforce" \in Modes DEF Rows, Modes
<1>7. QED
  BY <1>1, <1>2, <1>3, <1>4, <1>5, <1>6 DEF Invocation

LEMMA IdsAreRows == Ids \subseteq Rows /\ Requests \subseteq Rows /\ Ids \cap Requests = {}
BY GatewayAssumption DEF Rows

\* An invocation has moved on, and with it nothing but faults.
LEMMA MovesOn ==
    ASSUME Inv, NEW r \in Requests, NEW new \in Invocation, RequestOK(r, new),
           req' = [req EXCEPT ![r] = new], faults' \in Nat,
           UNCHANGED <<org, agents, policies, ended, risk, decisions, changes>>
    PROVE  Inv'
<1>1. TypeOK'
  BY DEF Inv, TypeOK
<1>2. ASSUME NEW s \in Requests
      PROVE  RequestOK(s, req[s])'
  <2>1. req'[s] = IF s = r THEN new ELSE req[s]
    BY DEF Inv, TypeOK
  <2>2. RequestOK(s, IF s = r THEN new ELSE req[s])
    BY DEF Inv
  <2>3. QED
    BY <2>1, <2>2 DEF RequestOK, Owns, SeesOpen, Carries, OpenUnder, SameFingerprint
<1>3. QED
  BY <1>1, <1>2 DEF Inv

\* An invocation that has an answer, for a good reason if it is to go on.
LEMMA Ending ==
    ASSUME NEW r \in Requests, NEW q, q.body \in ValidBodies, q.row \in Rows, q.open \in BOOLEAN,
           NEW answer \in Verdicts \cup {"refused"}, answer \in {"allow", "review"} => q.open
    PROVE  Done(q, answer) \in Invocation /\ RequestOK(r, Done(q, answer))
<1>1. Done(q, answer) \in Invocation
  BY DEF Done, Invocation
<1>2. Done(q, answer).stage = "done" /\ Idle.stage = "idle"
  BY DEF Done, Idle
<1>3. Done(q, answer).answer = answer /\ Done(q, answer).open = q.open
  BY DEF Done
<1>4. QED
  BY <1>1, <1>2, <1>3 DEF RequestOK, Owns, SeesOpen, Carries

LEMMA RowTypes ==
    ASSUME Inv, NEW row \in Rows, decisions[row] # NoRow
    PROVE  decisions[row] \in DecisionRow /\ RowOK(decisions[row])
BY DEF Inv, TypeOK

\* What is done with a decision that is found under a request_id.
LEMMA Finds ==
    ASSUME Inv, NEW r \in Requests,
           NEW q \in [stage : {"context", "reread"}, body : ValidBodies, row : Ids, mode : Modes,
                      open : BOOLEAN],
           SeesOpen(q), decisions[q.row] # NoRow, Found(r, q), Unchanged
    PROVE  Inv'
<1>0. q.row \in Rows /\ faults' \in Nat
  BY IdsAreRows DEF Unchanged, Inv, TypeOK
<1>1. CASE ~SameFingerprint(q.body, q.row)
  <2>1. Done(q, "refused") \in Invocation /\ RequestOK(r, Done(q, "refused"))
    BY <1>0, Ending
  <2>2. req' = [req EXCEPT ![r] = Done(q, "refused")]
    BY <1>1 DEF Found
  <2>3. QED
    BY <1>0, <2>1, <2>2, MovesOn DEF Unchanged
<1>2. CASE SameFingerprint(q.body, q.row) /\ q.mode = "enforce"
  <2> DEFINE new == [q EXCEPT !.stage = "recheck"]
  <2>1. new \in [stage : {"recheck"}, body : ValidBodies, row : Ids, mode : {"enforce"},
                 open : BOOLEAN]
    BY <1>2
  <2>2. new \in Invocation
    BY <2>1 DEF Invocation
  <2>3. /\ new.stage = "recheck" /\ new.body = q.body /\ new.row = q.row
        /\ new.mode = q.mode /\ new.open = q.open
    OBVIOUS
  <2>4. new # Idle
    BY <2>3 DEF Idle
  <2>5. RequestOK(r, new)
    BY <1>2, <2>3, <2>4 DEF RequestOK, Owns, SeesOpen, Carries
  <2>6. req' = [req EXCEPT ![r] = new]
    BY <1>2 DEF Found
  <2>7. QED
    BY <1>0, <2>2, <2>5, <2>6, MovesOn DEF Unchanged
<1>3. CASE SameFingerprint(q.body, q.row) /\ q.mode # "enforce"
  <2> DEFINE answer == decisions[q.row].decision
  <2>1. answer \in Verdicts
    BY <1>0, RowTypes DEF DecisionRow
  <2>2. q.open
    BY <1>3 DEF SeesOpen
  <2>3. Done(q, answer) \in Invocation /\ RequestOK(r, Done(q, answer))
    BY <1>0, <2>1, <2>2, Ending
  <2>4. req' = [req EXCEPT ![r] = Done(q, answer)]
    BY <1>3 DEF Found
  <2>5. QED
    BY <1>0, <2>3, <2>4, MovesOn DEF Unchanged
<1>4. QED
  BY <1>1, <1>2, <1>3

LEMMA Receives ==
    ASSUME Inv, NEW r \in Requests, Receive(r)
    PROVE  Inv'
<1>0. faults' \in Nat /\ req[r] = Idle /\ decisions[r] = NoRow
  BY DEF Receive, Unchanged, Inv, TypeOK, RequestOK, Owns
<1>1. PICK body \in Bodies :
        LET q == [stage |-> "context", body |-> body, row |-> RowNamed(body, r), mode |-> org.mode,
                  open |-> OpenUnder(org, risk, body)]
        IN  IF body \notin ValidBodies \/ ~org.usable THEN req' = [req EXCEPT ![r] = Refused]
            ELSE IF decisions[q.row] # NoRow THEN Found(r, q)
            ELSE \E result \in PolicyResults(body) :
                    req' = [req EXCEPT ![r] =
                               [stage |-> "context", body |-> body, row |-> q.row, mode |-> q.mode,
                                open |-> q.open, result |-> result.decision, due |-> Reference(body)]]
  BY DEF Receive
<1>2. CASE body \notin ValidBodies \/ ~org.usable
  <2>1. req' = [req EXCEPT ![r] = Refused]
    BY <1>1, <1>2
  <2>2. Refused \in Invocation
    BY DEF Invocation
  <2>3. Refused.stage = "done" /\ Refused.answer = "refused" /\ Refused # Idle
    BY DEF Refused, Idle
  <2>4. RequestOK(r, Refused)
    BY <2>3 DEF RequestOK, Owns, SeesOpen, Carries
  <2>5. QED
    BY <1>0, <2>1, <2>2, <2>4, MovesOn DEF Receive, Unchanged
<1>3. CASE body \in ValidBodies /\ org.usable
  <2> DEFINE q == [stage |-> "context", body |-> body, row |-> RowNamed(body, r), mode |-> org.mode,
                   open |-> OpenUnder(org, risk, body)]
  <2>1. RowNamed(body, r) \in Ids \cup {r} /\ RowNamed(body, r) \in Rows
    BY BodyNames, IdsAreRows
  <2>2. org.mode \in Modes
    BY DEF Inv, TypeOK
  <2>3. OpenUnder(org, risk, body) \in BOOLEAN
    BY DEF OpenUnder
  <2>4. SeesOpen(q)
    BY DEF SeesOpen, OpenUnder
  <2>5. CASE decisions[q.row] # NoRow
    <3>1. Found(r, q)
      BY <1>1, <1>3, <2>5
    <3>2. q \in [stage : {"context", "reread"}, body : ValidBodies, row : Ids, mode : Modes,
                 open : BOOLEAN]
      BY <1>0, <1>3, <2>1, <2>2, <2>3, <2>5
    <3>3. QED
      BY <2>4, <2>5, <3>1, <3>2, Finds DEF Receive
  <2>6. CASE decisions[q.row] = NoRow
    <3>1. PICK result \in PolicyResults(body) :
            req' = [req EXCEPT ![r] =
                       [stage |-> "context", body |-> body, row |-> q.row, mode |-> q.mode,
                        open |-> q.open, result |-> result.decision, due |-> Reference(body)]]
      BY <1>1, <1>3, <2>6
    <3> DEFINE new == [stage |-> "context", body |-> body, row |-> q.row, mode |-> q.mode,
                       open |-> q.open, result |-> result.decision, due |-> Reference(body)]
    <3>2. new \in [stage : {"context"}, body : ValidBodies, row : Rows, mode : Modes,
                   open : BOOLEAN, result : Verdicts, due : Verdicts]
      BY <1>3, <2>1, <2>2, <2>3, ResultVerdicts, ReferenceVerdicts
    <3>3. new \in Invocation
      BY <3>2 DEF Invocation
    <3>4. new.stage = "context" /\ new # Idle
      BY DEF Idle
    <3>5. Owns(r, new)
      BY <2>1, <3>4 DEF Owns
    <3>6. SeesOpen(new)
      BY DEF SeesOpen, OpenUnder
    <3>7. RequestOK(r, new)
      BY <3>4, <3>5, <3>6 DEF RequestOK, Carries
    <3>8. QED
      BY <1>0, <3>1, <3>3, <3>7, MovesOn DEF Receive, Unchanged
  <2>7. QED
    BY <2>5, <2>6
<1>4. QED
  BY <1>2, <1>3

LEMMA RequestTypes ==
    ASSUME Inv, NEW r \in Requests
    PROVE  req[r] \in Invocation /\ RequestOK(r, req[r])
BY DEF Inv, TypeOK

\* A decision is planned: with evidence in enforce mode, and to go on only in an open scope.
LEMMA Plans ==
    ASSUME Inv, NEW r \in Requests, req[r].stage = "context", NEW result \in Verdicts,
           NEW session \in Sessions \cup {None}, NEW verdict \in Verdicts,
           NEW quarantine \in Subjects \cup {None}, NEW evidence \in BOOLEAN, NEW lease \in BOOLEAN,
           quarantine # None => req[r].mode = "enforce",
           req[r].mode = "enforce" => evidence,
           Effective(req[r].mode, result, verdict) # "block" =>
               req[r].open /\ session = SessionNamed(req[r].body),
           lease => /\ Effective(req[r].mode, result, verdict) = "allow"
                    /\ session # None /\ AgentOf[session] = AgentNamed(req[r].body),
           req' = [req EXCEPT ![r] =
                      Planned(req[r], result, session,
                              [verdict |-> verdict, quarantine |-> quarantine], evidence, lease)],
           faults' \in Nat, UNCHANGED <<org, agents, policies, ended, risk, decisions, changes>>
    PROVE  Inv'
<1>1. /\ req[r].body \in ValidBodies /\ req[r].row \in Rows /\ req[r].mode \in Modes
      /\ req[r].open \in BOOLEAN /\ req[r].due \in Verdicts /\ RequestOK(r, req[r])
  BY RequestTypes, Stages
<1> DEFINE decision == Effective(req[r].mode, result, verdict)
           new == Planned(req[r], result, session,
                          [verdict |-> verdict, quarantine |-> quarantine], evidence, lease)
<1>2. decision \in Verdicts
  BY <1>1, Restricts
<1>3. /\ new.stage = "commit" /\ new.body = req[r].body /\ new.row = req[r].row
      /\ new.mode = req[r].mode /\ new.open = req[r].open /\ new.decision = decision
      /\ new.session = session /\ new.evidence = evidence /\ new.lease = lease
      /\ new.quarantine = quarantine
  BY DEF Planned
<1>4. new \in [stage : {"commit", "core"}, body : ValidBodies, row : Rows, mode : Modes,
               open : BOOLEAN, due : Verdicts, decision : Verdicts, policy : Verdicts,
               session : Sessions \cup {None}, quarantine : Subjects \cup {None},
               evidence : BOOLEAN, lease : BOOLEAN]
  BY <1>1, <1>2 DEF Planned
<1>5. new \in Invocation
  BY <1>3, <1>4 DEF Invocation
<1>6. new # Idle
  BY <1>3 DEF Idle
<1>7. Owns(r, new)
  BY <1>1, <1>3, <1>6 DEF RequestOK, Owns
<1>8. SeesOpen(new)
  BY <1>1, <1>3 DEF RequestOK, SeesOpen
<1>9. Carries(new)
  BY <1>3 DEF Carries
<1>10. QED
  BY <1>5, <1>7, <1>8, <1>9, MovesOn DEF RequestOK

LEMMA Loads ==
    ASSUME Inv, NEW r \in Requests, LoadContext(r)
    PROVE  Inv'
<1> DEFINE body == req[r].body
           mode == req[r].mode
           s == ValidSession(body)
           a == AgentNamed(body)
           result == IF CorrelationGate(body) # "" THEN "block" ELSE req[r].result
<1>1. /\ req[r].stage = "context" /\ body \in ValidBodies /\ mode \in Modes
      /\ req[r].open \in BOOLEAN /\ req[r].result \in Verdicts /\ RequestOK(r, req[r])
  BY RequestTypes, Stages DEF LoadContext
<1>2. PICK assessment \in IF mode = "off" THEN {NoAssessment} ELSE Assessments(mode, a, s) :
        req' = [req EXCEPT ![r] =
                   Planned(req[r], result, s, assessment, mode # "off",
                           /\ Claims(body, "lease") /\ s # None
                           /\ Effective(mode, result, assessment.verdict) = "allow")]
  BY DEF LoadContext
<1> DEFINE verdict == assessment.verdict
           quarantine == assessment.quarantine
           lease == /\ Claims(body, "lease") /\ s # None
                    /\ Effective(mode, result, verdict) = "allow"
<1>3. a \in Agents \cup {None} /\ SessionNamed(body) \in Sessions \cup {None}
  BY BodyNames
<1>4. s \in Sessions \cup {None}
  BY <1>3 DEF ValidSession
<1>5. result \in Verdicts
  BY <1>1 DEF Verdicts
<1>6. /\ verdict \in Verdicts /\ quarantine \in Subjects \cup {None}
      /\ quarantine # None => mode = "enforce"
      /\ mode = "enforce" /\ verdict # "block" => ~ScopeQuarantined(a, s)
  BY <1>1, <1>3, <1>4, AssessmentTypes
<1>7. assessment = [verdict |-> verdict, quarantine |-> quarantine]
  BY DEF Assessments, NoAssessment
<1>8. s # None => AgentOf[s] = a
  BY DEF ValidSession, SessionIsValid
<1>9. ASSUME Effective(mode, result, verdict) # "block"
      PROVE  req[r].open /\ s = SessionNamed(body)
  <2>1. result # "block" /\ (mode = "enforce" => verdict # "block")
    <3> HIDE DEF result, verdict, mode
    <3>1. QED
      BY <1>1, <1>5, <1>6, <1>9, Restricts
  <2>2. CorrelationGate(body) = ""
    BY <2>1
  <2>3. s = SessionNamed(body)
    BY <2>2, LoadedSession
  <2>4. mode = "enforce" => OpenUnder(org, risk, body)
    BY <1>6, <2>1, <2>3 DEF ScopeQuarantined, Quarantined, OpenUnder
  <2>5. req[r].open
    BY <1>1, <2>4 DEF RequestOK, SeesOpen
  <2>6. QED
    BY <2>3, <2>5
<1>10. lease \in BOOLEAN /\ (mode # "off") \in BOOLEAN
  OBVIOUS
<1>11. faults' \in Nat /\ UNCHANGED <<org, agents, policies, ended, risk, decisions, changes>>
  BY DEF LoadContext, Unchanged, Inv, TypeOK
<1>12. req' = [req EXCEPT ![r] =
                  Planned(req[r], result, s, [verdict |-> verdict, quarantine |-> quarantine],
                          mode # "off", lease)]
  BY <1>2, <1>7
<1>13. mode = "enforce" => mode # "off"
  OBVIOUS
<1>14. lease => Effective(mode, result, verdict) = "allow" /\ s # None /\ AgentOf[s] = a
  BY <1>8
<1> HIDE DEF result, s, verdict, quarantine, lease
<1>15. QED
  BY <1>1, <1>4, <1>5, <1>6, <1>9, <1>10, <1>11, <1>12, <1>13, <1>14, Plans

LEMMA Skips ==
    ASSUME Inv, NEW r \in Requests, SkipContext(r)
    PROVE  Inv'
<1>1. /\ req[r].stage = "context" /\ req[r].body \in ValidBodies /\ req[r].mode \in Modes
      /\ req[r].open \in BOOLEAN /\ req[r].result \in Verdicts /\ RequestOK(r, req[r])
  BY RequestTypes, Stages DEF SkipContext
<1>2. req[r].mode # "enforce" /\ ~Correlated(CorrelationOf(req[r].body))
  BY DEF SkipContext
<1>3. req[r].open
  BY <1>1, <1>2 DEF RequestOK, SeesOpen
<1>4. SessionNamed(req[r].body) = None
  BY <1>1, <1>2, UncorrelatedSession
<1>5. faults' \in Nat /\ UNCHANGED <<org, agents, policies, ended, risk, decisions, changes>>
  BY DEF SkipContext, Inv, TypeOK
<1>6. req' = [req EXCEPT ![r] =
                 Planned(req[r], req[r].result, None, [verdict |-> "allow", quarantine |-> None],
                         FALSE, FALSE)]
  BY DEF SkipContext, NoAssessment
<1>7. "allow" \in Verdicts
  BY DEF Verdicts
<1>8. QED
  BY <1>1, <1>2, <1>3, <1>4, <1>5, <1>6, <1>7, Plans

LEMMA Fails ==
    ASSUME Inv, NEW r \in Requests, Fail(r)
    PROVE  Inv'
<1>1. req[r].body \in ValidBodies /\ req[r].row \in Rows /\ req[r].open \in BOOLEAN
  BY RequestTypes, Stages DEF Fail, InFlight
<1>2. Done(req[r], "refused") \in Invocation /\ RequestOK(r, Done(req[r], "refused"))
  BY <1>1, Ending
<1>3. faults' \in Nat
  BY DEF Fail, Inv, TypeOK
<1>4. QED
  BY <1>2, <1>3, MovesOn DEF Fail, Ends

LEMMA Rereads ==
    ASSUME Inv, NEW r \in Requests, Reread(r)
    PROVE  Inv'
<1>1. req[r] \in Invocation /\ RequestOK(r, req[r]) /\ req[r].stage = "reread"
  BY RequestTypes DEF Reread
<1>2. req[r] \in [stage : {"context", "reread"}, body : ValidBodies, row : Ids, mode : Modes,
                  open : BOOLEAN]
  BY <1>1 DEF Invocation, Idle, Refused
<1>3. SeesOpen(req[r]) /\ decisions[req[r].row] # NoRow
  BY <1>1 DEF RequestOK, Carries
<1>4. QED
  BY <1>2, <1>3, Finds DEF Reread

LEMMA Rechecks ==
    ASSUME Inv, NEW r \in Requests, Recheck(r)
    PROVE  Inv'
<1> DEFINE q == req[r]
           d == decisions[q.row]
           answer == IF ScopeQuarantined(d.agent, d.session) THEN "block" ELSE d.decision
<1>1. /\ q.stage = "recheck" /\ q.body \in ValidBodies /\ q.row \in Rows
      /\ q.open \in BOOLEAN /\ RequestOK(r, q)
  BY RequestTypes, Stages DEF Recheck
<1>2. d # NoRow /\ Prints[q.body] = d.fingerprint
  BY <1>1 DEF RequestOK, Carries, SameFingerprint
<1>3. d \in DecisionRow /\ RowOK(d)
  BY <1>1, <1>2, RowTypes
<1>4. answer \in Verdicts
  BY <1>3 DEF DecisionRow, Verdicts
<1>5. ASSUME answer \in {"allow", "review"}
      PROVE  q.open
  <2>1. ~ScopeQuarantined(d.agent, d.session) /\ d.decision # "block"
    BY <1>5
  <2>2. d.agent = AgentNamed(q.body) /\ d.session = SessionNamed(q.body)
    BY <1>1, <1>2, <1>3, <2>1 DEF RowOK, Names
  <2>3. OpenUnder(org, risk, q.body)
    BY <2>1, <2>2 DEF OpenUnder, ScopeQuarantined, Quarantined
  <2>4. QED
    BY <1>1, <2>3 DEF RequestOK, SeesOpen
<1>6. req' = [req EXCEPT ![r] = Done(q, answer)] /\ faults' \in Nat
  BY DEF Recheck, Ends, Unchanged, Inv, TypeOK
<1> HIDE DEF answer
<1>7. Done(q, answer) \in Invocation /\ RequestOK(r, Done(q, answer))
  BY <1>1, <1>4, <1>5, Ending
<1>8. QED
  BY <1>6, <1>7, MovesOn DEF Recheck, Unchanged

----------------------------------------------------------------------------
(* Steps that write a decision *)

\* The invocation that wrote a row has moved on; risk subjects may have been quarantined.
LEMMA Writes ==
    ASSUME Inv, NEW r \in Requests, NEW row \in Ids \cup {r}, NEW d \in DecisionRow, RowOK(d),
           decisions[row] = NoRow, decisions' = [decisions EXCEPT ![row] = d],
           req[r] # Idle, NEW new \in Invocation, RequestOK(r, new)',
           new # Idle, req' = [req EXCEPT ![r] = new], faults' \in Nat,
           \/ risk' = risk
           \/ \E x \in Subjects : risk' = [risk EXCEPT ![x] = "quarantined"],
           UNCHANGED <<org, agents, policies, ended, changes>>
    PROVE  Inv'
<1>0. row \in Rows
  BY IdsAreRows
<1>1. risk' \in [Subjects -> {"normal", "quarantined"}]
  BY DEF Inv, TypeOK
<1>2. \A x \in Subjects : risk'[x] # "quarantined" => risk[x] # "quarantined"
  BY DEF Inv, TypeOK
<1>3. decisions' \in [Rows -> {NoRow} \cup DecisionRow]
  BY <1>0 DEF Inv, TypeOK
<1>4. \A o \in Rows : decisions'[o] = IF o = row THEN d ELSE decisions[o]
  BY DEF Inv, TypeOK
<1>5. TypeOK'
  BY <1>1, <1>3 DEF Inv, TypeOK
<1>6. \A o \in Rows : RowOK(decisions[o])'
  BY <1>4 DEF Inv, RowOK, Names
<1>7. ASSUME NEW s \in Requests
      PROVE  RequestOK(s, req[s])'
  <2>1. CASE s = r
    BY <2>1 DEF Inv, TypeOK
  <2>2. CASE s # r
    <3>1. req'[s] = req[s] /\ req[s] \in Invocation /\ RequestOK(s, req[s])
      BY <2>2, RequestTypes DEF Inv, TypeOK
    <3>2. decisions'[s] = decisions[s]
      BY <1>4, <2>2, IdsAreRows
    <3>3. Owns(s, req[s])'
      BY <3>1, <3>2 DEF RequestOK, Owns
    <3>4. \A body : OpenUnder(org, risk, body)' => OpenUnder(org, risk, body)
      BY <1>2 DEF OpenUnder, Bounds
    <3>5. SeesOpen(req[s])'
      BY <3>1, <3>4 DEF RequestOK, SeesOpen
    <3>6. req[s].stage \in {"reread", "recheck"} => decisions'[req[s].row] = decisions[req[s].row]
      BY <1>4, <3>1, Stages DEF RequestOK, Carries
    <3>7. Carries(req[s])'
      BY <3>1, <3>6 DEF RequestOK, Carries, SameFingerprint
    <3>8. QED
      BY <3>1, <3>3, <3>5, <3>7 DEF RequestOK
  <2>3. QED
    BY <2>1, <2>2
<1>8. QED
  BY <1>5, <1>6, <1>7 DEF Inv

LEMMA RecordedOK ==
    ASSUME Inv, NEW r \in Requests, req[r].stage \in {"commit", "core"},
           NEW evidence \in BOOLEAN, req[r].mode = "enforce" => evidence,
           NEW lease \in BOOLEAN, lease => req[r].lease,
           NEW d, d = Recorded(req[r], evidence, req[r].decision = "review", lease)
    PROVE  d \in DecisionRow /\ RowOK(d)
<1> DEFINE q == req[r]
<1>1. /\ q.body \in ValidBodies /\ q.mode \in Modes /\ q.due \in Verdicts
      /\ q.decision \in Verdicts /\ q.session \in Sessions \cup {None} /\ Carries(q)
  BY RequestTypes, Stages DEF RequestOK
<1>2. AgentNamed(q.body) \in Agents \cup {None} /\ Prints[q.body] \in Fingerprints
  BY <1>1, BodyNames DEF Fingerprints
<1>3. (q.decision = "review") \in BOOLEAN
  OBVIOUS
<1>4. d \in DecisionRow
  BY <1>1, <1>2, <1>3 DEF Recorded, DecisionRow
<1>5. /\ d.fingerprint = Prints[q.body] /\ d.agent = AgentNamed(q.body) /\ d.session = q.session
      /\ d.decision = q.decision /\ d.mode = q.mode /\ d.evidence = evidence
      /\ d.lease = lease
  BY DEF Recorded
<1>6. d.approval <=> d.decision = "review"
  BY <1>5 DEF Recorded
<1>7. Names(d)
  BY <1>1, <1>5, SamePrints DEF Names, Carries
<1>8. d.lease => d.decision = "allow" /\ d.session # None /\ AgentOf[d.session] = d.agent
  BY <1>1, <1>5 DEF Carries
<1>9. QED
  BY <1>4, <1>5, <1>6, <1>7, <1>8 DEF RowOK

\* An invocation about to write a row that does not exist.
LEMMA Writing ==
    ASSUME Inv, NEW r \in Requests, req[r].stage \in {"commit", "core"}
    PROVE  /\ req[r].row \in Ids \cup {r} /\ req[r].row \in Rows /\ req[r] # Idle
           /\ req[r].body \in ValidBodies /\ req[r].open \in BOOLEAN
           /\ req[r].decision \in Verdicts /\ req[r].evidence \in BOOLEAN
           /\ req[r].lease \in BOOLEAN /\ req[r].quarantine \in Subjects \cup {None}
           /\ req[r].decision \in {"allow", "review"} => req[r].open
           /\ Done(req[r], req[r].decision) \in Invocation
           /\ Done(req[r], "refused") \in Invocation
           /\ RequestOK(r, req[r])
<1>1. req[r] \in Invocation /\ RequestOK(r, req[r])
  BY RequestTypes
<1>2. /\ req[r].row \in Rows /\ req[r].body \in ValidBodies /\ req[r].open \in BOOLEAN
      /\ req[r].decision \in Verdicts /\ req[r].evidence \in BOOLEAN
      /\ req[r].lease \in BOOLEAN /\ req[r].quarantine \in Subjects \cup {None}
  BY <1>1, Stages
<1>3. req[r].row \in Ids \cup {r}
  BY <1>1 DEF RequestOK, Owns
<1>4. req[r].decision \in {"allow", "review"} => req[r].open
  BY <1>1 DEF RequestOK, Carries
<1>5. req[r] # Idle
  BY DEF Idle
<1>6. QED
  BY <1>1, <1>2, <1>3, <1>4, <1>5, Ending

LEMMA Ended ==
    ASSUME NEW r \in Requests, NEW new, new.stage = "done",
           new.answer \in {"allow", "review"} => new.open
    PROVE  new # Idle /\ RequestOK(r, new)'
<1>1. new # Idle
  BY DEF Idle
<1>2. QED
  BY <1>1 DEF RequestOK, Owns, SeesOpen, Carries

\* The full batch is written, and the invocation has ended or falls back.
LEMMA WritesAll ==
    ASSUME Inv, NEW r \in Requests, req[r].stage = "commit", ~UniqueViolation(req[r]),
           FullBatch(req[r]), NEW new \in Invocation, new # Idle, RequestOK(r, new)',
           req' = [req EXCEPT ![r] = new], faults' \in Nat,
           UNCHANGED <<org, agents, policies, ended, changes>>
    PROVE  Inv'
<1>1. /\ req[r].row \in Ids \cup {r} /\ req[r] # Idle /\ req[r].evidence \in BOOLEAN
      /\ req[r].lease \in BOOLEAN /\ req[r].quarantine \in Subjects \cup {None}
      /\ RequestOK(r, req[r])
  BY Writing
<1>2. req[r].mode = "enforce" => req[r].evidence
  BY <1>1 DEF RequestOK, Carries
<1>3. PICK d : d = Recorded(req[r], req[r].evidence, req[r].decision = "review", req[r].lease)
  OBVIOUS
<1>4. d \in DecisionRow /\ RowOK(d)
  BY <1>1, <1>2, <1>3, RecordedOK
<1>5. PICK row \in Ids \cup {r} : row = req[r].row
  BY <1>1
<1>6. decisions[row] = NoRow /\ decisions' = [decisions EXCEPT ![row] = d]
  BY <1>3, <1>5 DEF UniqueViolation, FullBatch
<1>7. risk' = risk \/ \E x \in Subjects : risk' = [risk EXCEPT ![x] = "quarantined"]
  BY <1>1 DEF FullBatch
<1>8. QED
  BY <1>1, <1>4, <1>6, <1>7, Writes

LEMMA Commits ==
    ASSUME Inv, NEW r \in Requests, Commit(r)
    PROVE  Inv'
<1>1. req[r].stage = "commit" /\ ~UniqueViolation(req[r]) /\ FullBatch(req[r])
  BY DEF Commit
<1>2. PICK new \in Invocation : new = Done(req[r], req[r].decision)
  BY <1>1, Writing
<1>3. new.stage = "done" /\ (new.answer \in {"allow", "review"} => new.open)
  BY <1>1, <1>2, Writing DEF Done
<1>4. new # Idle /\ RequestOK(r, new)'
  BY <1>3, Ended
<1>5. /\ req' = [req EXCEPT ![r] = new] /\ faults' \in Nat
      /\ UNCHANGED <<org, agents, policies, ended, changes>>
  BY <1>2 DEF Commit, Ends, Inv, TypeOK
<1>6. QED
  BY <1>1, <1>4, <1>5, WritesAll

LEMMA CommitsCore ==
    ASSUME Inv, NEW r \in Requests, CommitCore(r)
    PROVE  Inv'
<1>1. req[r].stage = "core" /\ ~UniqueViolation(req[r]) /\ CoreBatch(req[r])
  BY DEF CommitCore
<1>2. PICK new \in Invocation : new = Done(req[r], req[r].decision)
  BY <1>1, Writing
<1>3. new.stage = "done" /\ (new.answer \in {"allow", "review"} => new.open)
  BY <1>1, <1>2, Writing DEF Done
<1>4. new # Idle /\ RequestOK(r, new)'
  BY <1>3, Ended
<1>5. req[r].mode = "monitor"
  BY <1>1, RequestTypes, Stages
<1>6. PICK d : d = Recorded(req[r], FALSE, req[r].decision = "review", FALSE)
  OBVIOUS
<1>7. d \in DecisionRow /\ RowOK(d)
  BY <1>1, <1>5, <1>6, RecordedOK
<1>8. PICK row \in Ids \cup {r} : row = req[r].row
  BY <1>1, Writing
<1>9. decisions[row] = NoRow /\ decisions' = [decisions EXCEPT ![row] = d]
  BY <1>1, <1>6, <1>8 DEF UniqueViolation, CoreBatch
<1>10. /\ req' = [req EXCEPT ![r] = new] /\ faults' \in Nat /\ risk' = risk
       /\ UNCHANGED <<org, agents, policies, ended, changes>> /\ req[r] # Idle
  BY <1>1, <1>2, Writing DEF CommitCore, Ends, Inv, TypeOK
<1>11. QED
  BY <1>4, <1>7, <1>9, <1>10, Writes

\* Nothing but what the invocation will do next depends on a batch that failed.
LEMMA CommitsFail ==
    ASSUME Inv, NEW r \in Requests, CommitFails(r)
    PROVE  Inv'
<1>1. /\ req[r].stage = "commit" /\ ~UniqueViolation(req[r]) /\ faults' \in Nat
      /\ FullBatch(req[r]) \/ UNCHANGED <<decisions, risk>>
      /\ UNCHANGED <<org, agents, policies, ended, changes>>
  BY DEF CommitFails, Inv, TypeOK
<1>2. \E new \in Invocation : /\ req' = [req EXCEPT ![r] = new] /\ new # Idle
                              /\ RequestOK(r, new) /\ RequestOK(r, new)'
  <2>1. CASE ~FallsBack(req[r])
    <3>1. PICK new \in Invocation : new = Done(req[r], "refused")
      BY <1>1, Writing
    <3>2. new.stage = "done" /\ new.answer = "refused" /\ RequestOK(r, new)
      BY <1>1, <3>1, Writing, Ending DEF Done
    <3>3. new # Idle /\ RequestOK(r, new)'
      BY <3>2, Ended
    <3>4. req' = [req EXCEPT ![r] = new]
      BY <2>1, <3>1 DEF CommitFails, Ends
    <3>5. QED
      BY <3>2, <3>3, <3>4
  <2>2. CASE FallsBack(req[r])
    <3>1. req[r] \in Invocation /\ RequestOK(r, req[r]) /\ req[r].mode = "monitor"
      BY <2>2, RequestTypes DEF FallsBack
    <3>2. req[r] \in [stage : {"commit", "core"}, body : ValidBodies, row : Rows, mode : Modes,
                      open : BOOLEAN, due : Verdicts, decision : Verdicts, policy : Verdicts,
                      session : Sessions \cup {None}, quarantine : Subjects \cup {None},
                      evidence : BOOLEAN, lease : BOOLEAN]
      BY <1>1, <3>1 DEF Invocation, Idle, Refused
    <3>3. req[r].quarantine = None
      BY <1>1, <3>1, Stages
    <3>4. PICK new : new = [req[r] EXCEPT !.stage = "core"]
      OBVIOUS
    <3>5. new \in [stage : {"commit", "core"}, body : ValidBodies, row : Rows, mode : Modes,
                   open : BOOLEAN, due : Verdicts, decision : Verdicts, policy : Verdicts,
                   session : Sessions \cup {None}, quarantine : Subjects \cup {None},
                   evidence : BOOLEAN, lease : BOOLEAN]
      BY <3>2, <3>4
    <3>6. /\ new.stage = "core" /\ new.body = req[r].body /\ new.row = req[r].row
          /\ new.mode = req[r].mode /\ new.open = req[r].open /\ new.lease = req[r].lease
          /\ new.decision = req[r].decision /\ new.session = req[r].session
          /\ new.quarantine = req[r].quarantine
      BY <3>2, <3>4
    <3>7. new \in Invocation
      BY <3>1, <3>3, <3>5, <3>6 DEF Invocation
    <3>8. new # Idle
      BY <3>6 DEF Idle
    <3>9. new.open
      BY <1>1, <3>1, <3>6 DEF RequestOK, SeesOpen
    <3>10. RequestOK(r, new) /\ RequestOK(r, new)'
      <4>1. new.row \in Ids \cup {r}
        BY <1>1, <3>1, <3>6 DEF RequestOK, Owns
      <4>2. /\ new.lease => /\ new.decision = "allow" /\ new.session # None
                           /\ AgentOf[new.session] = AgentNamed(new.body)
            /\ new.decision # "block" => new.open /\ new.session = SessionNamed(new.body)
        BY <1>1, <3>1, <3>6 DEF RequestOK, Carries
      <4>3. QED
        BY <3>6, <3>8, <3>9, <4>1, <4>2 DEF RequestOK, Owns, SeesOpen, Carries
    <3>11. req' = [req EXCEPT ![r] = new]
      <4>1. req' = [req EXCEPT ![r].stage = "core"]
        BY <2>2 DEF CommitFails
      <4>2. QED
        BY <3>4, <4>1
    <3>12. QED
      BY <3>7, <3>8, <3>10, <3>11
  <2>3. QED
    BY <2>1, <2>2
<1>3. PICK new \in Invocation : /\ req' = [req EXCEPT ![r] = new] /\ new # Idle
                               /\ RequestOK(r, new) /\ RequestOK(r, new)'
  BY <1>2
<1>4. CASE FullBatch(req[r])
  BY <1>1, <1>3, <1>4, WritesAll
<1>5. CASE UNCHANGED <<decisions, risk>>
  BY <1>1, <1>3, <1>5, MovesOn
<1>6. QED
  BY <1>1, <1>4, <1>5

LEMMA CommitsLose ==
    ASSUME Inv, NEW r \in Requests, CommitLoses(r)
    PROVE  Inv'
<1>1. /\ req[r].stage \in {"commit", "core"} /\ UniqueViolation(req[r]) /\ Lost(r)
      /\ faults' \in Nat /\ UNCHANGED <<org, agents, policies, ended, risk, decisions, changes>>
  BY DEF CommitLoses, Lost, Unchanged, Inv, TypeOK
<1>2. CASE req[r].row \in Ids
  <2> DEFINE new == Reads(req[r])
  <2>1. new \in [stage : {"reread"}, body : ValidBodies, row : Ids, mode : Modes, open : BOOLEAN]
    BY <1>1, <1>2, RequestTypes, Stages DEF Reads
  <2>2. new \in Invocation
    BY <2>1 DEF Invocation
  <2>3. /\ new.stage = "reread" /\ new.body = req[r].body /\ new.row = req[r].row
        /\ new.mode = req[r].mode /\ new.open = req[r].open
    BY DEF Reads
  <2>4. new # Idle
    BY <2>3 DEF Idle
  <2>5. SeesOpen(new)
    BY <1>1, <2>3, Writing DEF RequestOK, SeesOpen
  <2>6. RequestOK(r, new)
    BY <1>1, <2>3, <2>4, <2>5 DEF RequestOK, Owns, Carries, UniqueViolation
  <2>7. req' = [req EXCEPT ![r] = new]
    BY <1>1, <1>2 DEF Lost
  <2>8. QED
    BY <1>1, <2>2, <2>6, <2>7, MovesOn
<1>3. CASE req[r].row \notin Ids
  <2>1. Done(req[r], "refused") \in Invocation /\ RequestOK(r, Done(req[r], "refused"))
    BY <1>1, Writing, Ending
  <2>2. req' = [req EXCEPT ![r] = Done(req[r], "refused")]
    BY <1>1, <1>3 DEF Lost, Ends
  <2>3. QED
    BY <1>1, <2>1, <2>2, MovesOn
<1>4. QED
  BY <1>2, <1>3

----------------------------------------------------------------------------
(* Steps around the invocations *)

LEMMA Reopened ==
    ASSUME NEW q \in Invocation, q.stage \notin {"idle", "done"}, NEW opened \in BOOLEAN,
           NEW new, new = [q EXCEPT !.open = opened]
    PROVE  /\ new \in Invocation /\ new # Idle /\ new.open = opened
           /\ new.stage = q.stage /\ new.body = q.body /\ new.row = q.row /\ new.mode = q.mode
           /\ q.stage \in {"commit", "core"} =>
                 /\ new.evidence = q.evidence /\ new.lease = q.lease
                 /\ new.decision = q.decision /\ new.session = q.session
<1> DEFINE Reading == [stage : {"context"}, body : ValidBodies, row : Rows, mode : Modes,
                       open : BOOLEAN, result : Verdicts, due : Verdicts]
           Writer == [stage : {"commit", "core"}, body : ValidBodies, row : Rows, mode : Modes,
                      open : BOOLEAN, due : Verdicts, decision : Verdicts, policy : Verdicts,
                      session : Sessions \cup {None}, quarantine : Subjects \cup {None},
                      evidence : BOOLEAN, lease : BOOLEAN]
           Rereader == [stage : {"reread"}, body : ValidBodies, row : Ids, mode : Modes,
                        open : BOOLEAN]
           Checker == [stage : {"recheck"}, body : ValidBodies, row : Ids, mode : {"enforce"},
                       open : BOOLEAN]
<1>0. new.stage \notin {"idle", "done"} => new # Idle
  BY DEF Idle
<1>1. CASE q \in Reading
  <2>1. /\ new \in Reading /\ new.open = opened /\ new.stage = q.stage /\ new.body = q.body
        /\ new.row = q.row /\ new.mode = q.mode /\ q.stage = "context"
    BY <1>1
  <2>2. new \in Invocation
    BY <2>1 DEF Invocation
  <2>3. QED
    BY <1>0, <2>1, <2>2
<1>2. CASE /\ q \in Writer
           /\ q.stage = "core" => q.mode = "monitor"
           /\ q.quarantine # None => q.mode = "enforce"
  <2>1. /\ new \in Writer /\ new.open = opened /\ new.stage = q.stage /\ new.body = q.body
        /\ new.row = q.row /\ new.mode = q.mode /\ new.quarantine = q.quarantine
        /\ new.evidence = q.evidence /\ new.lease = q.lease
        /\ new.decision = q.decision /\ new.session = q.session
    BY <1>2
  <2>2. new \in Invocation
    BY <1>2, <2>1 DEF Invocation
  <2>3. QED
    BY <1>0, <2>1, <2>2
<1>3. CASE q \in Rereader
  <2>1. /\ new \in Rereader /\ new.open = opened /\ new.stage = q.stage /\ new.body = q.body
        /\ new.row = q.row /\ new.mode = q.mode /\ q.stage = "reread"
    BY <1>3
  <2>2. new \in Invocation
    BY <2>1 DEF Invocation
  <2>3. QED
    BY <1>0, <2>1, <2>2
<1>4. CASE q \in Checker
  <2>1. /\ new \in Checker /\ new.open = opened /\ new.stage = q.stage /\ new.body = q.body
        /\ new.row = q.row /\ new.mode = q.mode /\ q.stage = "recheck"
    BY <1>4
  <2>2. new \in Invocation
    BY <2>1 DEF Invocation
  <2>3. QED
    BY <1>0, <2>1, <2>2
<1>5. QED
  BY <1>1, <1>2, <1>3, <1>4 DEF Invocation, Idle, Refused

\* The mode or a risk state changes, and the invocations have seen whether their scope is open.
LEMMA Witnesses ==
    ASSUME Inv, NEW o \in [mode : Modes, usable : BOOLEAN],
           NEW states \in [Subjects -> {"normal", "quarantined"}],
           org' = o, risk' = states, Witness(o, states), changes' \in Nat,
           UNCHANGED <<agents, policies, ended, decisions, faults>>
    PROVE  Inv'
<1>1. ASSUME NEW r \in Requests
      PROVE  req'[r] \in Invocation /\ RequestOK(r, req[r])'
  <2>1. req[r] \in Invocation /\ RequestOK(r, req[r])
    BY RequestTypes
  <2>2. CASE ~InFlight(r)
    <3>1. req'[r] = req[r] /\ req[r].stage \in {"idle", "done"}
      BY <2>2 DEF Witness, InFlight
    <3>2. QED
      BY <2>1, <3>1 DEF RequestOK, Owns, SeesOpen, Carries
  <2>3. CASE InFlight(r)
    <3>1. PICK new : new = req'[r]
      OBVIOUS
    <3>2. PICK opened \in BOOLEAN : opened = (req[r].open \/ OpenUnder(o, states, req[r].body))
      OBVIOUS
    <3>3. new = [req[r] EXCEPT !.open = opened]
      BY <2>3, <3>1, <3>2 DEF Witness
    <3>4. /\ new \in Invocation /\ new # Idle /\ new.open = opened
          /\ new.stage = req[r].stage /\ new.body = req[r].body /\ new.row = req[r].row
          /\ new.mode = req[r].mode
          /\ req[r].stage \in {"commit", "core"} =>
                /\ new.evidence = req[r].evidence /\ new.lease = req[r].lease
                /\ new.decision = req[r].decision /\ new.session = req[r].session
      <4>1. PICK q \in Invocation : q = req[r]
        BY <2>1
      <4>2. q.stage \notin {"idle", "done"} /\ new = [q EXCEPT !.open = opened]
        BY <2>3, <3>3, <4>1 DEF InFlight
      <4>3. /\ new \in Invocation /\ new # Idle /\ new.open = opened
            /\ new.stage = q.stage /\ new.body = q.body /\ new.row = q.row /\ new.mode = q.mode
            /\ q.stage \in {"commit", "core"} =>
                  /\ new.evidence = q.evidence /\ new.lease = q.lease
                  /\ new.decision = q.decision /\ new.session = q.session
        BY <4>2, Reopened
      <4>4. QED
        BY <4>1, <4>3
    <3>5. Owns(r, new)'
      BY <2>1, <3>4 DEF RequestOK, Owns
    <3>6. SeesOpen(new)'
      BY <2>1, <3>2, <3>4 DEF RequestOK, SeesOpen, OpenUnder
    <3>7. Carries(new)'
      BY <2>1, <2>3, <3>2, <3>4 DEF RequestOK, Carries, SameFingerprint, InFlight
    <3>8. QED
      BY <3>1, <3>4, <3>5, <3>6, <3>7 DEF RequestOK
  <2>4. QED
    BY <2>2, <2>3
<1>2. req' \in [Requests -> Invocation]
  BY <1>1 DEF Witness
<1>3. TypeOK'
  BY <1>2 DEF Inv, TypeOK
<1>4. \A row \in Rows : RowOK(decisions[row])'
  BY DEF Inv, RowOK, Names
<1>5. QED
  BY <1>1, <1>3, <1>4 DEF Inv

\* Nothing changes that the invocations have not looked at, or a scope is contained.
LEMMA Around ==
    ASSUME Inv, UNCHANGED <<req, decisions, faults>>, TypeOK', org'.mode = org.mode,
           \A x \in Subjects : risk'[x] # "quarantined" => risk[x] # "quarantined"
    PROVE  Inv'
<1>1. \A body : OpenUnder(org, risk, body)' => OpenUnder(org, risk, body)
  BY DEF OpenUnder, Bounds
<1>2. ASSUME NEW r \in Requests
      PROVE  RequestOK(r, req[r])'
  <2>1. RequestOK(r, req[r])
    BY RequestTypes
  <2>2. SeesOpen(req[r])'
    BY <1>1, <2>1 DEF RequestOK, SeesOpen
  <2>3. Owns(r, req[r])' /\ Carries(req[r])'
    BY <2>1 DEF RequestOK, Owns, Carries, SameFingerprint
  <2>4. QED
    BY <2>2, <2>3 DEF RequestOK
<1>3. \A row \in Rows : RowOK(decisions[row])'
  BY DEF Inv, RowOK, Names
<1>4. QED
  BY <1>2, <1>3 DEF Inv

LEMMA AroundSteps ==
    ASSUME Inv, \/ ChangeMode \/ RevokeKey \/ ChangePolicies \/ SetAgentStatus \/ EndSession
                \/ QuarantineSubject \/ ClearSubject \/ UNCHANGED vars
    PROVE  Inv'
<1>1. CASE ChangeMode
  <2>1. PICK mode \in Modes : /\ org' = [org EXCEPT !.mode = mode]
                             /\ Witness([org EXCEPT !.mode = mode], risk)
    BY <1>1 DEF ChangeMode
  <2>2. org' \in [mode : Modes, usable : BOOLEAN] /\ risk \in [Subjects -> {"normal", "quarantined"}]
    BY <2>1 DEF Inv, TypeOK
  <2>3. PICK o \in [mode : Modes, usable : BOOLEAN] : o = [org EXCEPT !.mode = mode]
    BY <2>1, <2>2
  <2>4. PICK states \in [Subjects -> {"normal", "quarantined"}] : states = risk
    BY <2>2
  <2>5. changes' \in Nat /\ UNCHANGED <<agents, policies, ended, risk, decisions, faults>>
    BY <1>1 DEF ChangeMode, Changes, Inv, TypeOK
  <2>6. QED
    BY <2>1, <2>3, <2>4, <2>5, Witnesses
<1>2. CASE RevokeKey
  <2>1. org \in [mode : Modes, usable : BOOLEAN] /\ org' = [org EXCEPT !.usable = FALSE]
    BY <1>2 DEF RevokeKey, Inv, TypeOK
  <2>2. org' \in [mode : Modes, usable : BOOLEAN] /\ org'.mode = org.mode
    BY <2>1
  <2>3. TypeOK'
    BY <1>2, <2>2 DEF RevokeKey, Changes, Inv, TypeOK
  <2>4. QED
    BY <1>2, <2>2, <2>3, Around DEF RevokeKey
<1>3. CASE ChangePolicies
  <2>1. TypeOK'
    BY <1>3 DEF ChangePolicies, Changes, Inv, TypeOK
  <2>2. QED
    BY <1>3, <2>1, Around DEF ChangePolicies
<1>4. CASE SetAgentStatus
  <2>1. TypeOK'
    BY <1>4 DEF SetAgentStatus, Changes, Inv, TypeOK
  <2>2. QED
    BY <1>4, <2>1, Around DEF SetAgentStatus
<1>5. CASE EndSession
  <2>1. TypeOK'
    BY <1>5 DEF EndSession, Changes, Inv, TypeOK
  <2>2. QED
    BY <1>5, <2>1, Around DEF EndSession
<1>6. CASE QuarantineSubject
  <2>1. PICK x \in Subjects : risk' = [risk EXCEPT ![x] = "quarantined"]
    BY <1>6 DEF QuarantineSubject
  <2>2. TypeOK' /\ \A y \in Subjects : risk'[y] # "quarantined" => risk[y] # "quarantined"
    BY <1>6, <2>1 DEF QuarantineSubject, Changes, Inv, TypeOK
  <2>3. QED
    BY <1>6, <2>2, Around DEF QuarantineSubject
<1>7. CASE ClearSubject
  <2>1. PICK x \in Subjects : /\ risk' = [risk EXCEPT ![x] = "normal"]
                             /\ Witness(org, [risk EXCEPT ![x] = "normal"])
    BY <1>7 DEF ClearSubject
  <2>2. risk' \in [Subjects -> {"normal", "quarantined"}] /\ org \in [mode : Modes, usable : BOOLEAN]
    BY <2>1 DEF Inv, TypeOK
  <2>3. PICK states \in [Subjects -> {"normal", "quarantined"}] : states = [risk EXCEPT ![x] = "normal"]
    BY <2>1, <2>2
  <2>4. PICK o \in [mode : Modes, usable : BOOLEAN] : o = org
    BY <2>2
  <2>5. changes' \in Nat /\ UNCHANGED <<org, agents, policies, ended, decisions, faults>>
    BY <1>7 DEF ClearSubject, Changes, Inv, TypeOK
  <2>6. QED
    BY <2>1, <2>3, <2>4, <2>5, Witnesses
<1>8. CASE UNCHANGED vars
  <2>1. TypeOK'
    BY <1>8 DEF vars, Inv, TypeOK
  <2>2. QED
    BY <1>8, <2>1, Around DEF vars
<1>9. QED
  BY <1>1, <1>2, <1>3, <1>4, <1>5, <1>6, <1>7, <1>8

----------------------------------------------------------------------------
(* The invariant holds *)

LEMMA InitInv == Init => Inv
<1> SUFFICES ASSUME Init PROVE Inv
  OBVIOUS
<1>1. TypeOK
  BY DEF Init, TypeOK, Invocation
<1>2. \A r \in Requests : req[r] = Idle /\ decisions[r] = NoRow
  BY IdsAreRows DEF Init
<1>3. \A r \in Requests : RequestOK(r, req[r])
  BY <1>2 DEF RequestOK, Owns, SeesOpen, Carries, Idle
<1>4. \A row \in Rows : RowOK(decisions[row])
  BY DEF Init, RowOK
<1>5. QED
  BY <1>1, <1>3, <1>4 DEF Inv

LEMMA NextInv == Inv /\ [Next]_vars => Inv'
<1> SUFFICES ASSUME Inv, [Next]_vars PROVE Inv'
  OBVIOUS
<1>1. CASE \E r \in Requests :
              \/ Receive(r) \/ LoadContext(r) \/ SkipContext(r)
              \/ Commit(r) \/ CommitLoses(r) \/ CommitFails(r) \/ CommitCore(r)
              \/ Reread(r) \/ Recheck(r) \/ Fail(r)
  BY <1>1, Receives, Loads, Skips, Commits, CommitsLose, CommitsFail, CommitsCore, Rereads,
     Rechecks, Fails
<1>2. CASE \/ ChangeMode \/ RevokeKey \/ ChangePolicies \/ SetAgentStatus \/ EndSession
           \/ QuarantineSubject \/ ClearSubject \/ UNCHANGED vars
  BY <1>2, AroundSteps
<1>3. QED
  BY <1>1, <1>2 DEF Next, AllDone

LEMMA Invariance == Spec => []Inv
BY InitInv, NextInv, PTL DEF Spec

\* The tables and the invocations have their types: a quarantine is only written in enforce
\* mode, and a decision is recorded without its evidence only in monitor mode. (evaluate.ts:355)
THEOREM TypeCorrect == Spec => []TypeOK
<1>1. Inv => TypeOK
  BY DEF Inv
<1>2. QED
  BY <1>1, Invariance, PTL

\* Nobody is told to go on with an action whose scope has been contained in enforce mode ever
\* since the request arrived, by an evaluation or by a replay. (evaluate.ts:151, 370)
THEOREM ContainedScopesAreClosed == Spec => []NoAllowInContainedScope
<1>1. Inv => NoAllowInContainedScope
  BY DEF Inv, RequestOK, Carries, NoAllowInContainedScope
<1>2. QED
  BY <1>1, Invariance, PTL

\* A decision made under enforcement is recorded with its runtime evidence. (evaluate.ts:355)
THEOREM EvidenceIsKept == Spec => []EnforcedDecisionsHaveEvidence
<1>1. Inv => EnforcedDecisionsHaveEvidence
  BY DEF Inv, RowOK, EnforcedDecisionsHaveEvidence
<1>2. QED
  BY <1>1, Invariance, PTL

\* An approval is asked for exactly with a review, and a lease given only with an allow, to the
\* agent of its session, whichever of the two batches recorded the decision. (evaluate.ts:355)
THEOREM AuthorityIsTheDecisions == Spec => []AuthorityMatchesDecision
<1>1. Inv => AuthorityMatchesDecision
  BY DEF Inv, RowOK, AuthorityMatchesDecision
<1>2. QED
  BY <1>1, Invariance, PTL

----------------------------------------------------------------------------
(* The gateway implements DecisionLog *)

LEMMA InitRefines == Init => Log!Init
BY DEF Init, Log!Init, Log!Waiting, Idle, Entries, Entry, Answers, Said

\* Nothing is recorded, and nobody is answered.
LEMMA Silent ==
    ASSUME decisions' = decisions, \A r \in Requests : Said(req[r])' = Said(req[r])
    PROVE  UNCHANGED Log!vars
BY DEF Log!vars, Entries, Answers

\* The answer of one invocation.
LEMMA Answered ==
    ASSUME Inv, NEW r \in Requests, req[r].stage # "done", NEW new, new.stage = "done",
           req' = [req EXCEPT ![r] = new]
    PROVE  /\ Answers' = [Answers EXCEPT ![r] = Said(new)]
           /\ Answers[r] = [answer |-> "waiting"]
           /\ Said(new) = IF new.answer \in {"allow", "review"}
                          THEN [answer |-> new.answer, key |-> new.row,
                                content |-> Prints[new.body]]
                          ELSE [answer |-> "stop"]
<1>1. \A s \in Requests : req'[s] = IF s = r THEN new ELSE req[s]
  BY DEF Inv, TypeOK
<1>2. Answers' = [Answers EXCEPT ![r] = Said(new)]
  BY <1>1 DEF Answers, Said
<1>3. QED
  BY <1>2 DEF Answers, Said

\* Somebody is told to stop, or what is recorded by then.
LEMMA Tells ==
    ASSUME Inv, NEW r \in Requests, req[r].stage # "done", NEW new, new.stage = "done",
           req' = [req EXCEPT ![r] = new],
           new.answer \in {"allow", "review"} =>
               /\ new.row \in Rows
               /\ decisions'[new.row] \in DecisionRow
               /\ decisions'[new.row].decision = new.answer
               /\ decisions'[new.row].fingerprint = Prints[new.body]
    PROVE  Log!Tell
<1>1. /\ Answers' = [Answers EXCEPT ![r] = Said(new)] /\ Answers[r] = [answer |-> "waiting"]
      /\ Said(new) = IF new.answer \in {"allow", "review"}
                     THEN [answer |-> new.answer, key |-> new.row, content |-> Prints[new.body]]
                     ELSE [answer |-> "stop"]
  BY Answered
<1>2. CASE new.answer \notin {"allow", "review"}
  BY <1>1, <1>2 DEF Log!Tell, Log!Waiting, Log!Stop
<1>3. CASE new.answer \in {"allow", "review"}
  <2>1. decisions'[new.row] # NoRow
    BY <1>3 DEF DecisionRow, NoRow, Verdicts
  <2>2. Entries'[new.row] = [decision |-> new.answer, content |-> Prints[new.body]]
    BY <1>3, <2>1 DEF Entries, Entry
  <2>3. Entries'[new.row] # NoRow
    BY <1>3, <2>2 DEF NoRow
  <2>4. PICK k \in Rows : k = new.row
    BY <1>3
  <2>5. Said(new) = [answer |-> Entries'[k].decision, key |-> k, content |-> Entries'[k].content]
    BY <1>1, <1>3, <2>2, <2>4
  <2>6. QED
    BY <1>1, <2>3, <2>4, <2>5 DEF Log!Tell, Log!Waiting
<1>4. QED
  BY <1>2, <1>3

LEMMA TellsOnly ==
    ASSUME Inv, NEW r \in Requests, req[r].stage # "done", NEW new, new.stage = "done",
           req' = [req EXCEPT ![r] = new], decisions' = decisions,
           new.answer \in {"allow", "review"} =>
               /\ new.row \in Rows /\ decisions[new.row] # NoRow
               /\ decisions[new.row].decision = new.answer
               /\ decisions[new.row].fingerprint = Prints[new.body]
    PROVE  Log!Next
<1>1. new.answer \in {"allow", "review"} => decisions[new.row] \in DecisionRow
  BY RowTypes
<1>2. Log!Tell
  BY <1>1, Tells
<1>3. Entries' = Entries
  BY DEF Entries
<1>4. QED
  BY <1>2, <1>3 DEF Log!Next

\* A first decision is recorded.
LEMMA Appends ==
    ASSUME Inv, NEW row \in Rows, NEW d \in DecisionRow, decisions[row] = NoRow,
           decisions' = [decisions EXCEPT ![row] = d]
    PROVE  Log!Append
<1>1. \A o \in Rows : decisions'[o] = IF o = row THEN d ELSE decisions[o]
  BY DEF Inv, TypeOK
<1>2. d # NoRow
  BY DEF DecisionRow, NoRow, Verdicts
<1>3. Entries[row] = NoRow
  BY DEF Entries, Entry
<1>4. Entries'[row] = [decision |-> d.decision, content |-> d.fingerprint]
  BY <1>1, <1>2 DEF Entries, Entry
<1>5. Entries'[row] \in [decision : {"allow", "review", "block"}, content : Fingerprints]
  BY <1>4 DEF DecisionRow, Verdicts
<1>6. Entries' = [Entries EXCEPT ![row] = Entries'[row]]
  BY <1>1 DEF Entries, Entry
<1>7. QED
  BY <1>3, <1>5, <1>6 DEF Log!Append

LEMMA FindsRefine ==
    ASSUME Inv, NEW r \in Requests, req[r].stage # "done",
           NEW q \in [stage : {"context", "reread"}, body : ValidBodies, row : Ids, mode : Modes,
                      open : BOOLEAN],
           decisions[q.row] # NoRow, Found(r, q), Unchanged
    PROVE  [Log!Next]_Log!vars
<1>0. q.row \in Rows /\ decisions' = decisions
  BY IdsAreRows DEF Unchanged
<1>1. CASE ~SameFingerprint(q.body, q.row)
  <2>1. PICK new : new = Done(q, "refused")
    OBVIOUS
  <2>2. new.stage = "done" /\ new.answer = "refused" /\ req' = [req EXCEPT ![r] = new]
    BY <1>1, <2>1 DEF Found, Done
  <2>3. QED
    BY <1>0, <2>2, TellsOnly
<1>2. CASE SameFingerprint(q.body, q.row) /\ q.mode = "enforce"
  <2>1. req' = [req EXCEPT ![r] = [q EXCEPT !.stage = "recheck"]]
    BY <1>2 DEF Found
  <2>2. req'[r].stage = "recheck" /\ \A s \in Requests \ {r} : req'[s] = req[s]
    BY <2>1 DEF Inv, TypeOK
  <2>3. \A s \in Requests : Said(req[s])' = Said(req[s])
    BY <2>2 DEF Said
  <2>4. QED
    BY <1>0, <2>3, Silent
<1>3. CASE SameFingerprint(q.body, q.row) /\ q.mode # "enforce"
  <2>1. PICK new : new = Done(q, decisions[q.row].decision)
    OBVIOUS
  <2>2. /\ new.stage = "done" /\ new.answer = decisions[q.row].decision /\ new.row = q.row
        /\ new.body = q.body /\ req' = [req EXCEPT ![r] = new]
    BY <1>3, <2>1 DEF Found, Done
  <2>3. QED
    BY <1>0, <1>3, <2>2, TellsOnly DEF SameFingerprint
<1>4. QED
  BY <1>1, <1>2, <1>3

\* An invocation that is told to stop.
LEMMA Stops ==
    ASSUME Inv, NEW r \in Requests, req[r].stage # "done", NEW new, new.stage = "done",
           new.answer = "refused", req' = [req EXCEPT ![r] = new], decisions' = decisions
    PROVE  Log!Next
BY TellsOnly

\* An invocation that goes on.
LEMMA GoesOn ==
    ASSUME Inv, NEW r \in Requests, req[r].stage # "done", NEW new, new.stage # "done",
           req' = [req EXCEPT ![r] = new]
    PROVE  /\ Answers' = Answers
           /\ decisions' = decisions => UNCHANGED Log!vars
<1>1. \A s \in Requests : req'[s] = IF s = r THEN new ELSE req[s]
  BY DEF Inv, TypeOK
<1>2. \A s \in Requests : Said(req[s])' = Said(req[s])
  BY <1>1 DEF Said
<1>3. QED
  BY <1>2, Silent DEF Answers

LEMMA ReceiveRefines ==
    ASSUME Inv, NEW r \in Requests, Receive(r)
    PROVE  [Log!Next]_Log!vars
<1>0. decisions' = decisions /\ req[r] = Idle /\ decisions[r] = NoRow /\ req[r].stage # "done"
  BY DEF Receive, Unchanged, Inv, RequestOK, Owns, Idle
<1>1. PICK body \in Bodies :
        LET q == [stage |-> "context", body |-> body, row |-> RowNamed(body, r), mode |-> org.mode,
                  open |-> OpenUnder(org, risk, body)]
        IN  IF body \notin ValidBodies \/ ~org.usable THEN req' = [req EXCEPT ![r] = Refused]
            ELSE IF decisions[q.row] # NoRow THEN Found(r, q)
            ELSE \E result \in PolicyResults(body) :
                    req' = [req EXCEPT ![r] =
                               [stage |-> "context", body |-> body, row |-> q.row, mode |-> q.mode,
                                open |-> q.open, result |-> result.decision, due |-> Reference(body)]]
  BY DEF Receive
<1>2. CASE body \notin ValidBodies \/ ~org.usable
  <2>1. req' = [req EXCEPT ![r] = Refused] /\ Refused.stage = "done" /\ Refused.answer = "refused"
    BY <1>1, <1>2 DEF Refused
  <2>2. QED
    BY <1>0, <2>1, Stops
<1>3. CASE body \in ValidBodies /\ org.usable
  <2> DEFINE q == [stage |-> "context", body |-> body, row |-> RowNamed(body, r), mode |-> org.mode,
                   open |-> OpenUnder(org, risk, body)]
  <2>1. RowNamed(body, r) \in Ids \cup {r} /\ org.mode \in Modes
    BY BodyNames DEF Inv, TypeOK
  <2>2. OpenUnder(org, risk, body) \in BOOLEAN
    BY DEF OpenUnder
  <2>3. CASE decisions[q.row] # NoRow
    <3>1. Found(r, q)
      BY <1>1, <1>3, <2>3
    <3>2. q \in [stage : {"context", "reread"}, body : ValidBodies, row : Ids, mode : Modes,
                 open : BOOLEAN]
      BY <1>0, <1>3, <2>1, <2>2, <2>3
    <3>3. QED
      BY <1>0, <2>3, <3>1, <3>2, FindsRefine DEF Receive
  <2>4. CASE decisions[q.row] = NoRow
    <3>1. PICK result \in PolicyResults(body) :
            req' = [req EXCEPT ![r] =
                       [stage |-> "context", body |-> body, row |-> q.row, mode |-> q.mode,
                        open |-> q.open, result |-> result.decision, due |-> Reference(body)]]
      BY <1>1, <1>3, <2>4
    <3>2. QED
      BY <1>0, <3>1, GoesOn
  <2>5. QED
    BY <2>3, <2>4
<1>4. QED
  BY <1>2, <1>3

LEMMA PlanRefines ==
    ASSUME Inv, NEW r \in Requests, LoadContext(r) \/ SkipContext(r)
    PROVE  [Log!Next]_Log!vars
<1>1. decisions' = decisions /\ req[r].stage # "done"
  BY DEF LoadContext, SkipContext, Unchanged
<1>2. PICK new : new.stage = "commit" /\ req' = [req EXCEPT ![r] = new]
  BY DEF LoadContext, SkipContext, Planned
<1>3. QED
  BY <1>1, <1>2, GoesOn

\* The row that a batch writes, and the answer that tells of it.
LEMMA WriteRefines ==
    ASSUME Inv, NEW r \in Requests, req[r].stage \in {"commit", "core"}, ~UniqueViolation(req[r]),
           NEW evidence \in BOOLEAN, req[r].mode = "enforce" => evidence,
           NEW lease \in BOOLEAN, lease => req[r].lease,
           decisions' = [decisions EXCEPT ![req[r].row] =
                            Recorded(req[r], evidence, req[r].decision = "review", lease)]
    PROVE  /\ Log!Append
           /\ req' = [req EXCEPT ![r] = Done(req[r], req[r].decision)] => Log!Tell
           /\ req' = [req EXCEPT ![r] = Done(req[r], "refused")] => Log!Tell
<1>1. PICK d : d = Recorded(req[r], evidence, req[r].decision = "review", lease)
  OBVIOUS
<1>2. d \in DecisionRow
  BY <1>1, RecordedOK
<1>3. /\ req[r].row \in Rows /\ decisions[req[r].row] = NoRow
      /\ decisions' = [decisions EXCEPT ![req[r].row] = d]
  BY <1>1, Writing DEF UniqueViolation
<1>4. Log!Append
  BY <1>2, <1>3, Appends
<1>5. /\ decisions'[req[r].row] = d
      /\ d.decision = req[r].decision /\ d.fingerprint = Prints[req[r].body]
  BY <1>1, <1>3 DEF Recorded, Inv, TypeOK
<1>6. ASSUME req' = [req EXCEPT ![r] = Done(req[r], req[r].decision)]
      PROVE  Log!Tell
  <2>1. PICK new : new = Done(req[r], req[r].decision)
    OBVIOUS
  <2>2. /\ new.stage = "done" /\ new.answer = req[r].decision /\ new.row = req[r].row
        /\ new.body = req[r].body /\ req' = [req EXCEPT ![r] = new]
    BY <1>6, <2>1 DEF Done
  <2>3. QED
    BY <1>2, <1>3, <1>5, <2>2, Tells
<1>7. ASSUME req' = [req EXCEPT ![r] = Done(req[r], "refused")]
      PROVE  Log!Tell
  <2>1. PICK new : new = Done(req[r], "refused")
    OBVIOUS
  <2>2. new.stage = "done" /\ new.answer = "refused" /\ req' = [req EXCEPT ![r] = new]
    BY <1>7, <2>1 DEF Done
  <2>3. QED
    BY <2>2, Tells
<1>8. QED
  BY <1>4, <1>6, <1>7

LEMMA CommitRefines ==
    ASSUME Inv, NEW r \in Requests, Commit(r) \/ CommitCore(r)
    PROVE  [Log!Next]_Log!vars
<1>1. req' = [req EXCEPT ![r] = Done(req[r], req[r].decision)] /\ ~UniqueViolation(req[r])
  BY DEF Commit, CommitCore, Ends
<1>2. CASE Commit(r)
  <2>1. req[r].stage = "commit" /\ req[r].evidence \in BOOLEAN /\ req[r].lease \in BOOLEAN
    BY <1>2, Writing DEF Commit
  <2>2. req[r].mode = "enforce" => req[r].evidence
    BY <2>1, RequestTypes DEF RequestOK, Carries
  <2>3. decisions' = [decisions EXCEPT ![req[r].row] =
                         Recorded(req[r], req[r].evidence, req[r].decision = "review", req[r].lease)]
    BY <1>2 DEF Commit, FullBatch
  <2>4. Log!Append /\ Log!Tell
    BY <1>1, <2>1, <2>2, <2>3, WriteRefines
  <2>5. QED
    BY <2>4 DEF Log!Next
<1>3. CASE CommitCore(r)
  <2>1. req[r].stage = "core" /\ req[r].mode = "monitor"
    BY <1>3, RequestTypes, Stages DEF CommitCore
  <2>2. decisions' = [decisions EXCEPT ![req[r].row] =
                         Recorded(req[r], FALSE, req[r].decision = "review", FALSE)]
    BY <1>3 DEF CommitCore, CoreBatch
  <2>3. Log!Append /\ Log!Tell
    BY <1>1, <2>1, <2>2, WriteRefines
  <2>4. QED
    BY <2>3 DEF Log!Next
<1>4. QED
  BY <1>2, <1>3

LEMMA CommitFailsRefines ==
    ASSUME Inv, NEW r \in Requests, CommitFails(r)
    PROVE  [Log!Next]_Log!vars
<1>1. /\ req[r].stage = "commit" /\ ~UniqueViolation(req[r])
      /\ FullBatch(req[r]) \/ decisions' = decisions
  BY DEF CommitFails
<1>2. \/ req' = [req EXCEPT ![r] = Done(req[r], "refused")]
      \/ req' = [req EXCEPT ![r] = [req[r] EXCEPT !.stage = "core"]]
  BY DEF CommitFails, Ends
<1>3. ASSUME req' = [req EXCEPT ![r] = [req[r] EXCEPT !.stage = "core"]]
      PROVE  Answers' = Answers /\ (decisions' = decisions => UNCHANGED Log!vars)
  <2>1. PICK new : new = [req[r] EXCEPT !.stage = "core"]
    OBVIOUS
  <2>2. new.stage # "done" /\ req' = [req EXCEPT ![r] = new]
    <3>1. req[r] \in Invocation /\ req[r].stage = "commit"
      BY <1>1, RequestTypes
    <3>2. "stage" \in DOMAIN req[r]
      BY <3>1 DEF Invocation, Idle, Refused
    <3>3. QED
      BY <1>3, <2>1, <3>2
  <2>3. QED
    BY <1>1, <2>2, GoesOn
<1>4. CASE FullBatch(req[r])
  <2>1. req[r].evidence \in BOOLEAN /\ req[r].lease \in BOOLEAN
    BY <1>1, Writing
  <2>2. req[r].mode = "enforce" => req[r].evidence
    BY <1>1, RequestTypes DEF RequestOK, Carries
  <2>3. decisions' = [decisions EXCEPT ![req[r].row] =
                         Recorded(req[r], req[r].evidence, req[r].decision = "review", req[r].lease)]
    BY <1>4 DEF FullBatch
  <2>4. /\ Log!Append
        /\ req' = [req EXCEPT ![r] = Done(req[r], "refused")] => Log!Tell
    BY <1>1, <2>1, <2>2, <2>3, WriteRefines
  <2>5. QED
    BY <1>2, <1>3, <2>4 DEF Log!Next
<1>5. CASE decisions' = decisions
  <2>1. ASSUME req' = [req EXCEPT ![r] = Done(req[r], "refused")]
        PROVE  Log!Next
    <3>1. PICK new : new = Done(req[r], "refused")
      OBVIOUS
    <3>2. new.stage = "done" /\ new.answer = "refused" /\ req' = [req EXCEPT ![r] = new]
      BY <2>1, <3>1 DEF Done
    <3>3. QED
      BY <1>1, <1>5, <3>2, Stops
  <2>2. QED
    BY <1>2, <1>3, <1>5, <2>1
<1>6. QED
  BY <1>1, <1>4, <1>5

LEMMA LoseRefines ==
    ASSUME Inv, NEW r \in Requests, CommitLoses(r) \/ Fail(r)
    PROVE  [Log!Next]_Log!vars
<1>1. decisions' = decisions /\ req[r].stage # "done"
  BY DEF CommitLoses, Lost, Unchanged, Fail, InFlight
<1>2. CASE req' = [req EXCEPT ![r] = Done(req[r], "refused")]
  <2>1. PICK new : new = Done(req[r], "refused")
    OBVIOUS
  <2>2. new.stage = "done" /\ new.answer = "refused" /\ req' = [req EXCEPT ![r] = new]
    BY <1>2, <2>1 DEF Done
  <2>3. QED
    BY <1>1, <2>2, Stops
<1>3. CASE req' = [req EXCEPT ![r] = Reads(req[r])]
  <2>1. PICK new : new = Reads(req[r])
    OBVIOUS
  <2>2. new.stage = "reread" /\ req' = [req EXCEPT ![r] = new]
    BY <1>3, <2>1 DEF Reads
  <2>3. QED
    BY <1>1, <2>2, GoesOn
<1>4. QED
  BY <1>2, <1>3 DEF CommitLoses, Lost, Fail, Ends

LEMMA ReplayRefines ==
    ASSUME Inv, NEW r \in Requests, Reread(r) \/ Recheck(r)
    PROVE  [Log!Next]_Log!vars
<1>1. CASE Reread(r)
  <2>1. req[r] \in Invocation /\ RequestOK(r, req[r]) /\ req[r].stage = "reread"
    BY <1>1, RequestTypes DEF Reread
  <2>2. req[r] \in [stage : {"context", "reread"}, body : ValidBodies, row : Ids, mode : Modes,
                    open : BOOLEAN]
    BY <2>1 DEF Invocation, Idle, Refused
  <2>3. decisions[req[r].row] # NoRow
    BY <2>1 DEF RequestOK, Carries
  <2>4. QED
    BY <1>1, <2>1, <2>2, <2>3, FindsRefine DEF Reread
<1>2. CASE Recheck(r)
  <2>1. /\ req[r].stage = "recheck" /\ req[r].row \in Rows /\ RequestOK(r, req[r])
        /\ decisions' = decisions
    BY <1>2, RequestTypes, Stages DEF Recheck, Unchanged
  <2>2. PICK d : d = decisions[req[r].row]
    OBVIOUS
  <2>3. d # NoRow /\ d.fingerprint = Prints[req[r].body]
    BY <2>1, <2>2 DEF RequestOK, Carries, SameFingerprint
  <2>4. PICK answer : /\ answer = IF ScopeQuarantined(d.agent, d.session) THEN "block" ELSE d.decision
                      /\ req' = [req EXCEPT ![r] = Done(req[r], answer)]
    BY <1>2, <2>2 DEF Recheck, Ends
  <2>5. PICK new : new = Done(req[r], answer)
    OBVIOUS
  <2>6. /\ new.stage = "done" /\ new.answer = answer /\ new.row = req[r].row
        /\ new.body = req[r].body /\ req' = [req EXCEPT ![r] = new]
    BY <2>4, <2>5 DEF Done
  <2>7. answer \in {"allow", "review"} => answer = d.decision
    BY <2>4
  <2>8. QED
    BY <2>1, <2>2, <2>3, <2>6, <2>7, TellsOnly
<1>3. QED
  BY <1>1, <1>2

LEMMA AroundRefines ==
    ASSUME Inv, \/ ChangeMode \/ RevokeKey \/ ChangePolicies \/ SetAgentStatus \/ EndSession
                \/ QuarantineSubject \/ ClearSubject \/ UNCHANGED vars
    PROVE  [Log!Next]_Log!vars
<1>1. decisions' = decisions
  BY DEF ChangeMode, RevokeKey, ChangePolicies, SetAgentStatus, EndSession, QuarantineSubject,
         ClearSubject, vars
<1>2. CASE req' = req
  <2>1. \A s \in Requests : Said(req[s])' = Said(req[s])
    BY <1>2 DEF Said
  <2>2. QED
    BY <1>1, <2>1, Silent
<1>3. CASE ChangeMode \/ ClearSubject
  <2>1. \E o, states : Witness(o, states)
    BY <1>3 DEF ChangeMode, ClearSubject
  <2>2. PICK o, states : Witness(o, states)
    BY <2>1
  <2>3. ASSUME NEW s \in Requests
        PROVE  Said(req[s])' = Said(req[s])
    <3>1. CASE ~InFlight(s)
      BY <2>2, <3>1 DEF Witness, Said
    <3>2. CASE InFlight(s)
      <4>1. PICK q \in Invocation : q = req[s]
        BY RequestTypes
      <4>2. req'[s] = [q EXCEPT !.open = q.open \/ OpenUnder(o, states, q.body)]
        BY <2>2, <3>2, <4>1 DEF Witness
      <4>3. req'[s].stage = q.stage /\ q.stage # "done"
        BY <3>2, <4>1, <4>2 DEF InFlight, Invocation, Idle, Refused
      <4>4. QED
        BY <4>1, <4>3 DEF Said
    <3>3. QED
      BY <3>1, <3>2
  <2>4. QED
    BY <1>1, <2>3, Silent
<1>4. QED
  BY <1>2, <1>3 DEF RevokeKey, ChangePolicies, SetAgentStatus, EndSession, QuarantineSubject, vars

LEMMA NextRefines == Inv /\ [Next]_vars => [Log!Next]_Log!vars
<1> SUFFICES ASSUME Inv, [Next]_vars PROVE [Log!Next]_Log!vars
  OBVIOUS
<1>1. CASE \E r \in Requests :
              \/ Receive(r) \/ LoadContext(r) \/ SkipContext(r)
              \/ Commit(r) \/ CommitLoses(r) \/ CommitFails(r) \/ CommitCore(r)
              \/ Reread(r) \/ Recheck(r) \/ Fail(r)
  BY <1>1, ReceiveRefines, PlanRefines, CommitRefines, CommitFailsRefines, LoseRefines,
     ReplayRefines
<1>2. CASE \/ ChangeMode \/ RevokeKey \/ ChangePolicies \/ SetAgentStatus \/ EndSession
           \/ QuarantineSubject \/ ClearSubject \/ UNCHANGED vars
  BY <1>2, AroundRefines
<1>3. QED
  BY <1>1, <1>2 DEF Next, AllDone

\* The gateway implements the abstract log: one decision per request_id, which never changes,
\* and clients told to go on only with what it says, whatever fails or races. (evaluate.ts:140, 366)
THEOREM LogIsImplemented == Spec => ImplementsDecisionLog
<1>1. Spec => Log!Spec
  BY Invariance, InitRefines, NextRefines, PTL DEF Spec, Log!Spec
<1>2. QED
  BY <1>1 DEF ImplementsDecisionLog
=============================================================================
