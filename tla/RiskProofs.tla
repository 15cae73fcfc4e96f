----------------------------- MODULE RiskProofs -----------------------------
(***************************************************************************)
(* Proofs about RiskEngine, for any number of invocations, whatever the      *)
(* requests are like and whatever the scores add up to: every state has its *)
(* transition, a quarantine is lifted by a clearance only, the verdict and   *)
(* the quarantine of an evaluation in enforce mode go together, and what a    *)
(* lost update left uncounted is made up for.                               *)
(*                                                                         *)
(* What the proofs rest on is the version of a row: an update that finds the *)
(* version it read finds the state it read.                                 *)
(***************************************************************************)
EXTENDS RiskEngine, WellFoundedInduction, FiniteSetTheorems, TLAPS

----------------------------------------------------------------------------
(* The plan of a request *)

LEMMA SubjectFacts ==
    /\ Subjects = {Agent, Session, Key}
    /\ Agent # Session /\ Agent # Key /\ Session # Key
    /\ None \notin Subjects
BY RiskAssumption DEF Subjects

\* The rows of the subjects have a state and a version.
Rows == \A x \in Subjects : subject[x].state \in States /\ subject[x].version \in Nat

LEMMA DirectSubjects ==
    ASSUME NEW f \in Facts \cup Reports
    PROVE  Direct(f) \subseteq Subjects /\ Key \in Direct(f)
BY RiskAssumption DEF Direct, Subjects

\* An assessment changes a state only for a cause, and contains only a subject that is not a key.
LEMMA Assessed ==
    ASSUME Rows, NEW m, NEW x \in Subjects, NEW mine
    PROVE  LET a == AssessSubject(m, x, mine) IN
           /\ a.state \in States
           /\ a.cause = "none" <=> a.state = subject[x].state
           /\ a.state = "cleared" => subject[x].state = "cleared"
           /\ Contained(a.state) /\ ~Contained(subject[x].state) => a.state = "quarantined" /\ x # Key
           /\ Contained(subject[x].state) => a.state = subject[x].state
<1> DEFINE current == subject[x].state
           score == Score(x, mine)
           hard == \E s \in mine : SignalRules[s.code].hard
<1>1. PICK would : would = WouldBe(x, score, hard)
  OBVIOUS
<1>2. PICK next : next = Reached(m, current, would)
  OBVIOUS
<1>3. current \in States
  BY DEF Rows
<1>4. /\ would \in {"normal", "elevated", "review_required", "quarantined"}
      /\ would = "quarantined" => x # Key
  BY <1>1 DEF WouldBe, StateForScore, Quarantinable
<1>5. /\ next \in {"normal", "elevated", "review_required", "quarantined", "cleared"}
      /\ next = "cleared" => current = "cleared"
      /\ next = "quarantined" => x # Key
  BY <1>2, <1>4 DEF Reached
<1>6. Cause(current, next, hard) = "none" <=> next = current
  BY DEF Cause
<1>7. CASE Contained(current)
  <2>1. AssessSubject(m, x, mine).state = current /\ AssessSubject(m, x, mine).cause = "none"
    BY <1>7 DEF AssessSubject
  <2>2. QED
    BY <1>3, <1>7, <2>1 DEF Contained
<1>8. CASE ~Contained(current)
  <2>1. /\ AssessSubject(m, x, mine).state = next
        /\ AssessSubject(m, x, mine).cause = Cause(current, next, hard)
    BY <1>1, <1>2, <1>8 DEF AssessSubject
  <2>2. QED
    BY <1>3, <1>5, <1>6, <1>8, <2>1 DEF Contained, States
<1>9. QED
  BY <1>7, <1>8

\* What holds of the assessments before, and after, one subject has been chosen.
Judged(direct, a) ==
    /\ DOMAIN a = direct
    /\ \A x \in direct :
        /\ a[x].state \in States
        /\ a[x].cause = "none" <=> a[x].state = subject[x].state
        /\ a[x].state = "cleared" => subject[x].state = "cleared"

\* A plan that was made from the rows as they are.
Fresh(direct, m, plan) ==
    /\ DOMAIN plan.score = direct
    /\ plan.target \in (direct \cup {None}) \ {Key}
    /\ DOMAIN plan.write \subseteq direct \ {plan.target}
    /\ \A x \in DOMAIN plan.write : LET w == plan.write[x] IN
        /\ w.version = subject[x].version
        /\ w.state \in States
        /\ w.cause = "none" <=> w.state = subject[x].state
        /\ w.state = "cleared" => subject[x].state = "cleared"
    /\ m = "enforce" =>
        (plan.verdict = "block" <=> (\E x \in direct : Contained(subject[x].state)) \/ plan.target # None)

\* The verdict is to block exactly if one of the states is contained.
LEMMA VerdictBlocks ==
    ASSUME NEW direct, direct # {}, NEW a, DOMAIN a = direct, \A x \in direct : a[x].state \in States
    PROVE  Verdict("enforce", a) = "block" <=> \E x \in direct : Contained(a[x].state)
<1>1. PICK after : after = {a[x].state : x \in direct}
  OBVIOUS
<1>2. after = {IF "enforce" = "monitor" THEN b.would ELSE b.state : b \in Range(a)}
  BY <1>1 DEF Range
<1>3. after # {} /\ after \subseteq States
  BY <1>1
<1>4. \A s \in States : Severity(s) \in 0..3 /\ (Severity(s) = 3 <=> Contained(s))
  BY DEF States, Severity, Contained
<1>5. \E s \in after : \A t \in after : Severity(t) <= Severity(s)
  <2>1. CASE \E s \in after : Severity(s) = 3
    BY <1>3, <1>4, <2>1
  <2>2. CASE (\A s \in after : Severity(s) < 3) /\ \E s \in after : Severity(s) = 2
    BY <1>3, <1>4, <2>2
  <2>3. CASE (\A s \in after : Severity(s) < 2) /\ \E s \in after : Severity(s) = 1
    BY <1>3, <1>4, <2>3
  <2>4. CASE \A s \in after : Severity(s) < 1
    BY <1>3, <1>4, <2>4
  <2>5. QED
    BY <1>3, <1>4, <2>1, <2>2, <2>3, <2>4
<1>6. PICK worst : worst = CHOOSE s \in after : \A t \in after : Severity(t) <= Severity(s)
  OBVIOUS
<1>7. worst \in after /\ \A t \in after : Severity(t) <= Severity(worst)
  BY <1>5, <1>6
<1>8. Contained(worst) <=> \E s \in after : Contained(s)
  BY <1>3, <1>4, <1>7
<1>9. VerdictForState(worst) = "block" <=> Contained(worst)
  BY DEF VerdictForState
<1>10. Verdict("enforce", a) = VerdictForState(worst)
  BY <1>2, <1>6 DEF Verdict
<1>11. QED
  BY <1>1, <1>8, <1>9, <1>10

\* One of those that could be is quarantined.
LEMMA Chosen ==
    ASSUME Rows, NEW direct, direct \subseteq Subjects, Key \in direct, NEW m, NEW new, NEW first,
           Judged(direct, first),
           \A x \in direct :
              /\ Contained(first[x].state) /\ ~Contained(subject[x].state) =>
                    first[x].state = "quarantined" /\ x # Key
              /\ Contained(subject[x].state) => first[x].state = subject[x].state
    PROVE  Fresh(direct, m, Choose(m, new, first))
<1>1. PICK candidates : candidates = IF m = "enforce" THEN Candidates(first) ELSE {}
  OBVIOUS
<1>2. PICK target : target = Target(candidates)
  OBVIOUS
<1>3. PICK a : a = [x \in DOMAIN first |-> IF x \in candidates \ {target}
                                         THEN Outranked(x, first[x]) ELSE first[x]]
  OBVIOUS
<1>4. Choose(m, new, first) = PlanFor(m, new, a, target)
  BY <1>1, <1>2, <1>3 DEF Choose
<1>5. candidates \subseteq {Agent, Session} /\ candidates \subseteq direct
  BY <1>1, SubjectFacts DEF Candidates, Judged
<1>6. IF candidates = {} THEN target = None ELSE target \in candidates
  BY <1>2, <1>5 DEF Target
<1>7. /\ DOMAIN a = direct
      /\ \A x \in direct : a[x] = IF x \in candidates \ {target} THEN Outranked(x, first[x])
                                 ELSE first[x]
  BY <1>3 DEF Judged
<1>8. Judged(direct, a)
  <2>1. ASSUME NEW x \in direct, x \in candidates \ {target}
        PROVE  /\ a[x].state = "review_required"
               /\ a[x].cause = "none" <=> a[x].state = subject[x].state
    BY <1>7, <2>1 DEF Outranked
  <2>2. "review_required" \in States
    BY DEF States
  <2>3. QED
    BY <1>7, <2>1, <2>2 DEF Judged
<1>9. ASSUME m = "enforce"
      PROVE  (\E x \in direct : Contained(a[x].state))
                <=> (\E x \in direct : Contained(subject[x].state)) \/ target # None
  <2>1. ASSUME NEW x \in direct, Contained(a[x].state), ~Contained(subject[x].state)
        PROVE  target # None
    <3>1. x \notin candidates \ {target}
      BY <1>7, <2>1 DEF Outranked, Contained
    <3>2. first[x].state = "quarantined" /\ x # Key
      BY <1>7, <2>1, <3>1
    <3>3. first[x].cause # "none"
      BY <2>1, <3>2 DEF Judged, Contained
    <3>4. x \in candidates
      BY <1>1, <1>9, <3>2, <3>3 DEF Candidates, Judged
    <3>5. QED
      BY <1>6, <3>1, <3>4, SubjectFacts
  <2>2. ASSUME NEW x \in direct, Contained(subject[x].state)
        PROVE  Contained(a[x].state)
    <3>1. first[x].state = subject[x].state /\ first[x].cause = "none"
      BY <2>2 DEF Judged
    <3>2. x \notin candidates
      BY <1>1, <3>1 DEF Candidates
    <3>3. QED
      BY <1>7, <2>2, <3>1, <3>2
  <2>3. ASSUME target # None
        PROVE  \E x \in direct : Contained(a[x].state)
    <3>1. target \in candidates /\ target \in direct
      BY <1>5, <1>6, <2>3
    <3>2. a[target].state = "quarantined"
      BY <1>1, <1>7, <1>9, <3>1 DEF Candidates
    <3>3. QED
      BY <3>1, <3>2 DEF Contained
  <2>4. QED
    BY <2>1, <2>2, <2>3
<1>10. PICK plan : plan = PlanFor(m, new, a, target)
  OBVIOUS
<1>11. /\ plan.target = target /\ plan.verdict = Verdict(m, a) /\ plan.write = Writes(a, target, new)
       /\ plan.score = [x \in DOMAIN a |-> a[x].score]
  BY <1>10 DEF PlanFor
<1>12. target \in (direct \cup {None}) \ {Key}
  BY <1>5, <1>6, SubjectFacts
<1>13. /\ DOMAIN plan.write \subseteq direct \ {target}
       /\ \A x \in DOMAIN plan.write :
             /\ plan.write[x].version = subject[x].version
             /\ plan.write[x].state = a[x].state /\ plan.write[x].cause = a[x].cause
  BY <1>7, <1>11 DEF Writes
<1>14. m = "enforce" => (plan.verdict = "block" <=> \E x \in direct : Contained(a[x].state))
  BY <1>7, <1>8, <1>11, VerdictBlocks DEF Judged
<1>15. Fresh(direct, m, plan)
  BY <1>7, <1>8, <1>9, <1>11, <1>12, <1>13, <1>14 DEF Fresh, Judged
<1>16. QED
  BY <1>4, <1>10, <1>15

LEMMA PlanIsFresh ==
    ASSUME Rows, NEW m, NEW f \in Facts \cup Reports, NEW detected
    PROVE  Fresh(Direct(f), m, Plan(m, Direct(f), detected))
<1>1. PICK direct : direct = Direct(f)
  OBVIOUS
<1>2. PICK new : new = DedupeSignals(detected, UNION {CountingSignals(x) : x \in direct})
  OBVIOUS
<1>3. PICK first : first = [x \in direct |-> AssessSubject(m, x, {s \in new : s.subject = x})]
  OBVIOUS
<1>4. Plan(m, direct, detected) = Choose(m, new, first)
  BY <1>2, <1>3 DEF Plan, PlanWith
<1>5. direct \subseteq Subjects /\ Key \in direct
  BY <1>1, DirectSubjects
<1>6. ASSUME NEW x \in direct
      PROVE  /\ first[x].state \in States
             /\ first[x].cause = "none" <=> first[x].state = subject[x].state
             /\ first[x].state = "cleared" => subject[x].state = "cleared"
             /\ Contained(first[x].state) /\ ~Contained(subject[x].state) =>
                   first[x].state = "quarantined" /\ x # Key
             /\ Contained(subject[x].state) => first[x].state = subject[x].state
  <2>1. first[x] = AssessSubject(m, x, {s \in new : s.subject = x}) /\ x \in Subjects
    BY <1>3, <1>5
  <2>2. QED
    BY <2>1, Assessed
<1>7. Judged(direct, first)
  BY <1>3, <1>6 DEF Judged
<1>8. Fresh(direct, m, Choose(m, new, first))
  BY <1>5, <1>6, <1>7, Chosen
<1>9. QED
  BY <1>1, <1>4, <1>8

----------------------------------------------------------------------------
(* The inductive invariant *)

\* What the plan of an invocation says of the rows it has not lost to another writer.
Waits(q) ==
    /\ DOMAIN q = {"stage", "mode", "at", "plan", "alone", "lifted"}
    /\ DOMAIN q.plan.score \subseteq Subjects
    /\ q.plan.target \in (Subjects \cup {None}) \ {Key}
    /\ DOMAIN q.plan.write \subseteq Subjects \ {q.plan.target}
    /\ \A x \in DOMAIN q.plan.write : LET w == q.plan.write[x] IN
        /\ w.version \in Nat /\ w.version <= subject[x].version
        /\ w.state \in States
        /\ w.version = subject[x].version =>
              /\ w.cause = "none" <=> w.state = subject[x].state
              /\ w.state = "cleared" => subject[x].state = "cleared"
        /\ x \in q.lifted => w.version # subject[x].version

Verdicts(q) ==
    q.mode = "enforce" /\ q.alone =>
        (q.plan.verdict = "block" <=> \/ \E x \in DOMAIN q.plan.score : Contained(subject[x].state)
                                     \/ q.plan.target # None)

RequestOK(q) == q.stage = "commit" => Waits(q) /\ Verdicts(q)

Inv ==
    /\ DOMAIN subject = Subjects /\ DOMAIN last = Subjects /\ DOMAIN req = Requests
    /\ changes \in Nat
    /\ Rows
    /\ \A x \in Subjects : last[x].to = subject[x].state
    /\ \A r \in Requests : RequestOK(req[r])

LEMMA InitInv == Init => Inv
<1> SUFFICES ASSUME Init PROVE Inv
  OBVIOUS
<1>1. Rows
  BY DEF Init, Rows, States
<1>2. \A r \in Requests : RequestOK(req[r])
  BY DEF Init, RequestOK, Idle
<1>3. QED
  BY <1>1, <1>2 DEF Init, Inv

\* A request has been read, and its plan made.
LEMMA PlanInv ==
    ASSUME Inv, NEW r \in Requests, Assess(r) \/ Report(r)
    PROVE  Inv'
<1>1. UNCHANGED <<subject, last, changes>>
  BY DEF Assess, Report
<1>2. PICK f \in Facts \cup Reports : \E detected :
        req' = [req EXCEPT ![r] = Planned(mode, Plan(mode, Direct(f), detected))]
  BY DEF Assess, Report
<1>3. PICK detected : req' = [req EXCEPT ![r] = Planned(mode, Plan(mode, Direct(f), detected))]
  BY <1>2
<1>4. PICK plan : plan = Plan(mode, Direct(f), detected)
  OBVIOUS
<1>5. Fresh(Direct(f), mode, plan)
  BY <1>4, PlanIsFresh DEF Inv
<1>6. PICK new : new = Planned(mode, plan)
  OBVIOUS
<1>7. /\ new.stage = "commit" /\ new.mode = mode /\ new.plan = plan /\ new.lifted = {}
      /\ DOMAIN new = {"stage", "mode", "at", "plan", "alone", "lifted"}
  BY <1>6 DEF Planned
<1>8. Waits(new)
  BY <1>5, <1>7, DirectSubjects DEF Waits, Fresh, Inv, Rows
<1>9. Verdicts(new)
  BY <1>5, <1>7 DEF Verdicts, Fresh
<1>10. \A s \in Requests : req'[s] = IF s = r THEN new ELSE req[s]
  BY <1>3, <1>4, <1>6 DEF Inv
<1>11. \A s \in Requests : RequestOK(req[s])'
  BY <1>1, <1>8, <1>9, <1>10 DEF Inv, RequestOK, Waits, Verdicts
<1>12. QED
  BY <1>1, <1>3, <1>11 DEF Inv, Rows

\* What another write, which cleared these subjects, makes of an invocation.
IsOvertaken(before, after, cleared) ==
    /\ before.stage # "commit" => after = before
    /\ before.stage = "commit" =>
          /\ after.stage = "commit" /\ after.plan = before.plan /\ after.at = before.at
          /\ after.alone = FALSE /\ after.lifted = before.lifted \cup cleared
          /\ DOMAIN after = {"stage", "mode", "at", "plan", "alone", "lifted"}

LEMMA NotAlone ==
    ASSUME Inv, NEW cleared, NEW overtaken, overtaken = Overtaken(cleared)
    PROVE  /\ DOMAIN overtaken = Requests
           /\ \A s \in Requests : IsOvertaken(req[s], overtaken[s], cleared)
<1>1. DOMAIN overtaken = Requests
  BY DEF Overtaken
<1>2. ASSUME NEW s \in Requests
      PROVE  IsOvertaken(req[s], overtaken[s], cleared)
  <2>1. PICK before, after : before = req[s] /\ after = overtaken[s]
    OBVIOUS
  <2>2. after = IF before.stage = "commit"
                THEN [before EXCEPT !.alone = FALSE, !.lifted = before.lifted \cup cleared] ELSE before
    BY <2>1 DEF Overtaken
  <2>3. before.stage = "commit" => DOMAIN before = {"stage", "mode", "at", "plan", "alone", "lifted"}
    BY <2>1 DEF Inv, RequestOK, Waits
  <2>4. IsOvertaken(before, after, cleared)
    BY <2>2, <2>3 DEF IsOvertaken
  <2>5. QED
    BY <2>1, <2>4
<1>3. QED
  BY <1>1, <1>2

\* Rows change, and get a new version with it.
LEMMA RewriteInv ==
    ASSUME Inv, DOMAIN subject' = Subjects, DOMAIN last' = Subjects,
           \A x \in Subjects : subject'[x].state \in States,
           \A x \in Subjects : subject'[x] = subject[x] \/ subject'[x].version = subject[x].version + 1,
           \A x \in Subjects : last'[x].to = subject'[x].state, changes' \in Nat,
           NEW cleared \in SUBSET Subjects, \A x \in cleared : subject'[x].version = subject[x].version + 1,
           DOMAIN req' = Requests, \A s \in Requests : IsOvertaken(req[s], req'[s], cleared) \/ req'[s] = Done
    PROVE  Inv'
<1>1. Rows'
  BY DEF Inv, Rows
<1>2. ASSUME NEW s \in Requests
      PROVE  RequestOK(req[s])'
  <2>1. CASE req'[s] = Done \/ req[s].stage # "commit"
    <3>1. req'[s] = Done \/ req'[s] = req[s]
      BY <2>1 DEF IsOvertaken
    <3>2. Done.stage = "done"
      BY DEF Done
    <3>3. req'[s].stage # "commit"
      BY <2>1, <3>1, <3>2
    <3>4. QED
      BY <3>3 DEF RequestOK
  <2>2. CASE IsOvertaken(req[s], req'[s], cleared) /\ req[s].stage = "commit"
    <3>1. PICK q : q = req'[s]
      OBVIOUS
    <3>2. /\ q.stage = "commit" /\ q.plan = req[s].plan
          /\ q.alone = FALSE /\ q.lifted = req[s].lifted \cup cleared
          /\ DOMAIN q = {"stage", "mode", "at", "plan", "alone", "lifted"}
      BY <2>2, <3>1 DEF IsOvertaken
    <3>3. Waits(req[s])
      BY <2>2 DEF Inv, RequestOK
    <3>4. ASSUME NEW x \in DOMAIN q.plan.write
          PROVE  LET w == q.plan.write[x] IN
                 /\ w.version \in Nat /\ w.version <= subject'[x].version
                 /\ w.version = subject'[x].version => subject'[x] = subject[x]
                 /\ x \in q.lifted => w.version # subject'[x].version
      <4>1. /\ x \in Subjects /\ q.plan.write[x].version \in Nat
            /\ q.plan.write[x].version <= subject[x].version
            /\ x \in q.lifted => x \in cleared \/ q.plan.write[x].version # subject[x].version
        BY <3>2, <3>3 DEF Waits
      <4>2. subject[x].version \in Nat
        BY <4>1 DEF Inv, Rows
      <4>3. QED
        BY <4>1, <4>2
    <3>5. Waits(q)'
      BY <3>2, <3>3, <3>4 DEF Waits
    <3>6. Verdicts(q)'
      BY <3>2 DEF Verdicts
    <3>7. QED
      BY <3>1, <3>5, <3>6 DEF RequestOK
  <2>3. QED
    BY <2>1, <2>2
<1>3. QED
  BY <1>1, <1>2 DEF Inv

\* What a batch makes of a row and of its latest transition.
LEMMA Batch ==
    ASSUME Inv, NEW r \in Requests, Commit(r), NEW x \in Subjects
    PROVE  /\ subject'[x] = subject[x] \/ subject'[x].version = subject[x].version + 1
           /\ subject'[x].state \in States
           /\ last'[x].to = subject'[x].state
           /\ subject'[x] # subject[x] => ~Contained(subject[x].state)
           /\ subject'[x].state = "cleared" => subject[x].state = "cleared"
<1> DEFINE q == req[r]
           w == q.plan.write[x]
           mine == x \in DOMAIN q.plan.write /\ Writable(subject[x], w)
           target == x = q.plan.target /\ Quarantines(x)
<1>1. q.stage = "commit" /\ Waits(q)
  BY DEF Commit, Inv, RequestOK
<1>2. /\ subject' = Written(q) /\ last' = Transitions(q)
      /\ last[x].to = subject[x].state /\ subject[x].state \in States
  BY DEF Commit, Inv, Rows
<1>3. CASE mine
  <2>1. w.version = subject[x].version /\ ~Contained(subject[x].state)
    BY <1>3 DEF Writable
  <2>2. /\ w.state \in States
        /\ w.cause = "none" <=> w.state = subject[x].state
        /\ w.state = "cleared" => subject[x].state = "cleared"
    BY <1>1, <1>3, <2>1 DEF Waits
  <2>3. subject'[x].state = w.state /\ subject'[x].version = subject[x].version + 1
    BY <1>2, <1>3 DEF Written
  <2>4. x # q.plan.target
    BY <1>1, <1>3 DEF Waits
  <2>5. last'[x].to = IF w.cause # "none" THEN w.state ELSE last[x].to
    BY <1>2, <1>3, <2>4 DEF Transitions, Changed
  <2> HIDE DEF w
  <2>6. w.cause = "none" => last'[x].to = subject[x].state
    BY <1>2, <2>5
  <2>7. last'[x].to = subject'[x].state
    BY <2>2, <2>3, <2>5, <2>6
  <2>8. /\ subject'[x].state \in States
        /\ subject'[x].state = "cleared" => subject[x].state = "cleared"
    BY <2>2, <2>3
  <2>9. QED
    BY <2>1, <2>3, <2>7, <2>8
<1>4. CASE ~mine /\ target
  <2>1. subject'[x].state = "quarantined" /\ subject'[x].version = subject[x].version + 1
    BY <1>2, <1>4 DEF Written
  <2>2. last'[x].to = "quarantined"
    BY <1>2, <1>4 DEF Transitions, Changed
  <2>3. QED
    BY <1>4, <2>1, <2>2 DEF Quarantines, States
<1>5. CASE ~mine /\ ~target
  <2>1. subject'[x] = subject[x] /\ last'[x] = last[x]
    BY <1>2, <1>5 DEF Written, Transitions, Changed
  <2>2. QED
    BY <1>2, <2>1
<1>6. QED
  BY <1>3, <1>4, <1>5

LEMMA CommitInv ==
    ASSUME Inv, NEW r \in Requests, Commit(r)
    PROVE  Inv'
<1>1. DOMAIN subject' = Subjects /\ DOMAIN last' = Subjects /\ changes' \in Nat
  BY DEF Commit, Written, Transitions, Inv
<1>2. req' = [Overtaken({}) EXCEPT ![r] = Done]
  BY DEF Commit
<1>3. PICK cleared : cleared = {}
  OBVIOUS
<1>4. PICK overtaken : overtaken = Overtaken(cleared)
  OBVIOUS
<1>5. DOMAIN req' = Requests /\ \A s \in Requests : IsOvertaken(req[s], req'[s], cleared) \/ req'[s] = Done
  BY <1>2, <1>3, <1>4, NotAlone
<1>6. QED
  BY <1>1, <1>3, <1>5, Batch, RewriteInv

\* What a member's action makes of the rows.
LEMMA MemberActs ==
    ASSUME Inv, ManualQuarantine \/ CompleteContainment \/ Clear
    PROVE  \E x, row, cause :
              /\ x \in {Agent, Session} /\ Move(x, row, cause) /\ changes' = changes + 1
              /\ row.version = subject[x].version + 1
              /\ \/ row.state \in {"quarantined", "contained"}
                 \/ row.state = "cleared" /\ row.since = now /\ Contained(subject[x].state)
<1>1. CASE ManualQuarantine
  <2>1. PICK x \in {Agent, Session} : Move(x, Into(x, "quarantined"), "manual_quarantine")
    BY <1>1 DEF ManualQuarantine
  <2>2. PICK row : row = Into(x, "quarantined")
    OBVIOUS
  <2>3. row.version = subject[x].version + 1 /\ row.state = "quarantined"
    BY <2>2 DEF Into
  <2>4. QED
    BY <1>1, <2>1, <2>2, <2>3 DEF ManualQuarantine, Changes
<1>2. CASE CompleteContainment
  <2>1. PICK x \in {Agent, Session} : Move(x, Into(x, "contained"), "containment_completed")
    BY <1>2 DEF CompleteContainment
  <2>2. PICK row : row = Into(x, "contained")
    OBVIOUS
  <2>3. row.version = subject[x].version + 1 /\ row.state = "contained"
    BY <2>2 DEF Into
  <2>4. QED
    BY <1>2, <2>1, <2>2, <2>3 DEF CompleteContainment, Changes
<1>3. CASE Clear
  <2>1. PICK x \in {Agent, Session} : /\ Contained(subject[x].state)
                                     /\ Move(x, ClearedRow(x), "clearance")
    BY <1>3 DEF Clear
  <2>2. PICK row : row = ClearedRow(x)
    OBVIOUS
  <2>3. row.version = subject[x].version + 1 /\ row.state = "cleared" /\ row.since = now
    BY <2>2 DEF ClearedRow
  <2>4. QED
    BY <1>3, <2>1, <2>2, <2>3 DEF Clear, Changes
<1>4. QED
  BY <1>1, <1>2, <1>3

LEMMA MemberInv ==
    ASSUME Inv, ManualQuarantine \/ CompleteContainment \/ Clear
    PROVE  Inv'
<1>1. PICK x, row, cause :
        /\ x \in {Agent, Session} /\ Move(x, row, cause) /\ changes' = changes + 1
        /\ row.version = subject[x].version + 1 /\ row.state \in States
  BY MemberActs DEF States
<1>2. x \in Subjects
  BY <1>1, SubjectFacts
<1>3. \A y \in Subjects : /\ subject'[y] = IF y = x THEN row ELSE subject[y]
                         /\ last'[y] = IF y = x THEN [to |-> row.state, cause |-> cause] ELSE last[y]
  BY <1>1 DEF Move, Inv
<1>4. DOMAIN subject' = Subjects /\ DOMAIN last' = Subjects /\ changes' \in Nat
  BY <1>1 DEF Move, Inv
<1>5. PICK cleared \in SUBSET Subjects : cleared = IF row.state = "cleared" THEN {x} ELSE {}
  BY <1>2
<1>6. DOMAIN req' = Requests /\ \A s \in Requests : IsOvertaken(req[s], req'[s], cleared)
  <2>1. req' = Overtaken(cleared)
    BY <1>1, <1>5 DEF Move
  <2>2. QED
    BY <2>1, NotAlone
<1>7. \A y \in cleared : subject'[y].version = subject[y].version + 1
  BY <1>1, <1>2, <1>3, <1>5
<1>8. ASSUME NEW y \in Subjects
      PROVE  /\ subject'[y].state \in States /\ last'[y].to = subject'[y].state
             /\ subject'[y] = subject[y] \/ subject'[y].version = subject[y].version + 1
  BY <1>1, <1>3 DEF Inv, Rows
<1>9. QED
  BY <1>4, <1>6, <1>7, <1>8, RewriteInv

LEMMA OtherInv ==
    ASSUME Inv, \/ \E r \in Requests : Fail(r)
                \/ ChangeMode \/ Tick \/ UNCHANGED vars
    PROVE  Inv'
<1>1. UNCHANGED <<subject, last>> /\ changes' \in Nat
  BY DEF Fail, ChangeMode, Changes, Tick, vars, Inv
<1>2. DOMAIN req' = Requests /\ \A s \in Requests : req'[s] = req[s] \/ req'[s] = Done
  BY DEF Fail, ChangeMode, Tick, vars, Inv
<1>3. \A s \in Requests : RequestOK(req[s])'
  BY <1>1, <1>2 DEF Inv, RequestOK, Waits, Verdicts, Done
<1>4. QED
  BY <1>1, <1>2, <1>3 DEF Inv, Rows

LEMMA NextInv == Inv /\ [Next]_vars => Inv'
BY PlanInv, CommitInv, MemberInv, OtherInv DEF Next, AllDone

LEMMA Invariance == Spec => []Inv
BY InitInv, NextInv, PTL DEF Spec

----------------------------------------------------------------------------
(* The theorems *)

\* The latest transition of a subject leads to the state it is in: every update that took effect
\* has one, and none that lost to another handler. (store.ts:231, 252)
THEOREM HistoryExplainsStates == Spec => []EveryChangeIsRecorded
<1>1. Inv => EveryChangeIsRecorded
  BY DEF Inv, EveryChangeIsRecorded
<1>2. QED
  BY <1>1, Invariance, PTL

\* In enforce mode an evaluation that nobody interfered with blocks exactly if its scope was
\* contained or its own batch quarantines the agent or the session. (gateway.ts:255, 483)
THEOREM BlocksAndQuarantinesTogether == Spec => []BlocksWhatItQuarantines
<1>1. Inv => BlocksWhatItQuarantines
  BY DEF Inv, RequestOK, Verdicts, BlocksWhatItQuarantines
<1>2. QED
  BY <1>1, Invariance, PTL

\* An invocation that is done now, and changed something, has committed its batch.
LEMMA OnlyCommits ==
    ASSUME Inv, Next, NEW r \in Requests, req[r].stage = "commit", req'[r] = Done,
           <<subject, signals>>' # <<subject, signals>>
    PROVE  Commit(r)
<1>1. \A cleared : ~IsOvertaken(req[r], Done, cleared)
  BY DEF IsOvertaken, Done
<1>2. ASSUME ManualQuarantine \/ CompleteContainment \/ Clear
      PROVE  FALSE
  <2>1. PICK cleared : req' = Overtaken(cleared)
    BY <1>2 DEF ManualQuarantine, CompleteContainment, Clear, Move
  <2>2. IsOvertaken(req[r], req'[r], cleared)
    BY <2>1, NotAlone
  <2>3. QED
    BY <1>1, <2>2
<1>3. ASSUME NEW s \in Requests, s # r, Commit(s)
      PROVE  FALSE
  <2>1. PICK cleared, overtaken : overtaken = Overtaken(cleared) /\ req' = [overtaken EXCEPT ![s] = Done]
    BY <1>3 DEF Commit
  <2>2. IsOvertaken(req[r], req'[r], cleared)
    BY <1>3, <2>1, NotAlone
  <2>3. QED
    BY <1>1, <2>2
<1>4. QED
  BY <1>2, <1>3 DEF Next, Assess, Report, Fail, ChangeMode, Tick, AllDone, vars

LEMMA StepIsSticky ==
    ASSUME Inv, Next, NEW x \in Subjects
    PROVE  LET held == Contained(subject[x].state)
               moved == subject'[x] # subject[x]
           IN  /\ held /\ moved => \/ Contained(subject'[x].state) /\ changes' # changes
                                   \/ subject'[x].state = "cleared" /\ subject'[x].since = now
               /\ subject'[x].state = "cleared" /\ moved => held \/ subject[x].state = "cleared"
               /\ \A r \in Requests :
                     req[r].stage = "commit" /\ req'[r] = Done /\ moved /\ x \in req[r].lifted
                        => x = req[r].plan.target /\ subject'[x].state = "quarantined"
<1>1. CASE subject' = subject
  BY <1>1
<1>2. ASSUME NEW r \in Requests, Commit(r)
      PROVE  /\ subject'[x] # subject[x] => ~Contained(subject[x].state)
             /\ subject'[x].state = "cleared" => subject[x].state = "cleared"
  BY <1>2, Batch
<1>3. ASSUME ManualQuarantine \/ CompleteContainment \/ Clear
      PROVE  /\ Contained(subject[x].state) /\ subject'[x] # subject[x] =>
                    \/ Contained(subject'[x].state) /\ changes' # changes
                    \/ subject'[x].state = "cleared" /\ subject'[x].since = now
             /\ subject'[x].state = "cleared" /\ subject'[x] # subject[x] =>
                    Contained(subject[x].state) \/ subject[x].state = "cleared"
  <2>1. PICK y, row, cause :
          /\ y \in {Agent, Session} /\ Move(y, row, cause) /\ changes' = changes + 1
          /\ \/ row.state \in {"quarantined", "contained"}
             \/ row.state = "cleared" /\ row.since = now /\ Contained(subject[y].state)
    BY <1>3, MemberActs
  <2>2. subject'[x] = IF x = y THEN row ELSE subject[x]
    BY <2>1 DEF Move, Inv
  <2>3. changes' # changes
    BY <2>1 DEF Inv
  <2>4. QED
    BY <2>1, <2>2, <2>3 DEF Contained
<1>4. ASSUME NEW r \in Requests, req[r].stage = "commit", req'[r] = Done,
             subject'[x] # subject[x], x \in req[r].lifted
      PROVE  x = req[r].plan.target /\ subject'[x].state = "quarantined"
  <2>1. Commit(r)
    BY <1>4, OnlyCommits
  <2>2. x \in DOMAIN req[r].plan.write => ~Writable(subject[x], req[r].plan.write[x])
    BY <1>4 DEF Inv, RequestOK, Waits, Writable
  <2>3. subject' = Written(req[r])
    BY <2>1 DEF Commit
  <2>4. QED
    BY <1>4, <2>2, <2>3 DEF Written
<1>5. QED
  BY <1>1, <1>2, <1>3, <1>4 DEF Next, Assess, Report, Fail, ChangeMode, Tick, AllDone, vars

\* Only a clearance lifts a quarantine: no handler that read the row before the quarantine writes
\* over it; one that read it before the clearance does not write over what the clearance left, but
\* for a new quarantine, which looks at no version. (store.ts:231, containment.ts:46)
THEOREM OnlyClearanceLiftsQuarantine == Spec => QuarantineIsSticky
<1>1. Inv /\ [Next]_vars =>
        [\A x \in Subjects :
            LET held == Contained(subject[x].state)
                moved == subject'[x] # subject[x]
            IN  /\ held /\ moved => \/ Contained(subject'[x].state) /\ changes' # changes
                                    \/ subject'[x].state = "cleared" /\ subject'[x].since = now
                /\ subject'[x].state = "cleared" /\ moved => held \/ subject[x].state = "cleared"
                /\ \A r \in Requests :
                      req[r].stage = "commit" /\ req'[r] = Done /\ moved /\ x \in req[r].lifted
                         => x = req[r].plan.target /\ subject'[x].state = "quarantined"]_vars
  BY StepIsSticky
<1>2. QED
  BY <1>1, Invariance, PTL DEF Spec, QuarantineIsSticky

----------------------------------------------------------------------------
(* Sums of points. A sum over a finite set is a recursive function on its    *)
(* subsets; that it exists, and that it is the same for every set it is       *)
(* taken from, is shown on a smallest set where it would fail.               *)

LEMMA LeastNumber ==
    ASSUME NEW N \in SUBSET Nat, N # {}
    PROVE  \E n \in N : \A m \in N : n <= m
<1>1. PICK R : R = OpToRel(<, Nat)
  OBVIOUS
<1>2. \A a, b \in Nat : <<a, b>> \in R <=> a < b
  BY <1>1 DEF OpToRel
<1>3. IsWellFoundedOn(R, Nat)
  BY <1>1, NatLessThanWellFounded
<1>4. PICK n \in N : \A m \in N : ~(<<m, n>> \in R)
  BY <1>3, WFMin
<1>5. ASSUME NEW m \in N
      PROVE  n <= m
  <2>1. ~(<<m, n>> \in R) /\ m \in Nat /\ n \in Nat
    BY <1>4
  <2>2. ~(m < n)
    BY <1>2, <2>1
  <2>3. QED
    BY <2>1, <2>2
<1>6. QED
  BY <1>5

\* Among subsets of a finite set there is one with none of the others inside it.
LEMMA MinimalSubset ==
    ASSUME NEW S, IsFiniteSet(S), NEW C \in SUBSET SUBSET S, C # {}
    PROVE  \E T \in C : IsFiniteSet(T) /\ \A U \in C : U \subseteq T => U = T
<1> DEFINE N == {n \in Nat : \E T \in C : Cardinality(T) = n}
<1>1. \A T \in C : IsFiniteSet(T) /\ Cardinality(T) \in Nat
  BY FS_Subset, FS_CardinalityType
<1>2. N # {}
  BY <1>1
<1>3. PICK n \in N : \A m \in N : n <= m
  BY <1>2, LeastNumber
<1>4. PICK T \in C : Cardinality(T) = n
  BY <1>3
<1>5. ASSUME NEW U \in C, U \subseteq T
      PROVE  U = T
  <2>1. Cardinality(U) \in N
    BY <1>1
  <2>2. n <= Cardinality(U) /\ Cardinality(U) <= Cardinality(T)
    BY <1>1, <1>3, <1>5, <2>1, FS_Subset
  <2>3. Cardinality(T) = Cardinality(U)
    BY <1>1, <1>4, <2>2
  <2>4. QED
    BY <1>1, <1>5, <2>3, FS_Subset
<1>6. QED
  BY <1>1, <1>5

PointsOf(s) == SignalRules[s.code].points
Any(T) == CHOOSE s \in T : TRUE
Turn(g, T) == IF T = {} THEN 0 ELSE PointsOf(Any(T)) + g[T \ {Any(T)}]
Sums(S) == CHOOSE g : g = [T \in SUBSET S |-> Turn(g, T)]

LEMMA PointsAreSums == ASSUME NEW S PROVE Points(S) = Sums(S)[S]
BY DEF Points, MapThenSumSet, MapThenFoldSet, Sums, Turn, PointsOf, Any

LEMMA AnyIsIn == ASSUME NEW T, T # {} PROVE Any(T) \in T
BY DEF Any

\* g is right on subsets of S with fewer than k elements.
RightFor(S, g, k) ==
    /\ g = [T \in SUBSET S |-> g[T]]
    /\ \A T \in SUBSET S : Cardinality(T) < k => g[T] = Turn(g, T)

LEMMA SumsExist ==
    ASSUME NEW S, IsFiniteSet(S)
    PROVE  Sums(S) = [T \in SUBSET S |-> Turn(Sums(S), T)]
<1> DEFINE N == {k \in Nat : ~\E g : RightFor(S, g, k)}
           bound == Cardinality(S) + 1
<1>1. \A T \in SUBSET S : IsFiniteSet(T) /\ Cardinality(T) \in Nat /\ Cardinality(T) <= Cardinality(S)
  BY FS_Subset, FS_CardinalityType
<1>2. N = {}
  <2>1. SUFFICES ASSUME N # {} PROVE FALSE
    OBVIOUS
  <2>2. PICK k \in N : \A j \in N : k <= j
    BY <2>1, LeastNumber
  <2>3. k # 0
    <3>1. PICK g : g = [T \in SUBSET S |-> 0]
      OBVIOUS
    <3>2. \A T \in SUBSET S : ~(Cardinality(T) < 0)
      BY <1>1
    <3>3. RightFor(S, g, 0)
      BY <3>1, <3>2 DEF RightFor
    <3>4. QED
      BY <3>3
  <2>4. k - 1 \in Nat /\ k - 1 \notin N
    BY <2>2, <2>3
  <2>5. PICK g : RightFor(S, g, k - 1)
    BY <2>4
  <2>6. PICK h : h = [T \in SUBSET S |-> Turn(g, T)]
    OBVIOUS
  <2>7. ASSUME NEW T \in SUBSET S, Cardinality(T) < k
        PROVE  h[T] = Turn(h, T)
    <3>1. CASE T = {}
      BY <2>6, <3>1 DEF Turn
    <3>2. CASE T # {}
      <4>1. PICK rest : rest = T \ {Any(T)}
        OBVIOUS
      <4>2. rest \in SUBSET S /\ Cardinality(rest) = Cardinality(T) - 1
        BY <1>1, <3>2, <4>1, AnyIsIn, FS_RemoveElement
      <4>3. Cardinality(rest) < k - 1
        BY <1>1, <2>7, <4>2
      <4>4. g[rest] = Turn(g, rest)
        BY <2>5, <4>2, <4>3 DEF RightFor
      <4>5. h[rest] = g[rest]
        BY <2>6, <4>2, <4>4
      <4>6. \A f : Turn(f, T) = PointsOf(Any(T)) + f[rest]
        BY <3>2, <4>1 DEF Turn
      <4>7. QED
        BY <2>6, <4>5, <4>6
    <3>3. QED
      BY <3>1, <3>2
  <2>8. RightFor(S, h, k)
    BY <2>6, <2>7 DEF RightFor
  <2>9. QED
    BY <2>8
<1>3. bound \in Nat
  BY <1>1
<1>4. PICK g : RightFor(S, g, bound)
  BY <1>2, <1>3
<1>5. ASSUME NEW T \in SUBSET S
      PROVE  g[T] = Turn(g, T)
  <2>1. Cardinality(T) < bound
    BY <1>1
  <2> HIDE DEF bound
  <2>2. QED
    BY <1>4, <2>1 DEF RightFor
<1>6. g = [T \in SUBSET S |-> Turn(g, T)]
  BY <1>4, <1>5 DEF RightFor
<1>7. QED
  BY <1>6 DEF Sums

\* The sum over a subset does not depend on the set whose sums are taken.
LEMMA SumsAgree ==
    ASSUME NEW S, IsFiniteSet(S), NEW T \in SUBSET S
    PROVE  Sums(S)[T] = Points(T)
<1> DEFINE C == {U \in SUBSET T : Sums(S)[U] # Sums(T)[U]}
<1>1. IsFiniteSet(T)
  BY FS_Subset
<1>2. PICK f, g : f = Sums(S) /\ g = Sums(T)
  OBVIOUS
<1>3. \A U \in SUBSET T : f[U] = Turn(f, U) /\ g[U] = Turn(g, U)
  <2>1. f = [U \in SUBSET S |-> Turn(f, U)] /\ g = [U \in SUBSET T |-> Turn(g, U)]
    BY <1>1, <1>2, SumsExist
  <2>2. QED
    BY <2>1
<1>4. C = {}
  <2>1. SUFFICES ASSUME C # {} PROVE FALSE
    OBVIOUS
  <2>2. PICK U \in C : \A V \in C : V \subseteq U => V = U
    <3>1. IsFiniteSet(T) /\ C \in SUBSET SUBSET T
      BY <1>1
    <3> HIDE DEF C
    <3>2. QED
      BY <2>1, <3>1, MinimalSubset
  <2>3. U # {}
    BY <1>2, <1>3, <2>2 DEF Turn
  <2>4. PICK rest : rest = U \ {Any(U)}
    OBVIOUS
  <2>5. rest \in SUBSET T /\ rest \subseteq U /\ rest # U
    BY <2>2, <2>3, <2>4, AnyIsIn
  <2>6. f[rest] = g[rest]
    BY <1>2, <2>2, <2>5
  <2>7. Turn(f, U) = Turn(g, U)
    BY <2>3, <2>4, <2>6 DEF Turn
  <2>8. f[U] = g[U]
    BY <1>3, <2>2, <2>7
  <2>9. QED
    BY <1>2, <2>2, <2>8
<1>5. Sums(S)[T] = Sums(T)[T]
  BY <1>4
<1>6. QED
  BY <1>5, PointsAreSums

LEMMA PointsUnfold ==
    ASSUME NEW S, IsFiniteSet(S), S # {}
    PROVE  Points(S) = PointsOf(Any(S)) + Points(S \ {Any(S)})
<1>1. Sums(S)[S] = Turn(Sums(S), S)
  BY SumsExist
<1>2. Turn(Sums(S), S) = PointsOf(Any(S)) + Sums(S)[S \ {Any(S)}]
  BY DEF Turn
<1>3. Sums(S)[S \ {Any(S)}] = Points(S \ {Any(S)})
  BY SumsAgree
<1>4. QED
  BY <1>1, <1>2, <1>3, PointsAreSums

LEMMA NoPoints == Points({}) = 0
<1>1. Sums({})[{}] = Turn(Sums({}), {})
  BY SumsExist, FS_EmptySet
<1>2. QED
  BY <1>1, PointsAreSums DEF Turn

\* Finitely many signals under a rule of the table.
Ruled(S) == IsFiniteSet(S) /\ \A s \in S : s.code \in Codes

LEMMA RulePoints ==
    ASSUME NEW s, s.code \in Codes
    PROVE  PointsOf(s) \in Nat
BY DEF PointsOf, Codes, SignalRules, Behavioral, Hard

LEMMA RuledSubset ==
    ASSUME NEW S, Ruled(S), NEW T \in SUBSET S
    PROVE  Ruled(T)
BY FS_Subset DEF Ruled

LEMMA PointsAreNatural ==
    ASSUME NEW S, Ruled(S)
    PROVE  Points(S) \in Nat
<1> DEFINE C == {T \in SUBSET S : Points(T) \notin Nat}
<1>1. SUFFICES ASSUME C # {} PROVE FALSE
  OBVIOUS
<1>2. PICK T \in C : IsFiniteSet(T) /\ \A U \in C : U \subseteq T => U = T
  <2>1. IsFiniteSet(S) /\ C \in SUBSET SUBSET S
    BY DEF Ruled
  <2> HIDE DEF C
  <2>2. QED
    BY <1>1, <2>1, MinimalSubset
<1>3. T # {}
  <2>1. Points(T) \notin Nat
    BY <1>2
  <2> HIDE DEF C
  <2>2. QED
    BY <2>1, NoPoints
<1>4. Any(T) \in T
  BY <1>3, AnyIsIn
<1>5. T \ {Any(T)} \notin C
  BY <1>2, <1>4
<1>6. Points(T \ {Any(T)}) \in Nat
  BY <1>2, <1>5
<1>7. PointsOf(Any(T)) \in Nat
  BY <1>2, <1>4, RulePoints DEF Ruled
<1>8. QED
  BY <1>2, <1>3, <1>6, <1>7, PointsUnfold

\* A signal counts its points, whichever it is.
LEMMA PointsWithout ==
    ASSUME NEW S, Ruled(S), NEW s \in S
    PROVE  Points(S) = PointsOf(s) + Points(S \ {s})
<1> DEFINE C == {T \in SUBSET S : \E x \in T : Points(T) # PointsOf(x) + Points(T \ {x})}
<1>1. SUFFICES ASSUME C # {} PROVE FALSE
  OBVIOUS
<1>2. PICK T \in C : IsFiniteSet(T) /\ \A U \in C : U \subseteq T => U = T
  <2>1. IsFiniteSet(S) /\ C \in SUBSET SUBSET S
    BY DEF Ruled
  <2> HIDE DEF C
  <2>2. QED
    BY <1>1, <2>1, MinimalSubset
<1>3. PICK x \in T : Points(T) # PointsOf(x) + Points(T \ {x})
  BY <1>2
<1>4. PICK a : a = Any(T)
  OBVIOUS
<1>5. a \in T /\ Points(T) = PointsOf(a) + Points(T \ {a})
  BY <1>3, <1>2, <1>4, AnyIsIn, PointsUnfold
<1>6. a # x
  BY <1>3, <1>5
<1>7. PICK both : both = T \ {a, x}
  OBVIOUS
<1>8. Points(T \ {a}) = PointsOf(x) + Points(both)
  <2>1. T \ {a} \notin C /\ T \ {a} \in SUBSET S /\ x \in T \ {a}
    BY <1>2, <1>3, <1>5, <1>6
  <2>2. (T \ {a}) \ {x} = both
    BY <1>7
  <2>3. QED
    BY <2>1, <2>2
<1>9. Points(T \ {x}) = PointsOf(a) + Points(both)
  <2>1. T \ {x} \notin C /\ T \ {x} \in SUBSET S /\ a \in T \ {x}
    BY <1>2, <1>3, <1>5, <1>6
  <2>2. (T \ {x}) \ {a} = both
    BY <1>7
  <2>3. QED
    BY <2>1, <2>2
<1>10. PointsOf(a) \in Nat /\ PointsOf(x) \in Nat /\ Points(both) \in Nat
  <2>1. a.code \in Codes /\ x.code \in Codes
    BY <1>2, <1>3, <1>5 DEF Ruled
  <2>2. Ruled(both)
    BY <1>2, <1>7, RuledSubset
  <2>3. QED
    BY <2>1, <2>2, RulePoints, PointsAreNatural
<1>11. QED
  BY <1>3, <1>5, <1>8, <1>9, <1>10

LEMMA PointsWithMore ==
    ASSUME NEW S, Ruled(S), NEW T \in SUBSET S
    PROVE  Points(T) <= Points(S)
<1> DEFINE C == {U \in SUBSET S : ~\A V \in SUBSET U : Points(V) <= Points(U)}
<1>1. SUFFICES ASSUME C # {} PROVE FALSE
  OBVIOUS
<1>2. PICK U \in C : IsFiniteSet(U) /\ \A V \in C : V \subseteq U => V = U
  <2>1. IsFiniteSet(S) /\ C \in SUBSET SUBSET S
    BY DEF Ruled
  <2> HIDE DEF C
  <2>2. QED
    BY <1>1, <2>1, MinimalSubset
<1>3. PICK V \in SUBSET U : ~(Points(V) <= Points(U))
  BY <1>2
<1>4. Points(U) \in Nat /\ Points(V) \in Nat
  BY <1>2, <1>3, RuledSubset, PointsAreNatural
<1>5. PICK x \in U : x \notin V
  BY <1>3, <1>4
<1>6. PICK rest : rest = U \ {x}
  OBVIOUS
<1>7. rest \in SUBSET S /\ rest \notin C /\ V \in SUBSET rest
  BY <1>2, <1>3, <1>5, <1>6
<1>8. Points(V) <= Points(rest) /\ Points(rest) \in Nat
  BY <1>7, RuledSubset, PointsAreNatural
<1>9. Points(U) = PointsOf(x) + Points(rest) /\ PointsOf(x) \in Nat
  <2>1. Ruled(U) /\ x.code \in Codes
    BY <1>2, <1>5, RuledSubset DEF Ruled
  <2>2. QED
    BY <1>5, <1>6, <2>1, PointsWithout, RulePoints
<1>10. QED
  BY <1>3, <1>4, <1>8, <1>9

\* Together, signals count no more than apart.
LEMMA PointsTogether ==
    ASSUME NEW S, Ruled(S), NEW T, Ruled(T)
    PROVE  Points(S \cup T) <= Points(S) + Points(T) /\ Ruled(S \cup T)
<1> DEFINE C == {U \in SUBSET S : ~(Points(U \cup T) <= Points(U) + Points(T))}
<1>1. \A U \in SUBSET S : Ruled(U) /\ Ruled(U \cup T)
  BY RuledSubset, FS_Union DEF Ruled
<1>2. \A U \in SUBSET S : Points(U) \in Nat /\ Points(U \cup T) \in Nat
  BY <1>1, PointsAreNatural
<1>3. Points(T) \in Nat
  BY PointsAreNatural
<1>4. SUFFICES ASSUME C # {} PROVE FALSE
  BY <1>1
<1>5. PICK U \in C : IsFiniteSet(U) /\ \A V \in C : V \subseteq U => V = U
  <2>1. IsFiniteSet(S) /\ C \in SUBSET SUBSET S
    BY DEF Ruled
  <2> HIDE DEF C
  <2>2. QED
    BY <1>4, <2>1, MinimalSubset
<1>6. U # {}
  <2>1. ~(Points(U \cup T) <= Points(U) + Points(T))
    BY <1>5
  <2> HIDE DEF C
  <2>2. SUFFICES ASSUME U = {} PROVE FALSE
    OBVIOUS
  <2>3. U \cup T = T
    BY <2>2
  <2>4. ~(Points(T) <= Points(U) + Points(T)) /\ Points(U) = 0
    BY <2>1, <2>2, <2>3, NoPoints
  <2>5. QED
    BY <1>3, <2>4
<1>7. PICK x \in U : TRUE
  BY <1>6
<1>8. PICK rest : rest = U \ {x}
  OBVIOUS
<1>9. rest \in SUBSET S /\ rest \notin C
  BY <1>5, <1>7, <1>8
<1>10. Points(rest \cup T) <= Points(rest) + Points(T)
  BY <1>9
<1>11. Points(U) = PointsOf(x) + Points(rest) /\ PointsOf(x) \in Nat
  <2>1. Ruled(U) /\ x.code \in Codes
    BY <1>1, <1>5, <1>7 DEF Ruled
  <2>2. QED
    BY <1>7, <1>8, <2>1, PointsWithout, RulePoints
<1>12. Points(U \cup T) <= PointsOf(x) + Points(rest \cup T)
  <2>1. CASE x \in T
    <3>1. U \cup T = rest \cup T
      BY <1>7, <1>8, <2>1
    <3>2. QED
      BY <1>2, <1>9, <1>11, <3>1
  <2>2. CASE x \notin T
    <3>1. (U \cup T) \ {x} = rest \cup T /\ x \in U \cup T
      BY <1>7, <1>8, <2>2
    <3>2. Points(U \cup T) = PointsOf(x) + Points(rest \cup T)
      BY <1>1, <1>5, <3>1, PointsWithout
    <3>3. QED
      BY <1>2, <1>5, <3>2
  <2>3. QED
    BY <2>1, <2>2
<1>13. QED
  BY <1>2, <1>3, <1>5, <1>9, <1>10, <1>11, <1>12

\* What a plan inserts counts no more than the signals it is made from.
Recorded(S, at, by) == {[subject |-> s.subject, code |-> s.code, key |-> s.key, at |-> at, by |-> by] : s \in S}

LEMMA PointsRecorded ==
    ASSUME NEW S, Ruled(S), NEW at, NEW by
    PROVE  Ruled(Recorded(S, at, by)) /\ Points(Recorded(S, at, by)) <= Points(S)
<1> DEFINE record(s) == [subject |-> s.subject, code |-> s.code, key |-> s.key, at |-> at, by |-> by]
           C == {U \in SUBSET S : ~(Points(Recorded(U, at, by)) <= Points(U))}
<1>1. \A U \in SUBSET S : Ruled(U)
  BY RuledSubset
<1>2. \A U : Recorded(U, at, by) = {record(s) : s \in U}
  BY DEF Recorded
<1>3. ASSUME NEW U \in SUBSET S
      PROVE  Ruled(Recorded(U, at, by))
  <2>1. IsFiniteSet(U) /\ \A s \in U : record(s).code \in Codes
    BY <1>1 DEF Ruled
  <2> HIDE DEF record
  <2>2. PICK made : made = {record(s) : s \in U}
    OBVIOUS
  <2>3. PICK f : f = [s \in U |-> record(s)]
    OBVIOUS
  <2>4. f \in Surjection(U, made)
    BY <2>2, <2>3 DEF Surjection
  <2>5. IsFiniteSet(made)
    BY <2>1, <2>4, FS_Surjection
  <2>6. \A t \in made : t.code \in Codes
    BY <2>1, <2>2
  <2>7. Recorded(U, at, by) = made
    BY <1>2, <2>2
  <2>8. QED
    BY <2>5, <2>6, <2>7 DEF Ruled
<1>4. \A U \in SUBSET S : Points(U) \in Nat /\ Points(Recorded(U, at, by)) \in Nat
  BY <1>1, <1>3, PointsAreNatural
<1>5. SUFFICES ASSUME C # {} PROVE FALSE
  BY <1>3
<1>6. PICK U \in C : IsFiniteSet(U) /\ \A V \in C : V \subseteq U => V = U
  <2>1. IsFiniteSet(S) /\ C \in SUBSET SUBSET S
    BY DEF Ruled
  <2> HIDE DEF C
  <2>2. QED
    BY <1>5, <2>1, MinimalSubset
<1>7. U # {}
  <2>1. ~(Points(Recorded(U, at, by)) <= Points(U))
    BY <1>6
  <2>2. U = {} => Recorded(U, at, by) = {}
    BY DEF Recorded
  <2> HIDE DEF C
  <2>3. QED
    BY <2>1, <2>2, NoPoints
<1>8. PICK x \in U : TRUE
  BY <1>7
<1>9. PICK rest, one : rest = U \ {x} /\ one = {record(x)}
  OBVIOUS
<1>10. rest \in SUBSET S /\ rest \notin C
  BY <1>6, <1>8, <1>9
<1>11. Points(Recorded(rest, at, by)) <= Points(rest)
  BY <1>10
<1>12. Points(U) = PointsOf(x) + Points(rest) /\ PointsOf(x) \in Nat /\ x.code \in Codes
  <2>1. Ruled(U) /\ x.code \in Codes
    BY <1>1, <1>6, <1>8 DEF Ruled
  <2>2. QED
    BY <1>8, <1>9, <2>1, PointsWithout, RulePoints
<1>13. Ruled(one) /\ Points(one) = PointsOf(x)
  <2>1. IsFiniteSet(one) /\ record(x) \in one /\ one \ {record(x)} = {} /\ record(x).code = x.code
    BY <1>9, FS_Singleton
  <2>2. PointsOf(record(x)) = PointsOf(x)
    BY <2>1 DEF PointsOf
  <2>3. Ruled(one)
    BY <1>9, <1>12, <2>1 DEF Ruled
  <2>4. Points(one) = PointsOf(record(x)) + Points({})
    BY <2>1, <2>3, PointsWithout
  <2>5. QED
    BY <1>12, <2>2, <2>3, <2>4, NoPoints
<1>14. Recorded(U, at, by) = Recorded(rest, at, by) \cup one
  BY <1>2, <1>8, <1>9
<1>15. Points(Recorded(U, at, by)) <= Points(Recorded(rest, at, by)) + Points(one)
  BY <1>3, <1>10, <1>13, <1>14, PointsTogether
<1>16. QED
  BY <1>4, <1>6, <1>10, <1>11, <1>12, <1>13, <1>15

----------------------------------------------------------------------------
(* What is detected: finitely many signals, under rules of the table *)

LEMMA FiniteSetOfThree == ASSUME NEW a, NEW b, NEW c PROVE IsFiniteSet({a, b, c})
<1>1. {a, b, c} = ({a} \cup {b}) \cup {c}
  OBVIOUS
<1>2. IsFiniteSet({a}) /\ IsFiniteSet({b}) /\ IsFiniteSet({c})
  BY FS_Singleton
<1>3. IsFiniteSet({a} \cup {b})
  BY <1>2, FS_Union
<1>4. QED
  BY <1>1, <1>2, <1>3, FS_Union

LEMMA RuledUnion ==
    ASSUME NEW S, NEW T, Ruled(S), Ruled(T)
    PROVE  Ruled(S \cup T)
BY FS_Union DEF Ruled

LEMMA RuledWhen ==
    ASSUME NEW condition, NEW S, Ruled(S)
    PROVE  Ruled(When(condition, S))
BY FS_EmptySet DEF When, Ruled

LEMMA RuledOne ==
    ASSUME NEW x, NEW code \in Codes, NEW key
    PROVE  Ruled({New(x, code, key)})
<1>1. PICK s : s = New(x, code, key)
  OBVIOUS
<1>2. s.code \in Codes
  BY <1>1 DEF New
<1>3. QED
  BY <1>1, <1>2, FS_Singleton DEF Ruled

\* The same signal, about three subjects at most.
About(X, code, key) == {New(x, code, key) : x \in X}

LEMMA RuledAbout ==
    ASSUME NEW a, NEW b, NEW c, NEW X, X \subseteq {a, b, c}, NEW code \in Codes, NEW key
    PROVE  Ruled(About(X, code, key))
<1>1. PICK all : all = {New(a, code, key), New(b, code, key), New(c, code, key)}
  OBVIOUS
<1>2. About(X, code, key) \in SUBSET all
  BY <1>1 DEF About
<1>3. IsFiniteSet(About(X, code, key))
  BY <1>1, <1>2, FiniteSetOfThree, FS_Subset
<1>4. \A x : New(x, code, key).code = code
  BY DEF New
<1>5. \A s \in About(X, code, key) : s.code \in Codes
  BY <1>4 DEF About
<1>6. QED
  BY <1>3, <1>5 DEF Ruled

LEMMA RuledFour ==
    ASSUME NEW A, NEW B, NEW C, NEW D, Ruled(A), Ruled(B), Ruled(C), Ruled(D)
    PROVE  Ruled(A \cup B \cup C \cup D)
<1>1. Ruled(A \cup B)
  BY RuledUnion
<1>2. Ruled(A \cup B \cup C)
  BY <1>1, RuledUnion
<1>3. QED
  BY <1>2, RuledUnion

LEMMA KnownCodes ==
    {"AGENT_DISABLED_ATTEMPT", "UNKNOWN_AGENT_PROBING", "REPEATED_BLOCK", "USE_AFTER_EXPIRY_OR_REVOCATION",
     "UNEXPECTED_MCP_TOOL", "CAPABILITY_ESCALATION", "UNUSUAL_DESTINATION", "HIGH_VELOCITY",
     "SENSITIVE_DATA_ESCALATION", "CHILD_SESSION_FANOUT", "SESSION_OR_PARENT_INVALID",
     "CONTINUATION_AFTER_QUARANTINE", "CROSS_TENANT_REFERENCE", "EXECUTED_WITHOUT_AUTHORIZATION"} = Codes
BY DEF Codes, SignalRules

LEMMA DetectedAreRuled ==
    ASSUME NEW f, NEW held
    PROVE  Ruled(Detect(f, held))
<1>1. PICK X : X = {f.agent, f.session} \ {None}
  OBVIOUS
<1>2. \A code \in Codes : \A key : Ruled(About(X, code, key))
  <2>1. X \subseteq {f.agent, f.session, f.session}
    BY <1>1
  <2>2. QED
    BY <2>1, RuledAbout
<1>3. PICK known : known = (f.agent # None /\ f.gate = "none")
  OBVIOUS
<1>4. PICK claimed : claimed = IF f.correlation = "cross_tenant" THEN "CROSS_TENANT_REFERENCE"
                               ELSE "SESSION_OR_PARENT_INVALID"
  OBVIOUS
<1>5. claimed \in Codes
  BY <1>4, KnownCodes
<1>6. PICK who : who = IF f.agent # None THEN f.agent ELSE Key
  OBVIOUS
<1>7. PICK c1, c2, c3, c4 :
        /\ c1 = When(f.correlation # "none", {New(who, claimed, "claimed")})
        /\ c2 = When(f.gate = "AGENT_DISABLED" /\ f.agent # None,
                     {New(f.agent, "AGENT_DISABLED_ATTEMPT", "disabled")})
        /\ c3 = When(f.gate = "AGENT_UNKNOWN" /\ f.unknown >= 3,
                     {New(Key, "UNKNOWN_AGENT_PROBING", "probing")})
        /\ c4 = When(held, About(X, "CONTINUATION_AFTER_QUARANTINE", "action"))
  OBVIOUS
<1>8. PICK d1, d2, d3, d4 :
        /\ d1 = When(f.blocks >= 3, About(X, "REPEATED_BLOCK", "3"))
        /\ d2 = When(f.blocks >= 10, About(X, "REPEATED_BLOCK", "10"))
        /\ d3 = When(known /\ f.newTool, About(X, "UNEXPECTED_MCP_TOOL", "tool"))
        /\ d4 = When(known /\ f.newOperation, About(X, "CAPABILITY_ESCALATION", "action"))
  OBVIOUS
<1>9. PICK e1, e2, e3, e4 :
        /\ e1 = When(known /\ f.newDestination, About(X, "UNUSUAL_DESTINATION", "destination"))
        /\ e2 = When(f.session # None /\ f.requests > 60,
                     {New(f.session, "HIGH_VELOCITY", "requests")})
        /\ e3 = When(f.session # None /\ f.resources > 25,
                     {New(f.session, "HIGH_VELOCITY", "resources")})
        /\ e4 = When(f.session # None /\ f.dataRank >= 2 /\ f.dataRank > f.dataRankBefore,
                     About(X, "SENSITIVE_DATA_ESCALATION", "data"))
  OBVIOUS
<1>10. Ruled(c1) /\ Ruled(c2) /\ Ruled(c3) /\ Ruled(c4)
  BY <1>2, <1>5, <1>7, KnownCodes, RuledOne, RuledWhen
<1>11. Ruled(d1) /\ Ruled(d2) /\ Ruled(d3) /\ Ruled(d4)
  BY <1>2, <1>8, KnownCodes, RuledWhen
<1>12. Ruled(e1) /\ Ruled(e2) /\ Ruled(e3) /\ Ruled(e4)
  BY <1>2, <1>9, KnownCodes, RuledOne, RuledWhen
<1>13. Detect(f, held) = c1 \cup c2 \cup c3 \cup c4 \cup d1 \cup d2 \cup d3 \cup d4
                         \cup e1 \cup e2 \cup e3 \cup e4
  BY <1>1, <1>3, <1>4, <1>6, <1>7, <1>8, <1>9 DEF Detect, About
<1>14. PICK C, D, E : /\ C = c1 \cup c2 \cup c3 \cup c4 /\ D = d1 \cup d2 \cup d3 \cup d4
                      /\ E = e1 \cup e2 \cup e3 \cup e4
  OBVIOUS
<1>15. Ruled(C) /\ Ruled(D) /\ Ruled(E)
  BY <1>10, <1>11, <1>12, <1>14, RuledFour
<1>16. Detect(f, held) = (C \cup D) \cup E
  BY <1>13, <1>14
<1>17. Ruled(C \cup D)
  BY <1>15, RuledUnion
<1>18. QED
  BY <1>15, <1>16, <1>17, RuledUnion

\* A report raises at most one rule's signal.
LEMMA RaisedOne ==
    ASSUME NEW f \in Reports
    PROVE  \E code \in Codes : RaisedBy(f) \subseteq {code}
<1>1. CASE f.about = "elsewhere"
  BY <1>1, KnownCodes DEF RaisedBy
<1>2. CASE f.about = "execution"
  <2>1. RaisedBy(f) \subseteq {"EXECUTED_WITHOUT_AUTHORIZATION"}
    BY <1>2 DEF RaisedBy, ExecutionSignal
  <2>2. QED
    BY <2>1, KnownCodes
<1>3. CASE f.about = "lease"
  <2>1. RaisedBy(f) = LeaseSignal(f.refusal)
    BY <1>3 DEF RaisedBy
  <2>2. \/ LeaseSignal(f.refusal) \subseteq {"USE_AFTER_EXPIRY_OR_REVOCATION"}
        \/ LeaseSignal(f.refusal) \subseteq {"CONTINUATION_AFTER_QUARANTINE"}
    BY DEF LeaseSignal
  <2>3. QED
    BY <2>1, <2>2, KnownCodes
<1>4. CASE f.about = "approval"
  <2>1. RaisedBy(f) = ConsumeSignal(f.refusal)
    BY <1>4 DEF RaisedBy
  <2>2. \/ ConsumeSignal(f.refusal) \subseteq {"USE_AFTER_EXPIRY_OR_REVOCATION"}
        \/ ConsumeSignal(f.refusal) \subseteq {"CONTINUATION_AFTER_QUARANTINE"}
    BY DEF ConsumeSignal
  <2>3. QED
    BY <2>1, <2>2, KnownCodes
<1>5. CASE f.about = "session"
  <2>1. RaisedBy(f) = OpenSignal(f.refusal)
    BY <1>5 DEF RaisedBy
  <2>2. f.refusal \in {"parent_unknown", "quarantined", "opened_too_many"}
    BY <1>5, RiskAssumption
  <2>3. \/ OpenSignal(f.refusal) \subseteq {"SESSION_OR_PARENT_INVALID"}
        \/ OpenSignal(f.refusal) \subseteq {"CONTINUATION_AFTER_QUARANTINE"}
        \/ OpenSignal(f.refusal) \subseteq {"CHILD_SESSION_FANOUT"}
    BY <2>2 DEF OpenSignal
  <2>4. QED
    BY <2>1, <2>3, KnownCodes
<1>6. QED
  BY <1>1, <1>2, <1>3, <1>4, <1>5, RiskAssumption

LEMMA ReportedAreRuled ==
    ASSUME NEW f \in Reports
    PROVE  Ruled(Reported(f))
<1>1. PICK code \in Codes : RaisedBy(f) \subseteq {code}
  BY RaisedOne
<1>2. PICK X : X = IF Direct(f) = {Key} THEN {Key} ELSE Direct(f) \ {Key}
  OBVIOUS
<1>3. X \subseteq {Key, f.agent, f.session}
  BY <1>2 DEF Direct
<1>4. Reported(f) = {New(x, c, f.key) : x \in X, c \in RaisedBy(f)}
  BY <1>2 DEF Reported
<1>5. Reported(f) \in SUBSET About(X, code, f.key)
  BY <1>1, <1>4 DEF About
<1>6. Ruled(About(X, code, f.key))
  BY <1>3, RuledAbout
<1>7. QED
  BY <1>5, <1>6, RuledSubset

----------------------------------------------------------------------------
(* What a plan does about the scores *)

\* The state that a score calls for; an API key, and monitor mode, stop at a review.
Capped(x, m, score) ==
    LET state == StateForScore(score)
    IN  IF state = "quarantined" /\ (x = Key \/ m = "monitor") THEN "review_required" ELSE state

LEMMA Severities ==
    /\ Severity("normal") = 0 /\ Severity("cleared") = 0 /\ Severity("elevated") = 1
    /\ Severity("review_required") = 2 /\ Severity("quarantined") = 3 /\ Severity("contained") = 3
BY DEF Severity, Contained

LEMMA CappedStates ==
    ASSUME NEW x, NEW m, NEW score
    PROVE  Capped(x, m, score) \in {"normal", "elevated", "review_required", "quarantined"}
BY DEF Capped, StateForScore

LEMMA MostSevere ==
    ASSUME NEW x, NEW m, NEW score, NEW state, Contained(state)
    PROVE  Severity(state) >= Severity(Capped(x, m, score))
<1>1. state \in {"quarantined", "contained"}
  BY DEF Contained
<1>2. QED
  BY <1>1, CappedStates, Severities

LEMMA CappedGrows ==
    ASSUME NEW x, NEW m, NEW a \in Nat, NEW b \in Nat, a <= b
    PROVE  Severity(Capped(x, m, a)) <= Severity(Capped(x, m, b))
<1>1. PICK s, t : s = StateForScore(a) /\ t = StateForScore(b)
  OBVIOUS
<1>2. \/ t = "quarantined" /\ s \in {"quarantined", "review_required", "elevated", "normal"}
      \/ t = "review_required" /\ s \in {"review_required", "elevated", "normal"}
      \/ t = "elevated" /\ s \in {"elevated", "normal"}
      \/ t = "normal" /\ s = "normal"
  BY <1>1 DEF StateForScore
<1>3. \/ Capped(x, m, a) = s /\ Capped(x, m, b) = t
      \/ Capped(x, m, b) = "review_required" /\ Capped(x, m, a) \in {"review_required", "elevated", "normal"}
  BY <1>1, <1>2 DEF Capped
<1>4. QED
  BY <1>2, <1>3, Severities

\* An assessment calls for no less than the score.
LEMMA AssessedEnough ==
    ASSUME Rows, NEW m \in {"monitor", "enforce"}, NEW x \in Subjects, NEW mine
    PROVE  LET a == AssessSubject(m, x, mine) IN
           /\ a.score = Score(x, mine)
           /\ ~Contained(subject[x].state) => Severity(a.state) >= Severity(Capped(x, m, a.score))
           /\ Contained(subject[x].state) => a.cause = "none"
<1> DEFINE current == subject[x].state
           score == Score(x, mine)
           hard == \E s \in mine : SignalRules[s.code].hard
<1>1. PICK would : would = WouldBe(x, score, hard)
  OBVIOUS
<1>2. PICK next : next = Reached(m, current, would)
  OBVIOUS
<1>3. CASE Contained(current)
  BY <1>3 DEF AssessSubject
<1>4. CASE ~Contained(current)
  <2> PICK a : a = AssessSubject(m, x, mine)
    OBVIOUS
  <2>1. a.state = next /\ a.score = score
    BY <1>1, <1>2, <1>4 DEF AssessSubject
  <2>2. PICK points : points = score
    OBVIOUS
  <2> HIDE DEF score, hard
  <2>3. PICK called : called = Capped(x, m, points)
    OBVIOUS
  <2>4. PICK state : state = StateForScore(points)
    OBVIOUS
  <2>5. state \in {"normal", "elevated", "review_required", "quarantined"}
    BY <2>4 DEF StateForScore
  <2>6. called = IF state = "quarantined" /\ (x = Key \/ m = "monitor") THEN "review_required" ELSE state
    BY <2>3, <2>4 DEF Capped
  <2>7. would = IF x # Key /\ hard THEN "quarantined"
                ELSE IF x = Key /\ state = "quarantined" THEN "review_required" ELSE state
    BY <1>1, <2>2, <2>4 DEF WouldBe, Quarantinable
  <2>8. next = IF would = "quarantined" /\ m = "monitor" THEN "review_required"
               ELSE IF current = "cleared" /\ would = "normal" THEN "cleared" ELSE would
    BY <1>2 DEF Reached
  <2>9. \/ next = "quarantined" \/ next = called
        \/ next = "review_required" /\ called # "quarantined"
        \/ next = "cleared" /\ called = "normal"
    BY <2>5, <2>6, <2>7, <2>8
  <2>10. called \in {"normal", "elevated", "review_required", "quarantined"}
    BY <2>5, <2>6
  <2>11. Severity(next) >= Severity(called)
    BY <2>9, <2>10, Severities
  <2>12. a.score = Score(x, mine)
    BY <2>1 DEF score
  <2>13. Severity(a.state) >= Severity(Capped(x, m, a.score))
    BY <2>1, <2>2, <2>3, <2>11
  <2>14. QED
    BY <1>4, <2>1, <2>12, <2>13
<1>5. QED
  BY <1>3, <1>4

\* What a plan does about a subject: enough for its score, unless the subject is contained already, is
\* the one that is quarantined, or is a session of the agent that is.
Settles(x, m, plan) ==
    \/ Contained(subject[x].state)
    \/ x = plan.target
    \/ x = Session /\ plan.target = Agent
    \/ /\ x \in DOMAIN plan.write /\ plan.write[x].version = subject[x].version
       /\ Severity(plan.write[x].state) >= Severity(Capped(x, m, plan.score[x]))
    \/ /\ x \notin DOMAIN plan.write
       /\ Severity(subject[x].state) >= Severity(Capped(x, m, plan.score[x]))

\* Assessments of subjects, each of which calls for no less than its score.
Rated(direct, m, first) ==
    /\ direct \subseteq Subjects /\ DOMAIN first = direct
    /\ \A x \in direct :
        /\ first[x].cause = "none" <=> first[x].state = subject[x].state
        /\ ~Contained(subject[x].state) =>
              Severity(first[x].state) >= Severity(Capped(x, m, first[x].score))
        /\ Contained(subject[x].state) => first[x].cause = "none"

LEMMA ChosenSettles ==
    ASSUME Rows, NEW m, NEW new, NEW direct, NEW first, Rated(direct, m, first)
    PROVE  LET plan == Choose(m, new, first) IN
           /\ plan.new = new
           /\ DOMAIN plan.score = direct
           /\ \A x \in direct : plan.score[x] = first[x].score /\ Settles(x, m, plan)
           /\ plan.target # None => ~Contained(subject[plan.target].state)
<1>1. PICK candidates : candidates = IF m = "enforce" THEN Candidates(first) ELSE {}
  OBVIOUS
<1>2. PICK target : target = Target(candidates)
  OBVIOUS
<1>3. PICK a : a = [x \in DOMAIN first |-> IF x \in candidates \ {target}
                                         THEN Outranked(x, first[x]) ELSE first[x]]
  OBVIOUS
<1>4. PICK plan : plan = PlanFor(m, new, a, target)
  OBVIOUS
<1>5. Choose(m, new, first) = plan
  BY <1>1, <1>2, <1>3, <1>4 DEF Choose
<1>6. /\ candidates \subseteq {Agent, Session} /\ candidates \subseteq direct
      /\ \A x \in candidates : first[x].state = "quarantined" /\ first[x].cause # "none"
  BY <1>1, SubjectFacts DEF Candidates, Rated
<1>7. /\ target # None => target \in candidates
      /\ \A x \in candidates \ {target} : x = Session /\ target = Agent
  BY <1>2, <1>6, SubjectFacts DEF Target
<1>8. /\ DOMAIN a = direct
      /\ \A x \in direct : a[x] = IF x \in candidates \ {target} THEN Outranked(x, first[x])
                                 ELSE first[x]
  BY <1>3 DEF Rated
<1>9. \A x \in direct : a[x].score = first[x].score
  BY <1>8 DEF Outranked
<1>10. /\ plan.new = new /\ plan.target = target /\ plan.write = Writes(a, target, new)
       /\ plan.score = [x \in direct |-> a[x].score]
  BY <1>4, <1>8 DEF PlanFor
<1>11. \A x \in direct :
          /\ x \in DOMAIN plan.write => /\ plan.write[x].version = subject[x].version
                                       /\ plan.write[x].state = a[x].state
          /\ x \notin DOMAIN plan.write => x = target \/ a[x].cause = "none"
  BY <1>8, <1>10 DEF Writes
<1>12. ASSUME NEW x \in direct
       PROVE  Settles(x, m, plan)
  <2>1. CASE x \in candidates \ {target}
    BY <1>7, <1>10, <2>1 DEF Settles
  <2>2. CASE Contained(subject[x].state) \/ x = target
    BY <1>10, <2>2 DEF Settles
  <2>3. CASE x \notin candidates \ {target} /\ ~Contained(subject[x].state) /\ x # target
    <3>1. a[x] = first[x] /\ plan.score[x] = first[x].score
      BY <1>8, <1>10, <2>3
    <3>2. Severity(first[x].state) >= Severity(Capped(x, m, plan.score[x]))
      BY <2>3, <3>1 DEF Rated
    <3>3. CASE x \in DOMAIN plan.write
      BY <1>11, <3>1, <3>2, <3>3 DEF Settles
    <3>4. CASE x \notin DOMAIN plan.write
      <4>1. first[x].state = subject[x].state
        BY <1>11, <2>3, <3>1, <3>4 DEF Rated
      <4>2. QED
        BY <3>2, <3>4, <4>1 DEF Settles
    <3>5. QED
      BY <3>3, <3>4
  <2>4. QED
    BY <2>1, <2>2, <2>3
<1>13. target # None => ~Contained(subject[target].state)
  BY <1>6, <1>7 DEF Rated
<1>14. QED
  BY <1>5, <1>9, <1>10, <1>12, <1>13

\* The new signals of a plan that are about one subject.
Mine(x, plan) == {s \in plan.new : s.subject = x}

LEMMA PlanSettles ==
    ASSUME Rows, NEW m \in {"monitor", "enforce"}, NEW f \in Facts \cup Reports, NEW detected
    PROVE  LET plan == Plan(m, Direct(f), detected) IN
           /\ plan.new \subseteq detected
           /\ \A x \in DOMAIN plan.score :
                /\ x \in Subjects /\ plan.score[x] = Score(x, Mine(x, plan))
                /\ Settles(x, m, plan)
           /\ plan.target # None => ~Contained(subject[plan.target].state)
<1>1. PICK direct : direct = Direct(f)
  OBVIOUS
<1>2. PICK new : new = DedupeSignals(detected, UNION {CountingSignals(x) : x \in direct})
  OBVIOUS
<1>3. PICK first : first = [x \in direct |-> AssessSubject(m, x, {s \in new : s.subject = x})]
  OBVIOUS
<1>4. PICK plan : plan = Plan(m, direct, detected)
  OBVIOUS
<1>5. plan = Choose(m, new, first)
  BY <1>2, <1>3, <1>4 DEF Plan, PlanWith
<1>6. direct \subseteq Subjects /\ DOMAIN first = direct
  BY <1>1, <1>3, DirectSubjects
<1>7. ASSUME NEW x \in direct
      PROVE  /\ first[x].score = Score(x, {s \in new : s.subject = x})
             /\ first[x].cause = "none" <=> first[x].state = subject[x].state
             /\ ~Contained(subject[x].state) =>
                   Severity(first[x].state) >= Severity(Capped(x, m, first[x].score))
             /\ Contained(subject[x].state) => first[x].cause = "none"
  <2>1. PICK mine : mine = {s \in new : s.subject = x}
    OBVIOUS
  <2>2. first[x] = AssessSubject(m, x, mine) /\ x \in Subjects
    BY <1>3, <1>6, <2>1
  <2>3. QED
    BY <2>1, <2>2, Assessed, AssessedEnough
<1>8. /\ plan.new = new /\ DOMAIN plan.score = direct
      /\ \A x \in direct : plan.score[x] = first[x].score /\ Settles(x, m, plan)
      /\ plan.target # None => ~Contained(subject[plan.target].state)
  <2>1. Rated(direct, m, first)
    BY <1>6, <1>7 DEF Rated
  <2>2. QED
    BY <1>5, <2>1, ChosenSettles
<1>9. new \subseteq detected
  BY <1>2 DEF DedupeSignals
<1>10. QED
  BY <1>1, <1>4, <1>6, <1>7, <1>8, <1>9 DEF Mine

----------------------------------------------------------------------------
(* Catching up *)

\* The plan of an invocation that nobody interfered with is enough for the signals that count by now:
\* time takes signals away, and nobody has added any.
Covers(q) ==
    /\ q.mode \in {"monitor", "enforce"}
    /\ q.plan.target # None => ~Contained(subject[q.plan.target].state)
    /\ \A x \in DOMAIN q.plan.score :
        /\ x \in Subjects /\ q.plan.score[x] \in Nat
        /\ Score(x, Mine(x, q.plan)) <= q.plan.score[x]
        /\ Settles(x, q.mode, q.plan)

PendingOK(q) == q.stage = "commit" => /\ q.at \in Nat /\ Ruled(q.plan.new)
                                      /\ q.alone => Covers(q)

CatchInv ==
    /\ mode \in Modes /\ now \in Nat
    /\ Ruled(signals) /\ \A s \in signals : s.at \in Nat
    /\ \A r \in Requests : PendingOK(req[r])

LEMMA CountingIsRuled ==
    ASSUME CatchInv, NEW x
    PROVE  Ruled(CountingSignals(x)) /\ Points(CountingSignals(x)) \in Nat
<1>1. CountingSignals(x) \in SUBSET signals
  BY DEF CountingSignals
<1>2. Ruled(CountingSignals(x))
  BY <1>1, RuledSubset DEF CatchInv
<1>3. QED
  BY <1>2, PointsAreNatural

LEMMA MineIsRuled ==
    ASSUME NEW plan, Ruled(plan.new), NEW x
    PROVE  Ruled(Mine(x, plan)) /\ Points(Mine(x, plan)) \in Nat
<1>1. Mine(x, plan) \in SUBSET plan.new
  BY DEF Mine
<1>2. QED
  BY <1>1, RuledSubset, PointsAreNatural

LEMMA InitCatch == Init => CatchInv
<1> SUFFICES ASSUME Init PROVE CatchInv
  OBVIOUS
<1>1. Ruled(signals)
  BY FS_EmptySet DEF Init, Ruled
<1>2. \A r \in Requests : PendingOK(req[r])
  BY DEF Init, PendingOK, Idle
<1>3. QED
  BY <1>1, <1>2 DEF Init, CatchInv

\* Time may pass; rows and signals stay.
LEMMA CountingShrinks ==
    ASSUME CatchInv, UNCHANGED <<subject, signals>>, now' \in Nat, now <= now', NEW x
    PROVE  Points(CountingSignals(x)') <= Points(CountingSignals(x))
<1>1. ASSUME NEW s \in signals
      PROVE  Expiry(s) \in Nat /\ Expiry(s)' = Expiry(s)
  <2>1. SignalRules[s.code].window \in Nat
    BY DEF CatchInv, Ruled, Codes, SignalRules, Behavioral, Hard
  <2>2. QED
    BY <2>1 DEF CatchInv, Expiry
<1>2. CountingSignals(x)' \in SUBSET CountingSignals(x)
  BY <1>1 DEF CountingSignals, CatchInv
<1>3. QED
  BY <1>2, CountingIsRuled, PointsWithMore

LEMMA CoversOn ==
    ASSUME CatchInv, UNCHANGED <<subject, signals>>, now' \in Nat, now <= now',
           NEW q, Ruled(q.plan.new), Covers(q)
    PROVE  Covers(q)'
<1>1. ASSUME NEW x \in DOMAIN q.plan.score
      PROVE  Score(x, Mine(x, q.plan))' <= q.plan.score[x]
  <2>1. PICK mine : mine = Mine(x, q.plan)
    OBVIOUS
  <2>2. Points(mine) \in Nat /\ Mine(x, q.plan)' = mine
    BY <2>1, MineIsRuled DEF Mine
  <2>3. /\ Points(CountingSignals(x)') <= Points(CountingSignals(x))
        /\ Points(CountingSignals(x)') \in Nat /\ Points(CountingSignals(x)) \in Nat
    <3>1. Ruled(CountingSignals(x)')
      <4>1. CountingSignals(x)' \in SUBSET signals
        BY DEF CountingSignals
      <4>2. QED
        BY <4>1, RuledSubset DEF CatchInv
    <3>2. QED
      BY <3>1, CountingShrinks, CountingIsRuled, PointsAreNatural
  <2>4. Score(x, mine) <= q.plan.score[x] /\ q.plan.score[x] \in Nat
    BY <2>1 DEF Covers
  <2>5. Score(x, mine) = Points(CountingSignals(x)) + Points(mine)
    BY DEF Score
  <2>6. Score(x, Mine(x, q.plan))' = Points(CountingSignals(x)') + Points(mine)
    BY <2>2 DEF Score
  <2>7. QED
    BY <2>2, <2>3, <2>4, <2>5, <2>6
<1>2. \A x : Settles(x, q.mode, q.plan)' = Settles(x, q.mode, q.plan)
  BY DEF Settles
<1>3. QED
  BY <1>1, <1>2 DEF Covers

\* Invocations go on, are done, or are no longer alone.
LEMMA PendingOn ==
    ASSUME Inv, CatchInv, mode' \in Modes, now' \in Nat, now <= now',
           Ruled(signals'), \A s \in signals' : s.at \in Nat,
           \A r \in Requests : \/ req'[r] = Done \/ \E cleared : IsOvertaken(req[r], req'[r], cleared)
                               \/ req'[r] = req[r] /\ UNCHANGED <<subject, signals>>
                               \/ PendingOK(req[r])'
    PROVE  CatchInv'
<1>1. ASSUME NEW r \in Requests
      PROVE  PendingOK(req[r])'
  <2>1. CASE req'[r] = Done
    BY <2>1 DEF PendingOK, Done
  <2>2. CASE \E cleared : IsOvertaken(req[r], req'[r], cleared)
    <3>1. PICK cleared : IsOvertaken(req[r], req'[r], cleared)
      BY <2>2
    <3>2. CASE req[r].stage = "commit"
      <4>1. /\ req'[r].alone = FALSE /\ req'[r].at = req[r].at /\ req'[r].plan = req[r].plan
        BY <3>1, <3>2 DEF IsOvertaken
      <4>2. req[r].at \in Nat /\ Ruled(req[r].plan.new)
        BY <3>2 DEF CatchInv, PendingOK
      <4>3. QED
        BY <4>1, <4>2 DEF PendingOK
    <3>3. CASE req[r].stage # "commit"
      BY <3>1, <3>3 DEF IsOvertaken, PendingOK
    <3>4. QED
      BY <3>2, <3>3
  <2>3. CASE req'[r] = req[r] /\ UNCHANGED <<subject, signals>>
    <3>1. SUFFICES ASSUME req[r].stage = "commit" PROVE PendingOK(req[r])'
      BY <2>3 DEF PendingOK
    <3>2. PICK q : q = req[r]
      OBVIOUS
    <3>3. q.at \in Nat /\ Ruled(q.plan.new) /\ (q.alone => Covers(q))
      BY <3>1, <3>2 DEF CatchInv, PendingOK
    <3>4. q.alone => Covers(q)'
      BY <2>3, <3>3, CoversOn
    <3>5. req'[r] = q
      BY <2>3, <3>2
    <3>6. QED
      BY <3>3, <3>4, <3>5 DEF PendingOK, Covers, Settles, Score, CountingSignals
  <2>4. QED
    BY <2>1, <2>2, <2>3
<1>2. QED
  BY <1>1 DEF CatchInv

LEMMA PlanCatches ==
    ASSUME Inv, CatchInv, NEW r \in Requests, Assess(r) \/ Report(r)
    PROVE  CatchInv'
<1>1. UNCHANGED <<mode, subject, signals, now>> /\ mode \in {"monitor", "enforce"}
  BY DEF Assess, Report, CatchInv, Modes
<1>2. PICK f \in Facts \cup Reports : \E detected :
        /\ Ruled(detected)
        /\ req' = [req EXCEPT ![r] = Planned(mode, Plan(mode, Direct(f), detected))]
  <2>1. CASE Assess(r)
    <3>1. PICK f \in Facts : \E held :
            req' = [req EXCEPT ![r] = Planned(mode, Plan(mode, Direct(f), Detect(f, held)))]
      BY <2>1 DEF Assess
    <3>2. PICK held : req' = [req EXCEPT ![r] = Planned(mode, Plan(mode, Direct(f), Detect(f, held)))]
      BY <3>1
    <3>3. QED
      BY <3>2, DetectedAreRuled
  <2>2. CASE Report(r)
    <3>1. PICK f \in Reports :
            req' = [req EXCEPT ![r] = Planned(mode, Plan(mode, Direct(f), Reported(f)))]
      BY <2>2 DEF Report
    <3>2. QED
      BY <3>1, ReportedAreRuled
  <2>3. QED
    BY <2>1, <2>2
<1> PICK detected : /\ Ruled(detected)
                    /\ req' = [req EXCEPT ![r] = Planned(mode, Plan(mode, Direct(f), detected))]
  BY <1>2
<1>3. PICK plan : plan = Plan(mode, Direct(f), detected)
  OBVIOUS
<1>4. /\ plan.new \subseteq detected
      /\ \A x \in DOMAIN plan.score :
           /\ x \in Subjects /\ plan.score[x] = Score(x, Mine(x, plan))
           /\ Settles(x, mode, plan)
      /\ plan.target # None => ~Contained(subject[plan.target].state)
  BY <1>1, <1>3, PlanSettles DEF Inv
<1>5. Ruled(plan.new)
  BY <1>2, <1>4, RuledSubset
<1>6. \A x \in DOMAIN plan.score : Score(x, Mine(x, plan)) \in Nat
  BY <1>5, MineIsRuled, CountingIsRuled DEF Score
<1>7. PICK new : new = Planned(mode, plan)
  OBVIOUS
<1>8. new.stage = "commit" /\ new.mode = mode /\ new.plan = plan /\ new.at = now
  BY <1>7 DEF Planned
<1>9. Covers(new)
  BY <1>1, <1>4, <1>6, <1>8 DEF Covers
<1>10. req'[r] = new /\ \A s \in Requests : s # r => req'[s] = req[s]
  BY <1>2, <1>3, <1>7 DEF Inv
<1>11. now' \in Nat /\ now <= now'
  BY <1>1 DEF CatchInv
<1>12. Covers(new)'
  BY <1>1, <1>5, <1>8, <1>9, <1>11, CoversOn
<1>13. PendingOK(req[r])'
  BY <1>5, <1>8, <1>10, <1>12 DEF PendingOK, CatchInv, Covers, Settles, Score, CountingSignals
<1>14. QED
  BY <1>1, <1>10, <1>11, <1>13, PendingOn DEF CatchInv

LEMMA CommitCatches ==
    ASSUME Inv, CatchInv, NEW r \in Requests, Commit(r)
    PROVE  CatchInv'
<1>1. req[r].at \in Nat /\ Ruled(req[r].plan.new)
  BY DEF Commit, CatchInv, PendingOK
<1>2. Inserted(r) = Recorded(req[r].plan.new, req[r].at, r)
  BY DEF Inserted, Recorded
<1>3. Ruled(signals')
  BY <1>1, <1>2, PointsRecorded, RuledUnion DEF Commit, CatchInv
<1>4. \A s \in signals' : s.at \in Nat
  BY <1>1 DEF Commit, CatchInv, Inserted
<1>5. \A s \in Requests : req'[s] = Done \/ \E cleared : IsOvertaken(req[s], req'[s], cleared)
  <2>1. PICK cleared, overtaken : overtaken = Overtaken(cleared) /\ req' = [overtaken EXCEPT ![r] = Done]
    BY DEF Commit
  <2>2. QED
    BY <2>1, NotAlone
<1>6. mode' \in Modes /\ now' \in Nat /\ now <= now'
  BY DEF Commit, CatchInv
<1>7. QED
  BY <1>3, <1>4, <1>5, <1>6, PendingOn

LEMMA OthersCatch ==
    ASSUME Inv, CatchInv,
           \/ \E r \in Requests : Fail(r)
           \/ ManualQuarantine \/ CompleteContainment \/ Clear \/ ChangeMode \/ Tick \/ UNCHANGED vars
    PROVE  CatchInv'
<1>1. UNCHANGED signals /\ mode' \in Modes /\ now' \in Nat /\ now <= now'
  BY DEF Fail, ManualQuarantine, CompleteContainment, Clear, Move, ChangeMode, Tick, vars, CatchInv
<1>2. Ruled(signals') /\ \A s \in signals' : s.at \in Nat
  BY <1>1 DEF CatchInv
<1>3. ASSUME NEW s \in Requests
      PROVE  \/ req'[s] = Done \/ \E cleared : IsOvertaken(req[s], req'[s], cleared)
             \/ req'[s] = req[s] /\ UNCHANGED <<subject, signals>>
  <2>1. CASE ManualQuarantine \/ CompleteContainment \/ Clear
    <3>1. PICK cleared : req' = Overtaken(cleared)
      BY <2>1 DEF ManualQuarantine, CompleteContainment, Clear, Move
    <3>2. QED
      BY <3>1, NotAlone
  <2>2. CASE (\E r \in Requests : Fail(r)) \/ ChangeMode \/ Tick \/ UNCHANGED vars
    BY <2>2 DEF Fail, ChangeMode, Tick, vars, Inv
  <2>3. QED
    BY <2>1, <2>2
<1>4. QED
  BY <1>1, <1>2, <1>3, PendingOn

LEMMA Catching == Spec => []CatchInv
<1>1. Inv /\ CatchInv /\ [Next]_vars => CatchInv'
  BY PlanCatches, CommitCatches, OthersCatch DEF Next, AllDone
<1>2. QED
  BY <1>1, InitCatch, Invariance, PTL DEF Spec

\* After the batch the signals that count for a subject add up to the score of the plan at most.
LEMMA ScoreIsEnough ==
    ASSUME Inv, CatchInv, NEW r \in Requests, Commit(r), req[r].alone, NEW x \in DOMAIN req[r].plan.score
    PROVE  /\ Points(CountingSignals(x)') \in Nat /\ req[r].plan.score[x] \in Nat
           /\ Points(CountingSignals(x)') <= req[r].plan.score[x]
<1>1. PICK q : q = req[r]
  OBVIOUS
<1>2. q.at \in Nat /\ Ruled(q.plan.new) /\ Covers(q)
  BY <1>1 DEF Commit, CatchInv, PendingOK
<1>3. x \in Subjects /\ q.plan.score[x] \in Nat /\ Score(x, Mine(x, q.plan)) <= q.plan.score[x]
  BY <1>1, <1>2 DEF Covers
<1>4. PICK counting, mine, added :
        counting = CountingSignals(x) /\ mine = Mine(x, q.plan) /\ added = Recorded(mine, q.at, r)
  OBVIOUS
<1>5. signals' = signals \cup Inserted(r) /\ now' = now /\ subject'[x].since = subject[x].since
  <2>1. subject' = Written(req[r])
    BY DEF Commit
  <2>2. subject'[x].since = subject[x].since
    BY <1>3, <2>1 DEF Written
  <2>3. QED
    BY <2>2 DEF Commit
<1>6. CountingSignals(x)' \in SUBSET (counting \cup added)
  <2>1. ASSUME NEW s \in CountingSignals(x)'
        PROVE  s \in counting \cup added
    <3>1. s \in signals' /\ s.subject = x /\ Expiry(s) > now /\ s.at >= subject[x].since
      BY <1>5, <2>1 DEF CountingSignals, Expiry
    <3>2. CASE s \in signals
      BY <1>4, <3>1, <3>2 DEF CountingSignals
    <3>3. CASE s \in Inserted(r)
      <4>1. PICK n \in q.plan.new :
              s = [subject |-> n.subject, code |-> n.code, key |-> n.key, at |-> q.at, by |-> r]
        BY <1>1, <3>3 DEF Inserted
      <4>2. n \in mine
        BY <1>4, <3>1, <4>1 DEF Mine
      <4>3. QED
        BY <1>4, <4>1, <4>2 DEF Recorded
    <3>4. QED
      BY <1>5, <3>1, <3>2, <3>3
  <2>2. QED
    BY <2>1
<1>7. Ruled(counting) /\ Points(counting) \in Nat /\ Ruled(mine) /\ Points(mine) \in Nat
  BY <1>2, <1>4, CountingIsRuled, MineIsRuled
<1>8. Ruled(added) /\ Points(added) <= Points(mine) /\ Points(added) \in Nat
  BY <1>4, <1>7, PointsRecorded, PointsAreNatural
<1>9. /\ Ruled(counting \cup added) /\ Points(counting \cup added) <= Points(counting) + Points(added)
      /\ Points(counting \cup added) \in Nat
  BY <1>7, <1>8, PointsTogether, PointsAreNatural
<1>10. Points(CountingSignals(x)') <= Points(counting \cup added) /\ Points(CountingSignals(x)') \in Nat
  <2>1. Ruled(CountingSignals(x)')
    BY <1>6, <1>9, RuledSubset
  <2>2. QED
    BY <1>6, <1>9, <2>1, PointsWithMore, PointsAreNatural
<1>11. Points(counting) + Points(mine) <= q.plan.score[x]
  BY <1>3, <1>4 DEF Score
<1>12. QED
  BY <1>1, <1>3, <1>7, <1>8, <1>9, <1>10, <1>11

LEMMA StepCatchesUp ==
    ASSUME Inv, CatchInv, NEW r \in Requests, Commit(r), req[r].alone, NEW x \in DOMAIN req[r].plan.score,
           NEW m, m = req[r].mode
    PROVE  \/ Severity(subject'[x].state) >= Severity(CalledFor(x, m)')
           \/ x = Session /\ Contained(subject'[Agent].state)
<1>1. PICK q : q = req[r] /\ m = q.mode
  OBVIOUS
<1>2. /\ q.plan.target # None => ~Contained(subject[q.plan.target].state)
      /\ x \in Subjects /\ Settles(x, m, q.plan)
  BY <1>1 DEF Commit, CatchInv, PendingOK, Covers
<1>3. q.plan.target \notin DOMAIN q.plan.write
  BY <1>1 DEF Commit, Inv, RequestOK, Waits
<1>4. \A y \in Subjects :
          /\ y \in DOMAIN q.plan.write /\ Writable(subject[y], q.plan.write[y])
                => subject'[y].state = q.plan.write[y].state
          /\ y \notin DOMAIN q.plan.write /\ y = q.plan.target /\ Quarantines(y)
                => subject'[y].state = "quarantined"
          /\ ~(y \in DOMAIN q.plan.write /\ Writable(subject[y], q.plan.write[y])) /\ y # q.plan.target
                => subject'[y] = subject[y]
  BY <1>1 DEF Commit, Written
<1>5. PICK called, planned : /\ called = Points(CountingSignals(x)') /\ planned = q.plan.score[x]
                             /\ called \in Nat /\ planned \in Nat /\ called <= planned
  BY <1>1, ScoreIsEnough
<1>6. PICK wanted : wanted = Capped(x, m, called)
  OBVIOUS
<1>7. CalledFor(x, m)' = wanted
  BY <1>5, <1>6 DEF CalledFor, Capped
<1>8. /\ Severity(wanted) <= Severity(Capped(x, m, planned))
      /\ {Severity(wanted), Severity(Capped(x, m, planned))} \subseteq Nat
  BY <1>5, <1>6, CappedGrows, CappedStates, Severities
<1>9. \A y \in Subjects : y = q.plan.target => Contained(subject'[y].state)
  <2>1. SUFFICES ASSUME NEW y \in Subjects, y = q.plan.target PROVE Contained(subject'[y].state)
    OBVIOUS
  <2>2. Quarantines(y)
    BY <1>2, <2>1, SubjectFacts DEF Quarantines
  <2>3. subject'[y].state = "quarantined"
    BY <1>3, <1>4, <2>1, <2>2
  <2>4. QED
    BY <2>3 DEF Contained
<1>10. CASE Contained(subject[x].state) \/ x = q.plan.target
  <2>1. Contained(subject'[x].state)
    <3>1. CASE x = q.plan.target
      BY <1>2, <1>9, <3>1
    <3>2. CASE Contained(subject[x].state) /\ x # q.plan.target
      BY <1>2, <1>4, <3>2 DEF Writable
    <3>3. QED
      BY <1>10, <3>1, <3>2
  <2>2. QED
    BY <1>1, <1>6, <1>7, <2>1, MostSevere
<1>11. CASE x = Session /\ q.plan.target = Agent
  BY <1>9, <1>11, SubjectFacts
<1>12. CASE /\ ~Contained(subject[x].state) /\ x # q.plan.target
            /\ x \in DOMAIN q.plan.write /\ q.plan.write[x].version = subject[x].version
            /\ Severity(q.plan.write[x].state) >= Severity(Capped(x, m, q.plan.score[x]))
  <2>1. subject'[x].state = q.plan.write[x].state
    BY <1>2, <1>4, <1>12 DEF Writable
  <2>2. q.plan.write[x].state \in States
    BY <1>1, <1>12 DEF Commit, Inv, RequestOK, Waits
  <2>3. Severity(q.plan.write[x].state) \in Nat
    BY <2>2, Severities DEF States
  <2>4. QED
    BY <1>1, <1>5, <1>7, <1>8, <1>12, <2>1, <2>3
<1>13. CASE /\ ~Contained(subject[x].state) /\ x # q.plan.target
            /\ x \notin DOMAIN q.plan.write
            /\ Severity(subject[x].state) >= Severity(Capped(x, m, q.plan.score[x]))
  <2>1. subject'[x] = subject[x]
    BY <1>2, <1>4, <1>13
  <2>2. Severity(subject[x].state) \in Nat
    BY <1>2, Severities DEF Inv, Rows, States
  <2>3. QED
    BY <1>1, <1>5, <1>7, <1>8, <1>13, <2>1, <2>2
<1>14. QED
  BY <1>2, <1>10, <1>11, <1>12, <1>13 DEF Settles

\* An evaluation that nobody interfered with leaves no subject below what its signals call for: lost
\* updates of earlier handlers are made up for. (gateway.ts:483, engine.ts:132, store.ts:231)
THEOREM NothingStaysUncounted == Spec => CatchesUp
<1>1. Inv /\ CatchInv /\ [Next]_vars =>
        [\A r \in Requests, m \in Modes :
            /\ req[r].stage = "commit" /\ req[r].alone /\ req[r].mode = m
            /\ req'[r] = Done /\ <<subject, signals>>' # <<subject, signals>>
            => \A x \in DOMAIN req[r].plan.score :
                  \/ Severity(subject'[x].state) >= Severity(CalledFor(x, m)')
                  \/ x = Session /\ Contained(subject'[Agent].state)]_vars
  <2>1. SUFFICES ASSUME Inv, CatchInv, Next, NEW r \in Requests, NEW m \in Modes,
                        req[r].stage = "commit", req[r].alone, req[r].mode = m,
                        req'[r] = Done, <<subject, signals>>' # <<subject, signals>>,
                        NEW x \in DOMAIN req[r].plan.score
                 PROVE  \/ Severity(subject'[x].state) >= Severity(CalledFor(x, m)')
                        \/ x = Session /\ Contained(subject'[Agent].state)
    OBVIOUS
  <2>2. Commit(r)
    BY <2>1, OnlyCommits
  <2>3. QED
    BY <2>1, <2>2, StepCatchesUp
<1>2. QED
  BY <1>1, Invariance, Catching, PTL DEF Spec, CatchesUp
=============================================================================
