-------------------------- MODULE NotificationProofs --------------------------
(***************************************************************************)
(* Proofs about ApprovalNotifications, for any approvals, events, handlers, *)
(* cron invocations, delays and bounds, and about SecurityAlerts, for any    *)
(* number of invocations, crons and losses.                                *)
(***************************************************************************)
EXTENDS ApprovalNotifications, SecurityAlerts, TLAPS

LEMMA Constants ==
    /\ MaxAttempts \in Nat \ {0} /\ LeaseTime \in Nat \ {0} /\ Backoff \in Nat \ {0}
    /\ InlineDelay \in Nat \ {0} /\ MaxAge \in Nat \ {0}
    /\ InlineCap \in Nat /\ MaxCrashes \in Nat
    /\ MaxAge <= LeaseTime
    /\ \A after \in RetryAfters : after \in Nat
    /\ Events \subseteq AllEvents /\ "review_required" \in Events
    /\ Requests \cap Crons = {}
  BY NotificationsAssumption DEF Delays

-----------------------------------------------------------------------------
(* Type correctness *)

\* What the deliveries in flight hold, by step.
LEMMA DeliveryTypes ==
    ASSUME NEW q \in Delivery
    PROVE  /\ q.op # "idle" => q.row \in Rows
           /\ q.op \in {"load", "claim", "post"} => q.retries \in {0, 1}
           /\ q.op = "load" => q.wait \in Nat
           /\ q.op = "claim" => q.seen \in 0..MaxAttempts
           /\ q.op \in {"post", "record"} => q.attempt \in 1..(MaxAttempts + 1)
           /\ q.op = "record" => /\ q.delay \in Nat /\ q.inline \in BOOLEAN
                                 /\ q.status \in {"SENT_TO_PROVIDER", "QUEUED", "FAILED"}
  BY DEF Delivery, Idle

LEMMA DeliveryRecords ==
    /\ Idle \in Delivery
    /\ \A n \in Rows :
        /\ [op |-> "queue", row |-> n] \in Delivery
        /\ [op |-> "skip", row |-> n] \in Delivery
        /\ \A retries \in {0, 1} :
            /\ \A wait \in Nat :
                [op |-> "load", row |-> n, retries |-> retries, wait |-> wait] \in Delivery
            /\ \A seen \in 0..MaxAttempts :
                [op |-> "claim", row |-> n, retries |-> retries, seen |-> seen] \in Delivery
            /\ \A k \in 1..(MaxAttempts + 1) :
                [op |-> "post", row |-> n, retries |-> retries, attempt |-> k] \in Delivery
        /\ \A k \in 1..(MaxAttempts + 1), delay \in Nat, inline \in BOOLEAN,
              status \in {"SENT_TO_PROVIDER", "QUEUED", "FAILED"} :
            [op |-> "record", row |-> n, attempt |-> k, delay |-> delay,
             status |-> status, inline |-> inline] \in Delivery
  BY DEF Delivery

\* What INSERT OR IGNORE does to the table.
Inserted(n) ==
    \/ ntf' = ntf
    \/ /\ ntf[n].status = "none"
       /\ n[2] # "review_required" => EventCondition(n[1], n[2])
       /\ \E age \in 0..MaxAge :
             ntf' = [ntf EXCEPT ![n] =
                        [status |-> "QUEUED", attempts |-> 0, due |-> -age, lease |-> 0]]

LEMMA InsertInserts == ASSUME NEW n \in Rows, Insert(n) PROVE Inserted(n)
  BY DEF Insert, Inserted

LEMMA TypeInserted ==
    ASSUME TypeOK, NEW n \in Rows, Inserted(n) PROVE ntf' \in [Rows -> NotificationRow]
  <1>1. \A age \in 0..MaxAge :
            [status |-> "QUEUED", attempts |-> 0, due |-> -age, lease |-> 0] \in NotificationRow
    BY Constants DEF NotificationRow
  <1> QED
    BY <1>1 DEF TypeOK, Inserted

LEMMA TypeInit == Init => TypeOK
  <1> SUFFICES ASSUME Init PROVE TypeOK
    OBVIOUS
  <1>1. NoRow \in NotificationRow
    BY Constants DEF NoRow, NotificationRow
  <1>2. NoSweep \in Sweep
    BY Constants DEF NoSweep, Sweep
  <1> QED
    BY <1>1, <1>2, DeliveryRecords DEF TypeOK, Init, ApprovalState

LEMMA TypeHappens ==
    ASSUME TypeOK, NEW r \in Workers, Happens(r) PROVE TypeOK'
  <1>1. PICK p \in Approvals,
             change \in {<<"none", "pending", "review_required">>,
                         <<"pending", "approved", "approved">>, <<"pending", "denied", "denied">>,
                         <<"approved", "consumed", "consumed">>} :
            ap' = [ap EXCEPT ![p] = change[2]] /\ Notify(r, p, change[3])
    BY DEF Happens
  <1>2. ap' \in [Approvals -> ApprovalState]
    BY <1>1 DEF TypeOK, ApprovalState
  <1>3. change[3] \in Events => <<p, change[3]>> \in Rows
    BY DEF Rows
  <1>4. req' \in [Workers -> Delivery]
    BY <1>1, <1>3, DeliveryRecords DEF TypeOK, Notify
  <1> QED
    BY <1>2, <1>4 DEF TypeOK, Happens

LEMMA TypeQueue == ASSUME TypeOK, NEW r \in Workers, Queue(r) PROVE TypeOK'
  <1>1. req[r].row \in Rows
    BY DeliveryTypes DEF TypeOK, Queue
  <1>2. ntf' \in [Rows -> NotificationRow]
    BY <1>1, InsertInserts, TypeInserted DEF Queue
  <1> QED
    BY <1>1, <1>2, DeliveryRecords DEF TypeOK, Queue

LEMMA TypeLoadOrSkip == ASSUME TypeOK, NEW r \in Workers, Load(r) \/ Skip(r) PROVE TypeOK'
  <1> DEFINE n == req[r].row
  <1>1. n \in Rows /\ ntf[n] \in NotificationRow
    BY DeliveryTypes DEF TypeOK, Load, Skip
  <1>2. CASE Load(r)
    <2>1. req[r].retries \in {0, 1}
      BY <1>2, DeliveryTypes DEF TypeOK, Load
    <2>2. ntf[n].attempts \in 0..MaxAttempts
      BY <1>1 DEF NotificationRow
    <2> QED
      BY <1>1, <1>2, <2>1, <2>2, DeliveryRecords DEF TypeOK, Load
  <1>3. CASE Skip(r)
    <2>1. [ntf[n] EXCEPT !.status = "SKIPPED"] \in NotificationRow
      BY <1>1 DEF NotificationRow, Terminal
    <2>2. ntf' = ntf \/ ntf' = [ntf EXCEPT ![n] = [ntf[n] EXCEPT !.status = "SKIPPED"]]
      BY <1>3 DEF Skip
    <2>3. ntf' \in [Rows -> NotificationRow]
      BY <2>1, <2>2 DEF TypeOK
    <2> QED
      BY <1>3, <2>3, DeliveryRecords DEF TypeOK, Skip
  <1> QED
    BY <1>2, <1>3

LEMMA TypeClaim == ASSUME TypeOK, NEW r \in Workers, Claim(r) PROVE TypeOK'
  <1> DEFINE n == req[r].row
             sending(age) == [status |-> "SENDING", attempts |-> ntf[n].attempts + 1,
                              due |-> 0, lease |-> LeaseTime - age]
             posting == [op |-> "post", row |-> n, retries |-> req[r].retries,
                         attempt |-> req[r].seen + 1]
  <1>1. n \in Rows /\ req[r].retries \in {0, 1} /\ req[r].seen \in 0..MaxAttempts
    BY DeliveryTypes DEF TypeOK, Claim
  <1>2. ntf[n].attempts \in 0..MaxAttempts
    BY <1>1 DEF TypeOK, NotificationRow
  <1>3. posting \in Delivery
    <2>1. req[r].seen + 1 \in 1..(MaxAttempts + 1)
      BY <1>1, Constants
    <2> QED
      BY <1>1, <2>1, DeliveryRecords
  <1>4. PICK age \in 0..MaxAge :
            IF Claimable(n, age)
            THEN ntf' = [ntf EXCEPT ![n] = sending(age)] /\ req' = [req EXCEPT ![r] = posting]
            ELSE req' = [req EXCEPT ![r] = Idle] /\ UNCHANGED ntf
    BY DEF Claim
  <1>5. CASE Claimable(n, age)
    <2>1. sending(age) \in NotificationRow
      BY <1>2, <1>5, Constants DEF NotificationRow, Claimable
    <2>2. ntf' \in [Rows -> NotificationRow] /\ req' \in [Workers -> Delivery]
      BY <1>3, <1>4, <1>5, <2>1 DEF TypeOK
    <2> QED
      BY <2>2 DEF TypeOK, Claim
  <1>6. CASE ~Claimable(n, age)
    BY <1>4, <1>6, DeliveryRecords DEF TypeOK, Claim
  <1> QED
    BY <1>5, <1>6

\* A post counts the messages Slack accepted and moves on to a record.
LEMMA PostOutcome ==
    ASSUME TypeOK, NEW r \in Workers, Post(r)
    PROVE  LET n == req[r].row
               k == req[r].attempt IN
           /\ n \in Rows /\ k \in 1..(MaxAttempts + 1)
           /\ accepted' = accepted \/ accepted' = [accepted EXCEPT ![n] = @ + 1]
           /\ \E status \in {"SENT_TO_PROVIDER", "QUEUED", "FAILED"}, inline \in BOOLEAN,
                 delay \in Nat :
                 /\ req' = [req EXCEPT ![r] =
                               [op |-> "record", row |-> n, attempt |-> k, delay |-> delay,
                                status |-> status, inline |-> inline]]
                 /\ status = "QUEUED" => k < MaxAttempts
                 /\ status = "SENT_TO_PROVIDER" => accepted' = [accepted EXCEPT ![n] = @ + 1]
  <1> DEFINE n == req[r].row
             k == req[r].attempt
             Outcome(status, inline, delay) ==
                 [op |-> "record", row |-> n, attempt |-> k, delay |-> delay,
                  status |-> status, inline |-> inline]
  <1>1. n \in Rows /\ k \in 1..(MaxAttempts + 1) /\ req[r].retries \in {0, 1}
    BY DeliveryTypes DEF TypeOK, Post
  <1>2. accepted[n] \in Nat
    BY <1>1 DEF TypeOK
  <1>3. CASE /\ accepted' = [accepted EXCEPT ![n] = @ + 1]
             /\ req' = [req EXCEPT ![r] = Outcome("SENT_TO_PROVIDER", FALSE, 0)]
    BY <1>1, <1>3
  <1>4. CASE req' = [req EXCEPT ![r] = Outcome("FAILED", FALSE, 0)] /\ UNCHANGED accepted
    BY <1>1, <1>4
  <1>5. CASE \E after \in RetryAfters, reached \in {0, 1} :
                LET inline == Inline(req[r].retries, after) IN
                /\ accepted' = [accepted EXCEPT ![n] = @ + reached]
                /\ req' = [req EXCEPT ![r] =
                              IF Exhausted(k) THEN Outcome("FAILED", FALSE, 0)
                              ELSE Outcome("QUEUED", inline, Delay(inline, after))]
    <2>1. PICK after \in RetryAfters, reached \in {0, 1} :
              LET inline == Inline(req[r].retries, after) IN
              /\ accepted' = [accepted EXCEPT ![n] = @ + reached]
              /\ req' = [req EXCEPT ![r] =
                            IF Exhausted(k) THEN Outcome("FAILED", FALSE, 0)
                            ELSE Outcome("QUEUED", inline, Delay(inline, after))]
      BY <1>5
    <2> DEFINE inline == Inline(req[r].retries, after)
    <2>2. accepted' = accepted \/ accepted' = [accepted EXCEPT ![n] = @ + 1]
      <3>1. CASE reached = 0
        BY <1>1, <1>2, <2>1, <3>1 DEF TypeOK
      <3>2. CASE reached = 1
        BY <2>1, <3>2
      <3> QED
        BY <3>1, <3>2
    <2>3. inline \in BOOLEAN /\ Delay(inline, after) \in Nat
      BY Constants DEF Inline, Delay
    <2>4. CASE Exhausted(k)
      BY <1>1, <2>1, <2>2, <2>4
    <2>5. CASE ~Exhausted(k)
      <3>1. k < MaxAttempts
        BY <1>1, <2>5, Constants DEF Exhausted
      <3>2. req' = [req EXCEPT ![r] = Outcome("QUEUED", inline, Delay(inline, after))]
        BY <2>1, <2>5
      <3> HIDE DEF inline
      <3> QED
        BY <1>1, <2>2, <2>3, <3>1, <3>2
    <2> QED
      BY <2>4, <2>5
  <1> QED
    BY <1>3, <1>4, <1>5 DEF Post

LEMMA TypePost == ASSUME TypeOK, NEW r \in Workers, Post(r) PROVE TypeOK'
  <1> DEFINE n == req[r].row
             k == req[r].attempt
  <1>1. PICK status \in {"SENT_TO_PROVIDER", "QUEUED", "FAILED"}, inline \in BOOLEAN,
             delay \in Nat :
            req' = [req EXCEPT ![r] = [op |-> "record", row |-> n, attempt |-> k, delay |-> delay,
                                       status |-> status, inline |-> inline]]
    BY PostOutcome
  <1>2. n \in Rows /\ k \in 1..(MaxAttempts + 1)
    BY PostOutcome
  <1>3. req' \in [Workers -> Delivery]
    BY <1>1, <1>2, DeliveryRecords DEF TypeOK
  <1>4. accepted[n] + 1 \in Nat
    BY <1>2 DEF TypeOK
  <1>5. accepted' = accepted \/ accepted' = [accepted EXCEPT ![n] = @ + 1]
    BY PostOutcome
  <1>6. accepted' \in [Rows -> Nat]
    BY <1>4, <1>5 DEF TypeOK
  <1> QED
    BY <1>3, <1>6 DEF TypeOK, Post

LEMMA TypeLogged ==
    ASSUME NEW rows \in [Attempts -> Nat], NEW k
    PROVE  [rows EXCEPT ![k] = @ + 1] \in [Attempts -> Nat]
  <1>1. CASE k \in Attempts
    BY <1>1
  <1>2. CASE k \notin Attempts
    <2>1. [rows EXCEPT ![k] = @ + 1] = rows
      BY <1>2
    <2> QED
      BY <2>1
  <1> QED
    BY <1>1, <1>2

LEMMA TypeEnded ==
    ASSUME TypeOK, NEW n \in Rows, NEW due \in Int,
           NEW status \in {"SENT_TO_PROVIDER", "QUEUED", "FAILED"}
    PROVE  Ended(n, status, due) \in [Rows -> NotificationRow]
  <1>1. [status |-> status, attempts |-> ntf[n].attempts, due |-> due, lease |-> 0]
            \in NotificationRow
    BY DEF TypeOK, NotificationRow, Terminal
  <1> QED
    BY <1>1 DEF TypeOK, Ended

LEMMA TypeRecord == ASSUME TypeOK, NEW r \in Workers, Record(r) PROVE TypeOK'
  <1> DEFINE q == req[r]
             n == q.row
             logged == [log[n] EXCEPT ![q.attempt] = @ + 1]
             again == [op |-> "load", row |-> n, retries |-> 0, wait |-> q.delay]
  <1>1. /\ n \in Rows /\ q.attempt \in Nat /\ q.delay \in Nat
        /\ q.status \in {"SENT_TO_PROVIDER", "QUEUED", "FAILED"}
    BY DeliveryTypes DEF TypeOK, Record
  <1>2. Ended(n, q.status, q.delay) \in [Rows -> NotificationRow]
    BY <1>1, TypeEnded
  <1>3. logged \in [Attempts -> Nat]
    <2>1. log[n] \in [Attempts -> Nat]
      BY <1>1 DEF TypeOK
    <2> QED
      BY <2>1, TypeLogged
  <1>4. ntf' \in [Rows -> NotificationRow] /\ log' \in [Rows -> [Attempts -> Nat]]
    <2>1. CASE OwnAttempt(n, q.attempt)
      <3>1. ntf' = Ended(n, q.status, q.delay) /\ log' = [log EXCEPT ![n] = logged]
        BY <2>1 DEF Record
      <3> QED
        BY <1>2, <1>3, <3>1 DEF TypeOK
    <2>2. CASE ~OwnAttempt(n, q.attempt)
      BY <2>2 DEF TypeOK, Record
    <2> QED
      BY <2>1, <2>2
  <1>5. req' \in [Workers -> Delivery]
    <2>1. again \in Delivery
      BY <1>1, DeliveryRecords
    <2>2. req' = [req EXCEPT ![r] = IF q.inline THEN again ELSE Idle]
      BY DEF Record
    <2> QED
      BY <2>1, <2>2, DeliveryRecords DEF TypeOK
  <1> QED
    BY <1>4, <1>5 DEF TypeOK, Record

\* A query of the sweep returns rows and their attempts.
LEMMA TypeFound ==
    ASSUME TypeOK, NEW R \in SUBSET Rows, NEW c \in Crons,
           NEW phase \in {"abandon", "backfill", "deliver"},
           sweep' = [sweep EXCEPT ![c] = [phase |-> phase, age |-> 0, rows |-> Found(R)]]
    PROVE  sweep' \in [Crons -> Sweep]
  <1>1. Found(R) \subseteq Rows \X (0..MaxAttempts)
    BY DEF Found, TypeOK, NotificationRow
  <1>2. [phase |-> phase, age |-> 0, rows |-> Found(R)] \in Sweep
    BY <1>1, Constants DEF Sweep
  <1> QED
    BY <1>2 DEF TypeOK

\* A pass that has handled one of its rows.
LEMMA TypeHandled ==
    ASSUME TypeOK, NEW c \in Crons, NEW item,
           sweep' = [sweep EXCEPT ![c].rows = @ \ {item}]
    PROVE  sweep' \in [Crons -> Sweep]
  <1>1. [sweep[c] EXCEPT !.rows = @ \ {item}] \in Sweep
    BY DEF TypeOK, Sweep
  <1> QED
    BY <1>1 DEF TypeOK

\* What the first loop of a pass does with a row it found.
AbandonsRow(c, n, k) ==
    /\ sweep[c].phase = "abandon" /\ <<n, k>> \in sweep[c].rows
    /\ IF LeaseOver(n, sweep[c].age)
       THEN /\ ntf' = Ended(n, AbandonedStatus(n), -sweep[c].age)
            /\ log' = [log EXCEPT ![n] = [log[n] EXCEPT ![k] = @ + 1]]
       ELSE UNCHANGED <<ntf, log>>
    /\ sweep' = [sweep EXCEPT ![c].rows = @ \ {<<n, k>>}]

LEMMA AbandonRow ==
    ASSUME TypeOK, NEW c \in Crons, Abandon(c)
    PROVE  \E n \in Rows, k \in 0..MaxAttempts : AbandonsRow(c, n, k)
  <1>1. PICK item \in sweep[c].rows :
            /\ IF LeaseOver(item[1], sweep[c].age)
               THEN /\ ntf' = Ended(item[1], AbandonedStatus(item[1]), -sweep[c].age)
                    /\ log' = [log EXCEPT ![item[1]][item[2]] = @ + 1]
               ELSE UNCHANGED <<ntf, log>>
            /\ sweep' = [sweep EXCEPT ![c].rows = @ \ {item}]
    BY DEF Abandon
  <1>2. PICK n \in Rows, k \in 0..MaxAttempts : item = <<n, k>>
    BY DEF TypeOK, Sweep
  <1>3. AbandonsRow(c, n, k)
    BY <1>1, <1>2 DEF AbandonsRow, Abandon
  <1> QED
    BY <1>3

LEMMA TypeSweeping == ASSUME TypeOK, NEW c \in Crons, Sweeping(c) PROVE TypeOK'
  <1>1. CASE SweepStart(c)
    BY <1>1, TypeFound DEF TypeOK, SweepStart
  <1>2. CASE Abandon(c)
    <2>1. PICK n \in Rows, k \in 0..MaxAttempts : AbandonsRow(c, n, k)
      BY <1>2, AbandonRow
    <2>2. sweep' \in [Crons -> Sweep]
      BY <2>1, TypeHandled DEF AbandonsRow
    <2> DEFINE logged == [log[n] EXCEPT ![k] = @ + 1]
    <2>3. ntf' \in [Rows -> NotificationRow]
      <3>1. sweep[c].age \in Nat
        BY Constants DEF TypeOK, Sweep
      <3>2. Ended(n, AbandonedStatus(n), -sweep[c].age) \in [Rows -> NotificationRow]
        BY <3>1, TypeEnded DEF AbandonedStatus
      <3>3. ntf' = ntf \/ ntf' = Ended(n, AbandonedStatus(n), -sweep[c].age)
        BY <2>1 DEF AbandonsRow
      <3> QED
        BY <3>2, <3>3 DEF TypeOK
    <2>4. log' \in [Rows -> [Attempts -> Nat]]
      <3>1. logged \in [Attempts -> Nat]
        BY TypeLogged DEF TypeOK
      <3>2. log' = log \/ log' = [log EXCEPT ![n] = logged]
        BY <2>1 DEF AbandonsRow
      <3> QED
        BY <3>1, <3>2 DEF TypeOK
    <2> QED
      BY <1>2, <2>2, <2>3, <2>4 DEF TypeOK, Abandon
  <1>3. CASE SweepBackfill(c)
    BY <1>3, TypeFound DEF TypeOK, SweepBackfill
  <1>4. CASE Backfill(c)
    <2>1. PICK item \in sweep[c].rows :
              Insert(item[1]) /\ sweep' = [sweep EXCEPT ![c].rows = @ \ {item}]
      BY <1>4 DEF Backfill
    <2>2. item[1] \in Rows
      BY DEF TypeOK, Sweep
    <2>3. ntf' \in [Rows -> NotificationRow] /\ sweep' \in [Crons -> Sweep]
      BY <2>1, <2>2, InsertInserts, TypeInserted, TypeHandled
    <2> QED
      BY <1>4, <2>3 DEF TypeOK, Backfill
  <1>5. CASE SweepDue(c)
    BY <1>5, TypeFound DEF TypeOK, SweepDue
  <1>6. CASE Deliver(c)
    <2>1. PICK item \in sweep[c].rows :
              /\ req' = [req EXCEPT ![c] = [op |-> "load", row |-> item[1], retries |-> 0, wait |-> 0]]
              /\ sweep' = [sweep EXCEPT ![c].rows = @ \ {item}]
      BY <1>6 DEF Deliver
    <2>2. item[1] \in Rows
      BY DEF TypeOK, Sweep
    <2>3. req' \in [Workers -> Delivery] /\ sweep' \in [Crons -> Sweep]
      BY <2>1, <2>2, DeliveryRecords, TypeHandled DEF TypeOK
    <2> QED
      BY <1>6, <2>3 DEF TypeOK, Deliver
  <1> QED
    BY <1>1, <1>2, <1>3, <1>4, <1>5, <1>6 DEF Sweeping

\* A tick leaves status and attempts alone, and brings the times nearer.
LEMMA TickedRow ==
    ASSUME TypeOK, Tick, NEW n \in Rows
    PROVE  /\ ntf'[n] \in NotificationRow
           /\ ntf'[n].status = ntf[n].status /\ ntf'[n].attempts = ntf[n].attempts
           /\ ntf[n].status = "SENDING" => ntf'[n].lease = Down(ntf[n].lease, -MaxAge - 1)
  <1> DEFINE due == IF ntf[n].status = "QUEUED" THEN Down(ntf[n].due, -MaxAge) ELSE 0
             lease == IF ntf[n].status = "SENDING" THEN Down(ntf[n].lease, -MaxAge - 1) ELSE 0
  <1>1. ntf[n] \in NotificationRow
    BY DEF TypeOK
  <1>2. due \in Int /\ lease \in Int
    BY <1>1, Constants DEF Down, NotificationRow
  <1>3. ntf'[n] = [ntf[n] EXCEPT !.due = due, !.lease = lease]
    BY DEF Tick
  <1>4. ntf[n].status = "SENDING" => lease = Down(ntf[n].lease, -MaxAge - 1)
    OBVIOUS
  <1> HIDE DEF due, lease
  <1> QED
    BY <1>1, <1>2, <1>3, <1>4 DEF NotificationRow

LEMMA TypeTick == ASSUME TypeOK, Tick PROVE TypeOK'
  <1>1. ntf' \in [Rows -> NotificationRow]
    <2>1. \A n \in Rows : ntf'[n] \in NotificationRow
      BY TickedRow
    <2> QED
      BY <2>1 DEF Tick
  <1>2. req' \in [Workers -> Delivery]
    <2>1. ASSUME NEW r \in Workers, req[r].op = "load"
          PROVE  [req[r] EXCEPT !.wait = Down(@, 0)] \in Delivery
      <3>1. req[r].row \in Rows /\ req[r].retries \in {0, 1} /\ req[r].wait \in Nat
        BY <2>1, DeliveryTypes DEF TypeOK
      <3>2. req[r] \in [op : {"load"}, row : Rows, retries : {0, 1}, wait : Nat]
        BY <2>1 DEF TypeOK, Delivery, Idle
      <3>3. Down(req[r].wait, 0) \in Nat
        BY <3>1 DEF Down
      <3>4. [req[r] EXCEPT !.wait = Down(@, 0)]
                \in [op : {"load"}, row : Rows, retries : {0, 1}, wait : Nat]
        BY <3>2, <3>3
      <3> QED
        BY <3>4 DEF Delivery
    <2> QED
      BY <2>1 DEF Tick, TypeOK
  <1>3. sweep' \in [Crons -> Sweep]
    <2>1. ASSUME NEW c \in Crons, sweep[c].phase = "abandon"
          PROVE  [sweep[c] EXCEPT !.age = @ + 1] \in Sweep
      <3>1. sweep[c] \in Sweep
        BY DEF TypeOK
      <3>2. sweep[c].age < MaxAge
        BY <2>1 DEF Tick
      <3>3. sweep[c].age + 1 \in 0..MaxAge
        BY <3>1, <3>2, Constants DEF Sweep
      <3> QED
        BY <3>1, <3>3 DEF Sweep
    <2> QED
      BY <2>1 DEF Tick, TypeOK
  <1> QED
    BY <1>1, <1>2, <1>3 DEF TypeOK, Tick

LEMMA TypeCrash == ASSUME TypeOK, NEW r \in Workers, Crash(r) PROVE TypeOK'
  <1>1. NoSweep \in Sweep
    BY Constants DEF NoSweep, Sweep
  <1>2. sweep' \in [Crons -> Sweep]
    BY <1>1 DEF TypeOK, Crash
  <1> QED
    BY <1>2, DeliveryRecords DEF TypeOK, Crash

LEMMA TypeSilent == ASSUME TypeOK, HappensSilently \/ Disconnect \/ UNCHANGED vars PROVE TypeOK'
  <1>1. ap' \in [Approvals -> ApprovalState]
    BY DEF TypeOK, HappensSilently, Disconnect, vars, ApprovalState
  <1> QED
    BY <1>1 DEF TypeOK, HappensSilently, Disconnect, vars

LEMMA TypeStep == TypeOK /\ [Next]_vars => TypeOK'
  BY TypeHappens, TypeQueue, TypeLoadOrSkip, TypeClaim, TypePost, TypeRecord, TypeSweeping,
     TypeTick, TypeCrash, TypeSilent DEF Next, Delivering

\* The rows keep their columns' types, so attempts never exceed max_attempts; the handlers keep theirs.
THEOREM TypeCorrect == Spec => []TypeOK
  BY TypeInit, TypeStep, PTL DEF Spec

-----------------------------------------------------------------------------
(* Attempts and their log *)

\* One row: what the runs check of it, and where its attempts start.
RowInv(n) ==
    /\ ntf[n].status = "none" => ntf[n].attempts = 0
    /\ ntf[n].status = "SENDING" => ntf[n].attempts >= 1
    /\ ntf[n].status = "QUEUED" => ntf[n].attempts < MaxAttempts
    /\ \A k \in Attempts :
        log[n][k] = IF k < ntf[n].attempts \/ (k = ntf[n].attempts /\ ntf[n].status # "SENDING")
                    THEN 1 ELSE 0

\* A row found by a pass that was claimed again since then carries a lease the pass still honours:
\* so the number that the pass read is the number of the attempt that it logs.
PassesAreCurrent ==
    \A c \in Crons : sweep[c].phase = "abandon" =>
        \A n \in Rows, k \in 0..MaxAttempts : <<n, k>> \in sweep[c].rows =>
            /\ 1 <= k /\ k <= ntf[n].attempts
            /\ k < ntf[n].attempts /\ ntf[n].status = "SENDING" => ntf[n].lease >= -sweep[c].age

\* A delivery queues its row again only if it has an attempt left.
RetriesAreLeft ==
    \A r \in Workers :
        req[r].op = "record" /\ req[r].status = "QUEUED" => req[r].attempt < MaxAttempts

AttemptInv ==
    /\ \A n \in Rows : RowInv(n)
    /\ PassesAreCurrent
    /\ RetriesAreLeft

\* What any step but a tick does to a row: attempts grow, and a lease is new or unchanged.
RowMoves(n) ==
    /\ ntf'[n].attempts >= ntf[n].attempts
    /\ ntf'[n].status = "SENDING" =>
        \/ /\ ntf[n].status = "SENDING" /\ ntf'[n].attempts = ntf[n].attempts
           /\ ntf'[n].lease = ntf[n].lease
        \/ ntf'[n].lease >= 0

RowsMove == \A n \in Rows : RowInv(n)' /\ RowMoves(n)

LEMMA AttemptInit == Init => AttemptInv
  <1> SUFFICES ASSUME Init PROVE AttemptInv
    OBVIOUS
  <1>1. \A n \in Rows : RowInv(n)
    BY DEF Init, NoRow, RowInv, Attempts
  <1>2. PassesAreCurrent
    BY DEF Init, NoSweep, PassesAreCurrent
  <1>3. RetriesAreLeft
    BY DEF Init, Idle, RetriesAreLeft
  <1> QED
    BY <1>1, <1>2, <1>3 DEF AttemptInv

LEMMA RowUnchanged ==
    ASSUME TypeOK, NEW n \in Rows, RowInv(n), ntf'[n] = ntf[n], log'[n] = log[n]
    PROVE  RowInv(n)' /\ RowMoves(n)
  <1>1. ntf[n].attempts \in Nat
    BY Constants DEF TypeOK, NotificationRow
  <1>2. RowInv(n)'
    BY DEF RowInv
  <1>3. RowMoves(n)
    BY <1>1 DEF RowMoves
  <1> QED
    BY <1>2, <1>3

LEMMA RowsUnchanged ==
    ASSUME TypeOK, AttemptInv, UNCHANGED <<ntf, log>> PROVE RowsMove
  BY RowUnchanged DEF AttemptInv, RowsMove

LEMMA RowsInserted ==
    ASSUME TypeOK, AttemptInv, NEW n \in Rows, Inserted(n), UNCHANGED log PROVE RowsMove
  <1>1. CASE UNCHANGED ntf
    BY <1>1, RowsUnchanged
  <1>2. CASE ntf' # ntf
    <2>1. PICK age \in 0..MaxAge :
              ntf' = [ntf EXCEPT ![n] =
                         [status |-> "QUEUED", attempts |-> 0, due |-> -age, lease |-> 0]]
      BY <1>2 DEF Inserted
    <2>2. ntf[n].status = "none" /\ RowInv(n) /\ ntf[n].attempts = 0
      BY <1>2 DEF Inserted, AttemptInv, RowInv
    <2>3. ntf'[n].status = "QUEUED" /\ ntf'[n].attempts = 0
      BY <2>1 DEF TypeOK
    <2>4. RowInv(n)'
      BY <2>2, <2>3, Constants DEF RowInv
    <2>5. RowMoves(n)
      BY <2>2, <2>3 DEF RowMoves
    <2>6. \A m \in Rows \ {n} : RowInv(m)' /\ RowMoves(m)
      BY <2>1, RowUnchanged DEF AttemptInv
    <2> QED
      BY <2>4, <2>5, <2>6 DEF RowsMove
  <1> QED
    BY <1>1, <1>2

LEMMA RowsSkip ==
    ASSUME TypeOK, AttemptInv, NEW r \in Workers, Skip(r) PROVE RowsMove
  <1>0. PICK n \in Rows : n = req[r].row
    BY DeliveryTypes DEF TypeOK, Skip
  <1>1. ntf[n] \in NotificationRow
    BY DEF TypeOK
  <1>2. CASE ntf[n].status = "QUEUED"
    <2>1. ntf' = [ntf EXCEPT ![n] = [ntf[n] EXCEPT !.status = "SKIPPED"]] /\ log' = log
      BY <1>0, <1>2 DEF Skip
    <2>2. ntf'[n].status = "SKIPPED" /\ ntf'[n].attempts = ntf[n].attempts
      BY <1>1, <2>1 DEF TypeOK, NotificationRow
    <2>3. ntf[n].attempts \in Nat
      BY <1>1 DEF NotificationRow
    <2>4. RowInv(n)' /\ RowMoves(n)
      BY <1>1, <1>2, <2>1, <2>2, <2>3 DEF AttemptInv, RowInv, RowMoves
    <2>5. \A m \in Rows \ {n} : RowInv(m)' /\ RowMoves(m)
      BY <2>1, RowUnchanged DEF AttemptInv
    <2> QED
      BY <2>4, <2>5 DEF RowsMove
  <1>3. CASE ntf[n].status # "QUEUED"
    BY <1>0, <1>3, RowsUnchanged DEF Skip
  <1> QED
    BY <1>2, <1>3

LEMMA RowsClaim ==
    ASSUME TypeOK, AttemptInv, NEW r \in Workers, Claim(r) PROVE RowsMove
  <1>0. PICK n \in Rows : n = req[r].row
    BY DeliveryTypes DEF TypeOK, Claim
  <1>1. ntf[n] \in NotificationRow
    BY DEF TypeOK
  <1>2. PICK age \in 0..MaxAge :
            \/ /\ Claimable(n, age)
               /\ ntf' = [ntf EXCEPT ![n] = [status |-> "SENDING", attempts |-> @.attempts + 1,
                                             due |-> 0, lease |-> LeaseTime - age]]
            \/ UNCHANGED ntf
    BY <1>0 DEF Claim
  <1>3. CASE UNCHANGED ntf
    BY <1>3, RowsUnchanged DEF Claim
  <1>4. CASE ntf' # ntf
    <2>1. /\ Claimable(n, age)
          /\ ntf' = [ntf EXCEPT ![n] = [status |-> "SENDING", attempts |-> ntf[n].attempts + 1,
                                        due |-> 0, lease |-> LeaseTime - age]]
      BY <1>2, <1>4
    <2>2. /\ ntf'[n].status = "SENDING" /\ ntf'[n].attempts = ntf[n].attempts + 1
          /\ ntf'[n].lease = LeaseTime - age
      BY <1>1, <2>1 DEF TypeOK
    <2>3. ntf[n].attempts \in Nat /\ ntf[n].status = "QUEUED" /\ LeaseTime - age >= 0
      BY <1>1, <2>1, Constants DEF NotificationRow, Claimable
    <2>4. RowInv(n)
      BY <1>1 DEF AttemptInv
    <2>5. RowInv(n)'
      <3>1. \A k \in Attempts : k < ntf[n].attempts + 1 <=> k <= ntf[n].attempts
        BY <2>3, Constants DEF Attempts
      <3>2. \A k \in Attempts : k <= ntf[n].attempts <=> k < ntf[n].attempts \/ k = ntf[n].attempts
        BY <2>3, Constants DEF Attempts
      <3> QED
        BY <2>2, <2>3, <2>4, <3>1, <3>2 DEF RowInv, Claim
    <2>6. RowMoves(n)
      BY <2>2, <2>3 DEF RowMoves
    <2>7. \A m \in Rows \ {n} : RowInv(m)' /\ RowMoves(m)
      BY <2>1, RowUnchanged DEF AttemptInv, Claim
    <2> QED
      BY <2>5, <2>6, <2>7 DEF RowsMove
  <1> QED
    BY <1>3, <1>4

\* An attempt that ends is logged under its own number: the argument shared by the invocation
\* that made it and the sweep that gives it up.
LEMMA RowsEnded ==
    ASSUME TypeOK, AttemptInv, NEW n \in Rows, NEW due,
           NEW status \in {"SENT_TO_PROVIDER", "QUEUED", "FAILED"},
           NEW k \in Attempts, ntf[n].status = "SENDING", ntf[n].attempts = k,
           status = "QUEUED" => k < MaxAttempts,
           ntf' = Ended(n, status, due),
           log' = [log EXCEPT ![n] = [log[n] EXCEPT ![k] = @ + 1]]
    PROVE  RowsMove
  <1>1. ntf'[n].status = status /\ ntf'[n].attempts = k
    BY DEF Ended, TypeOK
  <1>2. k \in Nat /\ RowInv(n)
    BY Constants DEF Attempts, AttemptInv
  <1>3. log[n] \in [Attempts -> Nat]
    BY DEF TypeOK
  <1>4. log[n][k] = 0
    BY <1>2, Constants DEF RowInv
  <1>5. /\ log'[n][k] = 1
        /\ \A j \in Attempts \ {k} : log'[n][j] = log[n][j]
    BY <1>3, <1>4 DEF TypeOK
  <1>6. RowInv(n)'
    <2>1. \A j \in Attempts : log'[n][j] = IF j < k \/ j = k THEN 1 ELSE 0
      BY <1>2, <1>5 DEF RowInv
    <2> QED
      BY <1>1, <1>2, <2>1 DEF RowInv
  <1>7. RowMoves(n)
    BY <1>1, <1>2 DEF RowMoves
  <1>8. \A m \in Rows \ {n} : RowInv(m)' /\ RowMoves(m)
    BY RowUnchanged DEF AttemptInv, Ended, TypeOK
  <1> QED
    BY <1>6, <1>7, <1>8 DEF RowsMove

LEMMA RowsRecord ==
    ASSUME TypeOK, AttemptInv, NEW r \in Workers, Record(r) PROVE RowsMove
  <1> DEFINE q == req[r]
             n == q.row
  <1>1. /\ n \in Rows /\ q.attempt \in Nat \ {0}
        /\ q.status \in {"SENT_TO_PROVIDER", "QUEUED", "FAILED"}
    BY DeliveryTypes DEF TypeOK, Record
  <1>2. CASE OwnAttempt(n, q.attempt)
    <2>1. /\ ntf' = Ended(n, q.status, q.delay)
          /\ log' = [log EXCEPT ![n] = [log[n] EXCEPT ![q.attempt] = @ + 1]]
      BY <1>2 DEF Record
    <2>2. q.attempt \in Attempts
      <3>1. ntf[n].attempts \in 0..MaxAttempts
        BY <1>1 DEF TypeOK, NotificationRow
      <3> QED
        BY <1>1, <1>2, <3>1, Constants DEF OwnAttempt, Attempts
    <2>3. q.status = "QUEUED" => q.attempt < MaxAttempts
      BY DEF AttemptInv, RetriesAreLeft, Record
    <2> QED
      BY <1>1, <1>2, <2>1, <2>2, <2>3, RowsEnded DEF OwnAttempt
  <1>3. CASE ~OwnAttempt(n, q.attempt)
    BY <1>3, RowsUnchanged DEF Record
  <1> QED
    BY <1>2, <1>3

LEMMA RowsAbandon ==
    ASSUME TypeOK, AttemptInv, NEW c \in Crons, Abandon(c) PROVE RowsMove
  <1>1. PICK n \in Rows, k \in 0..MaxAttempts : AbandonsRow(c, n, k)
    BY AbandonRow
  <1>2. CASE LeaseOver(n, sweep[c].age)
    <2>1. sweep[c].age \in Nat /\ ntf[n].attempts \in Nat /\ ntf[n].lease \in Int
      BY Constants DEF TypeOK, Sweep, NotificationRow
    <2>2. 1 <= k /\ ntf[n].attempts = k
      BY <1>1, <1>2, <2>1 DEF AbandonsRow, AttemptInv, PassesAreCurrent, LeaseOver
    <2>3. k \in Attempts
      BY <2>2, Constants DEF Attempts
    <2>4. AbandonedStatus(n) = "QUEUED" => k < MaxAttempts
      BY <2>2, Constants DEF AbandonedStatus
    <2>5. AbandonedStatus(n) \in {"SENT_TO_PROVIDER", "QUEUED", "FAILED"}
      BY DEF AbandonedStatus
    <2>6. /\ ntf' = Ended(n, AbandonedStatus(n), -sweep[c].age)
          /\ log' = [log EXCEPT ![n] = [log[n] EXCEPT ![k] = @ + 1]]
      BY <1>1, <1>2 DEF AbandonsRow
    <2> QED
      BY <1>2, <2>2, <2>3, <2>4, <2>5, <2>6, RowsEnded DEF LeaseOver
  <1>3. CASE ~LeaseOver(n, sweep[c].age)
    BY <1>1, <1>3, RowsUnchanged DEF AbandonsRow
  <1> QED
    BY <1>2, <1>3

\* A pass goes on, or another one is opened.
LEMMA PassesStay ==
    ASSUME TypeOK, TypeOK', AttemptInv, RowsMove,
           \A c \in Crons : sweep'[c].phase = "abandon" =>
               /\ sweep[c].phase = "abandon" /\ sweep'[c].age = sweep[c].age
               /\ sweep'[c].rows \subseteq sweep[c].rows
    PROVE  PassesAreCurrent'
  <1> SUFFICES ASSUME NEW c \in Crons, sweep'[c].phase = "abandon",
                      NEW n \in Rows, NEW k \in 0..MaxAttempts, <<n, k>> \in sweep'[c].rows
               PROVE  /\ 1 <= k /\ k <= ntf'[n].attempts
                      /\ k < ntf'[n].attempts /\ ntf'[n].status = "SENDING" =>
                             ntf'[n].lease >= -sweep'[c].age
    BY DEF PassesAreCurrent
  <1>1. /\ sweep[c].phase = "abandon" /\ sweep'[c].age = sweep[c].age
        /\ <<n, k>> \in sweep[c].rows
    OBVIOUS
  <1>2. /\ 1 <= k /\ k <= ntf[n].attempts
        /\ k < ntf[n].attempts /\ ntf[n].status = "SENDING" => ntf[n].lease >= -sweep[c].age
    BY <1>1 DEF AttemptInv, PassesAreCurrent
  <1>3. /\ ntf[n].attempts \in Nat /\ ntf'[n].attempts \in Nat /\ sweep[c].age \in Nat
        /\ ntf'[n].lease \in Int
    BY Constants DEF TypeOK, NotificationRow, Sweep
  <1>4. RowMoves(n)
    BY DEF RowsMove
  <1> QED
    BY <1>1, <1>2, <1>3, <1>4, Constants DEF RowMoves

LEMMA PassesTick ==
    ASSUME TypeOK, AttemptInv, Tick PROVE PassesAreCurrent'
  <1> SUFFICES ASSUME NEW c \in Crons, sweep'[c].phase = "abandon",
                      NEW n \in Rows, NEW k \in 0..MaxAttempts, <<n, k>> \in sweep'[c].rows
               PROVE  /\ 1 <= k /\ k <= ntf'[n].attempts
                      /\ k < ntf'[n].attempts /\ ntf'[n].status = "SENDING" =>
                             ntf'[n].lease >= -sweep'[c].age
    BY DEF PassesAreCurrent
  <1>1. sweep[c] \in Sweep
    BY DEF TypeOK
  <1>2. /\ sweep[c].phase = "abandon" /\ <<n, k>> \in sweep[c].rows
        /\ sweep'[c].age = sweep[c].age + 1
    BY <1>1 DEF Tick, Sweep
  <1>3. /\ 1 <= k /\ k <= ntf[n].attempts
        /\ k < ntf[n].attempts /\ ntf[n].status = "SENDING" => ntf[n].lease >= -sweep[c].age
    BY <1>2 DEF AttemptInv, PassesAreCurrent
  <1>4. /\ ntf'[n].status = ntf[n].status /\ ntf'[n].attempts = ntf[n].attempts
        /\ ntf[n].status = "SENDING" => ntf'[n].lease = Down(ntf[n].lease, -MaxAge - 1)
    BY TickedRow
  <1>5. sweep[c].age < MaxAge /\ sweep[c].age \in Nat /\ ntf[n].lease \in Int
    <2>1. ntf[n].lease \in Int
      BY DEF TypeOK, NotificationRow
    <2>2. sweep[c].age \in Nat
      BY <1>1, Constants DEF Sweep
    <2> QED
      BY <1>2, <2>1, <2>2 DEF Tick
  <1> QED
    BY <1>2, <1>3, <1>4, <1>5, Constants DEF Down

LEMMA PassesStart ==
    ASSUME TypeOK, AttemptInv, NEW c \in Crons, SweepStart(c) PROVE PassesAreCurrent'
  <1> SUFFICES ASSUME NEW d \in Crons, sweep'[d].phase = "abandon",
                      NEW n \in Rows, NEW k \in 0..MaxAttempts, <<n, k>> \in sweep'[d].rows
               PROVE  /\ 1 <= k /\ k <= ntf[n].attempts
                      /\ k < ntf[n].attempts /\ ntf[n].status = "SENDING" =>
                             ntf[n].lease >= -sweep'[d].age
    BY DEF PassesAreCurrent, SweepStart
  <1>1. CASE d = c
    <2>1. sweep'[c].rows = Found({m \in Rows : LeaseOver(m, 0)})
      BY DEF TypeOK, SweepStart
    <2>2. k = ntf[n].attempts /\ LeaseOver(n, 0)
      BY <1>1, <2>1 DEF Found
    <2>3. RowInv(n) /\ ntf[n].attempts \in Nat
      BY Constants DEF AttemptInv, TypeOK, NotificationRow
    <2> QED
      BY <2>2, <2>3 DEF RowInv, LeaseOver
  <1>2. CASE d # c
    <2>1. sweep'[d] = sweep[d]
      BY <1>2 DEF TypeOK, SweepStart
    <2> QED
      BY <2>1 DEF AttemptInv, PassesAreCurrent
  <1> QED
    BY <1>1, <1>2

\* A delivery that is about to record an outcome got there by a post.
LEMMA RecordsStay ==
    ASSUME TypeOK, [Next]_vars, ~\E r \in Workers : Post(r),
           NEW w \in Workers, req'[w].op = "record"
    PROVE  req'[w] = req[w]
  <1>1. CASE Tick
    <2>1. ASSUME req[w].op = "load" PROVE FALSE
      <3>1. req[w] \in [op : {"load"}, row : Rows, retries : {0, 1}, wait : Nat]
        BY <2>1 DEF TypeOK, Delivery, Idle
      <3> QED
        BY <1>1, <2>1, <3>1 DEF Tick
    <2> QED
      BY <1>1, <2>1 DEF Tick
  <1>2. ASSUME NEW r \in Workers,
               Happens(r) \/ Queue(r) \/ Load(r) \/ Skip(r) \/ Claim(r) \/ Record(r) \/ Crash(r)
        PROVE  req'[w] = req[w]
    <2>1. CASE Happens(r)
      BY <2>1 DEF TypeOK, Happens, Notify, Idle
    <2>2. CASE Queue(r)
      BY <2>2 DEF TypeOK, Queue, Idle
    <2>3. CASE Load(r)
      BY <2>3 DEF TypeOK, Load, Idle
    <2>4. CASE Claim(r)
      BY <2>4 DEF TypeOK, Claim, Idle
    <2>5. CASE Skip(r) \/ Record(r) \/ Crash(r)
      BY <2>5 DEF TypeOK, Skip, Record, Crash, Idle
    <2> QED
      BY <1>2, <2>1, <2>2, <2>3, <2>4, <2>5
  <1>3. ASSUME NEW c \in Crons, Sweeping(c) PROVE req'[w] = req[w]
    BY <1>3 DEF TypeOK, Sweeping, SweepStart, Abandon, SweepBackfill, Backfill, SweepDue, Deliver
  <1>4. CASE HappensSilently \/ Disconnect \/ UNCHANGED vars
    BY <1>4 DEF HappensSilently, Disconnect, vars
  <1> QED
    BY <1>1, <1>2, <1>3, <1>4 DEF Next, Delivering

LEMMA RetriesStep ==
    ASSUME TypeOK, AttemptInv, Next PROVE RetriesAreLeft'
  <1> SUFFICES ASSUME NEW w \in Workers, req'[w].op = "record", req'[w].status = "QUEUED"
               PROVE  req'[w].attempt < MaxAttempts
    BY DEF RetriesAreLeft
  <1>1. CASE req'[w] = req[w]
    BY <1>1 DEF AttemptInv, RetriesAreLeft
  <1>2. ASSUME NEW r \in Workers, Post(r) PROVE req'[w].attempt < MaxAttempts
    <2>1. CASE w = r
      BY <1>2, <2>1, PostOutcome DEF TypeOK
    <2>2. CASE w # r
      BY <1>1, <1>2, <2>2, PostOutcome DEF TypeOK
    <2> QED
      BY <2>1, <2>2
  <1> QED
    BY <1>1, <1>2, RecordsStay

LEMMA RowsStep ==
    ASSUME TypeOK, AttemptInv, Next, ~Tick PROVE RowsMove
  <1>1. ASSUME NEW r \in Workers, Queue(r) PROVE RowsMove
    <2>1. PICK n \in Rows : n = req[r].row
      BY <1>1, DeliveryTypes DEF TypeOK, Queue
    <2> QED
      BY <1>1, <2>1, InsertInserts, RowsInserted DEF Queue
  <1>2. ASSUME NEW c \in Crons, Backfill(c) PROVE RowsMove
    <2>1. PICK n \in Rows : Insert(n)
      BY <1>2 DEF TypeOK, Sweep, Backfill
    <2> QED
      BY <1>2, <2>1, InsertInserts, RowsInserted DEF Backfill
  <1>3. ASSUME NEW r \in Workers, Happens(r) \/ Load(r) \/ Post(r) \/ Crash(r) PROVE RowsMove
    BY <1>3, RowsUnchanged DEF Happens, Load, Post, Crash
  <1>4. ASSUME NEW c \in Crons, SweepStart(c) \/ SweepBackfill(c) \/ SweepDue(c) \/ Deliver(c)
        PROVE  RowsMove
    BY <1>4, RowsUnchanged DEF SweepStart, SweepBackfill, SweepDue, Deliver
  <1>5. CASE HappensSilently \/ Disconnect
    BY <1>5, RowsUnchanged DEF HappensSilently, Disconnect
  <1> QED
    BY <1>1, <1>2, <1>3, <1>4, <1>5, RowsSkip, RowsClaim, RowsRecord, RowsAbandon
       DEF Next, Delivering, Sweeping

\* Whatever is not the opening of a pass or a tick leaves the passes open or closes them.
LEMMA PassesKept ==
    ASSUME TypeOK, Next, ~Tick, \A c \in Crons : ~SweepStart(c)
    PROVE  \A c \in Crons : sweep'[c].phase = "abandon" =>
               /\ sweep[c].phase = "abandon" /\ sweep'[c].age = sweep[c].age
               /\ sweep'[c].rows \subseteq sweep[c].rows
  <1>1. ASSUME NEW c \in Crons, NEW item, sweep' = [sweep EXCEPT ![c].rows = @ \ {item}],
               NEW d \in Crons, sweep'[d].phase = "abandon"
        PROVE  /\ sweep[d].phase = "abandon" /\ sweep'[d].age = sweep[d].age
               /\ sweep'[d].rows \subseteq sweep[d].rows
    <2>1. sweep[d] \in Sweep
      BY DEF TypeOK
    <2> QED
      BY <1>1, <2>1 DEF TypeOK, Sweep
  <1>2. ASSUME NEW c \in Crons, Abandon(c) \/ Backfill(c) \/ Deliver(c)
        PROVE  \E item : sweep' = [sweep EXCEPT ![c].rows = @ \ {item}]
    BY <1>2 DEF Abandon, Backfill, Deliver
  <1>3. ASSUME NEW c \in Crons, SweepBackfill(c) \/ SweepDue(c),
               NEW d \in Crons, sweep'[d].phase = "abandon"
        PROVE  sweep'[d] = sweep[d]
    BY <1>3 DEF TypeOK, SweepBackfill, SweepDue
  <1>4. ASSUME NEW r \in Workers, Crash(r), NEW d \in Crons, sweep'[d].phase = "abandon"
        PROVE  sweep'[d] = sweep[d]
    BY <1>4 DEF TypeOK, Crash, NoSweep
  <1>5. ASSUME NEW r \in Workers, Happens(r) \/ Delivering(r) PROVE sweep' = sweep
    BY <1>5 DEF Happens, Delivering, Queue, Load, Skip, Claim, Post, Record
  <1>6. CASE HappensSilently \/ Disconnect
    BY <1>6 DEF HappensSilently, Disconnect
  <1> QED
    BY <1>1, <1>2, <1>3, <1>4, <1>5, <1>6 DEF Next, Sweeping

LEMMA AttemptStep ==
    ASSUME TypeOK, TypeOK', AttemptInv, [Next]_vars PROVE AttemptInv'
  <1>1. CASE UNCHANGED vars
    BY <1>1 DEF vars, AttemptInv, RowInv, PassesAreCurrent, RetriesAreLeft
  <1>2. CASE Tick
    <2>1. ASSUME NEW n \in Rows PROVE RowInv(n)'
      BY <1>2, TickedRow DEF AttemptInv, RowInv, Tick
    <2> QED
      BY <1>2, <2>1, PassesTick, RetriesStep DEF AttemptInv, Next
  <1>3. CASE Next /\ ~Tick
    <2>1. \A n \in Rows : RowInv(n)'
      BY <1>3, RowsStep DEF RowsMove
    <2>2. PassesAreCurrent'
      <3>1. CASE \E c \in Crons : SweepStart(c)
        BY <3>1, PassesStart
      <3>2. CASE \A c \in Crons : ~SweepStart(c)
        BY <1>3, <3>2, RowsStep, PassesKept, PassesStay
      <3> QED
        BY <3>1, <3>2
    <2> QED
      BY <1>3, <2>1, <2>2, RetriesStep DEF AttemptInv
  <1> QED
    BY <1>1, <1>2, <1>3

LEMMA AttemptsAreSound == Spec => []AttemptInv
  <1>1. TypeOK /\ AttemptInv /\ [Next]_vars => (TypeOK /\ AttemptInv)'
    BY TypeStep, AttemptStep
  <1> QED
    BY <1>1, TypeInit, AttemptInit, PTL DEF Spec

\* Each attempt is logged once, by its invocation or by a sweep, however late either comes.
THEOREM AttemptsAreLogged == Spec => []EveryAttemptIsLogged
  <1>1. AttemptInv => EveryAttemptIsLogged
    BY DEF AttemptInv, RowInv, EveryAttemptIsLogged
  <1> QED
    BY <1>1, AttemptsAreSound, PTL

\* No row is queued without an attempt left, although handlers decide on what they loaded.
THEOREM QueuedRowsCanBeClaimed == Spec => []QueuedIsClaimable
  <1>1. AttemptInv => QueuedIsClaimable
    BY DEF AttemptInv, RowInv, QueuedIsClaimable
  <1> QED
    BY <1>1, AttemptsAreSound, PTL

-----------------------------------------------------------------------------
(* Resolutions *)

\* A delivery that is about to record a message as sent holds one that Slack accepted.
SentIsAccepted ==
    /\ \A n \in Rows : ntf[n].status = "SENT_TO_PROVIDER" => accepted[n] >= 1
    /\ \A r \in Workers :
        req[r].op = "record" /\ req[r].status = "SENT_TO_PROVIDER" => accepted[req[r].row] >= 1

ResolutionInv == ResolutionsFollowTheReview /\ SentIsAccepted

\* What the review of an approval is asked with.
LEMMA ReviewRow == \A p \in Approvals : <<p, "review_required">> \in Rows
  BY Constants DEF Rows

\* The end of an approval is final: consuming an approved one leaves it approved.
LEMMA ReachedStays ==
    ASSUME TypeOK, [Next]_vars, NEW n \in Rows, n[2] # "review_required", Reached(n[1], n[2])
    PROVE  Reached(n[1], n[2])'
  <1> DEFINE p == n[1]
             e == n[2]
  <1>1. p \in Approvals /\ e \in {"approved", "denied", "expired", "consumed"}
    BY Constants DEF Rows, AllEvents
  <1>2. ap[p] \in {"approved", "denied", "expired", "consumed"}
    BY <1>1 DEF Reached
  <1>3. ap'[p] = ap[p] \/ (ap[p] = "approved" /\ ap'[p] = "consumed")
    <2>1. ASSUME NEW r \in Workers, Happens(r)
          PROVE  ap'[p] = ap[p] \/ (ap[p] = "approved" /\ ap'[p] = "consumed")
      BY <1>1, <1>2, <2>1 DEF TypeOK, Happens
    <2>2. CASE HappensSilently
      BY <1>1, <1>2, <2>2 DEF TypeOK, HappensSilently
    <2>3. ASSUME NEW r \in Workers, Delivering(r) \/ Crash(r) PROVE UNCHANGED ap
      BY <2>3 DEF Delivering, Queue, Load, Skip, Claim, Post, Record, Crash
    <2>4. ASSUME NEW c \in Crons, Sweeping(c) PROVE UNCHANGED ap
      BY <2>4 DEF Sweeping, SweepStart, Abandon, SweepBackfill, Backfill, SweepDue, Deliver
    <2>5. CASE Disconnect \/ Tick \/ UNCHANGED vars
      BY <2>5 DEF Disconnect, Tick, vars
    <2> QED
      BY <2>1, <2>2, <2>3, <2>4, <2>5 DEF Next
  <1> QED
    BY <1>1, <1>3 DEF Reached

\* Messages that Slack accepted stay accepted.
LEMMA AcceptedGrows ==
    ASSUME TypeOK, [Next]_vars, NEW n \in Rows
    PROVE  accepted'[n] \in Nat /\ accepted'[n] >= accepted[n]
  <1>1. accepted[n] \in Nat
    BY DEF TypeOK
  <1>2. ASSUME NEW r \in Workers, Post(r) PROVE accepted'[n] \in Nat /\ accepted'[n] >= accepted[n]
    <2>1. PICK m \in Rows : accepted' = accepted \/ accepted' = [accepted EXCEPT ![m] = @ + 1]
      BY <1>2, PostOutcome
    <2> QED
      BY <1>1, <2>1 DEF TypeOK
  <1>3. ASSUME ~\E r \in Workers : Post(r) PROVE UNCHANGED accepted
    <2>1. ASSUME NEW r \in Workers, Happens(r) \/ Delivering(r) \/ Crash(r) PROVE UNCHANGED accepted
      BY <1>3, <2>1 DEF Happens, Delivering, Queue, Load, Skip, Claim, Record, Crash
    <2>2. ASSUME NEW c \in Crons, Sweeping(c) PROVE UNCHANGED accepted
      BY <2>2 DEF Sweeping, SweepStart, Abandon, SweepBackfill, Backfill, SweepDue, Deliver
    <2> QED
      BY <2>1, <2>2 DEF Next, HappensSilently, Disconnect, Tick, vars
  <1> QED
    BY <1>1, <1>2, <1>3

\* Where the status of a row comes from.
StatusStep(n) ==
    \/ ntf'[n].status = ntf[n].status
    \/ ntf[n].status # "none" /\ ntf'[n].status \in {"SKIPPED", "SENDING", "QUEUED", "FAILED"}
    \/ /\ ntf[n].status = "none" /\ ntf'[n].status = "QUEUED"
       /\ n[2] # "review_required" => EventCondition(n[1], n[2])
    \/ /\ ntf[n].status # "none" /\ ntf'[n].status = "SENT_TO_PROVIDER"
       /\ \E r \in Workers : req[r].op = "record" /\ req[r].status = "SENT_TO_PROVIDER" /\ req[r].row = n

LEMMA StatusInserted ==
    ASSUME TypeOK, NEW m \in Rows, Inserted(m), NEW n \in Rows PROVE StatusStep(n)
  <1>1. CASE n = m
    BY <1>1 DEF Inserted, StatusStep, TypeOK
  <1>2. CASE n # m
    BY <1>2 DEF Inserted, StatusStep, TypeOK
  <1> QED
    BY <1>1, <1>2

LEMMA StatusEnded ==
    ASSUME TypeOK, NEW m \in Rows, NEW status, NEW due, ntf' = Ended(m, status, due),
           NEW n \in Rows
    PROVE  ntf'[n].status = IF n = m THEN status ELSE ntf[n].status
  BY DEF Ended, TypeOK

LEMMA StatusSteps ==
    ASSUME TypeOK, [Next]_vars, NEW n \in Rows PROVE StatusStep(n)
  <1>1. ASSUME NEW r \in Workers, Queue(r) PROVE StatusStep(n)
    <2>1. req[r].row \in Rows /\ Insert(req[r].row)
      BY <1>1, DeliveryTypes DEF TypeOK, Queue
    <2> QED
      BY <2>1, InsertInserts, StatusInserted
  <1>2. ASSUME NEW c \in Crons, Backfill(c) PROVE StatusStep(n)
    <2>1. PICK m \in Rows : Insert(m)
      BY <1>2 DEF TypeOK, Sweep, Backfill
    <2> QED
      BY <2>1, InsertInserts, StatusInserted
  <1>3. ASSUME NEW r \in Workers, Skip(r) PROVE StatusStep(n)
    <2>1. PICK m \in Rows : m = req[r].row
      BY <1>3, DeliveryTypes DEF TypeOK, Skip
    <2>2. CASE n = m /\ ntf[m].status = "QUEUED"
      <3>1. ntf[m] \in NotificationRow
        BY DEF TypeOK
      <3>2. ntf'[n].status = "SKIPPED"
        BY <1>3, <2>1, <2>2, <3>1 DEF Skip, TypeOK, NotificationRow
      <3> QED
        BY <2>2, <3>2 DEF StatusStep
    <2>3. CASE ~(n = m /\ ntf[m].status = "QUEUED")
      BY <1>3, <2>1, <2>3 DEF Skip, TypeOK, StatusStep
    <2> QED
      BY <2>2, <2>3
  <1>4. ASSUME NEW r \in Workers, Claim(r) PROVE StatusStep(n)
    BY <1>4 DEF TypeOK, Claim, Claimable, StatusStep
  <1>5. ASSUME NEW r \in Workers, Record(r) PROVE StatusStep(n)
    <2>1. /\ req[r].op = "record" /\ req[r].row \in Rows
          /\ req[r].status \in {"SENT_TO_PROVIDER", "QUEUED", "FAILED"}
      BY <1>5, DeliveryTypes DEF TypeOK, Record
    <2>2. CASE OwnAttempt(req[r].row, req[r].attempt)
      <3>1. ntf' = Ended(req[r].row, req[r].status, req[r].delay)
        BY <1>5, <2>2 DEF Record
      <3>2. ntf'[n].status = IF n = req[r].row THEN req[r].status ELSE ntf[n].status
        BY <2>1, <3>1, StatusEnded
      <3> QED
        BY <2>1, <2>2, <3>2 DEF OwnAttempt, StatusStep
    <2>3. CASE ~OwnAttempt(req[r].row, req[r].attempt)
      BY <1>5, <2>3 DEF Record, StatusStep
    <2> QED
      BY <2>2, <2>3
  <1>6. ASSUME NEW c \in Crons, Abandon(c) PROVE StatusStep(n)
    <2>1. PICK m \in Rows, k \in 0..MaxAttempts : AbandonsRow(c, m, k)
      BY <1>6, AbandonRow
    <2>2. CASE LeaseOver(m, sweep[c].age)
      <3>1. ntf' = Ended(m, AbandonedStatus(m), -sweep[c].age)
        BY <2>1, <2>2 DEF AbandonsRow
      <3>2. ntf'[n].status = IF n = m THEN AbandonedStatus(m) ELSE ntf[n].status
        BY <3>1, StatusEnded
      <3> QED
        BY <2>2, <3>2 DEF LeaseOver, AbandonedStatus, StatusStep
    <2>3. CASE ~LeaseOver(m, sweep[c].age)
      BY <2>1, <2>3 DEF AbandonsRow, StatusStep
    <2> QED
      BY <2>2, <2>3
  <1>7. ASSUME NEW r \in Workers, Happens(r) \/ Load(r) \/ Post(r) \/ Crash(r) PROVE StatusStep(n)
    BY <1>7 DEF Happens, Load, Post, Crash, StatusStep
  <1>8. ASSUME NEW c \in Crons, SweepStart(c) \/ SweepBackfill(c) \/ SweepDue(c) \/ Deliver(c)
        PROVE  StatusStep(n)
    BY <1>8 DEF SweepStart, SweepBackfill, SweepDue, Deliver, StatusStep
  <1>9. CASE HappensSilently \/ Disconnect \/ UNCHANGED vars
    BY <1>9 DEF HappensSilently, Disconnect, vars, StatusStep
  <1>10. CASE Tick
    BY <1>10, TickedRow DEF StatusStep
  <1> QED
    BY <1>1, <1>2, <1>3, <1>4, <1>5, <1>6, <1>7, <1>8, <1>9, <1>10
       DEF Next, Delivering, Sweeping

\* A delivery is about to record what it was, or what it has just been told.
LEMMA RecordsAreAccepted ==
    ASSUME TypeOK, SentIsAccepted, [Next]_vars, NEW w \in Workers,
           req'[w].op = "record", req'[w].status = "SENT_TO_PROVIDER"
    PROVE  accepted'[req'[w].row] >= 1
  <1>1. ASSUME req'[w] = req[w] PROVE accepted'[req'[w].row] >= 1
    <2>1. req[w].row \in Rows /\ accepted[req[w].row] >= 1
      BY <1>1, DeliveryTypes DEF TypeOK, SentIsAccepted
    <2>2. accepted[req[w].row] \in Nat
      BY <2>1 DEF TypeOK
    <2> QED
      BY <1>1, <2>1, <2>2, AcceptedGrows
  <1>2. ASSUME NEW r \in Workers, Post(r) PROVE accepted'[req'[w].row] >= 1
    <2>1. CASE w = r
      BY <1>2, <2>1, PostOutcome DEF TypeOK
    <2>2. CASE w # r
      BY <1>1, <1>2, <2>2, PostOutcome DEF TypeOK
    <2> QED
      BY <2>1, <2>2
  <1>3. ASSUME ~\E r \in Workers : Post(r) PROVE req'[w] = req[w]
    BY <1>3, RecordsStay
  <1> QED
    BY <1>1, <1>2, <1>3

LEMMA ResolutionInit == Init => ResolutionInv
  BY DEF Init, NoRow, Idle, ResolutionInv, ResolutionsFollowTheReview, SentIsAccepted

LEMMA ResolutionStep ==
    ASSUME TypeOK, ResolutionInv, [Next]_vars PROVE ResolutionInv'
  <1>1. ASSUME NEW n \in Rows, ntf'[n].status = "SENT_TO_PROVIDER" PROVE accepted'[n] >= 1
    <2>1. accepted[n] \in Nat /\ accepted'[n] \in Nat /\ accepted'[n] >= accepted[n]
      BY AcceptedGrows DEF TypeOK
    <2>2. accepted[n] >= 1
      BY <1>1, StatusSteps DEF StatusStep, ResolutionInv, SentIsAccepted
    <2> QED
      BY <2>1, <2>2
  <1>2. SentIsAccepted'
    BY <1>1, RecordsAreAccepted DEF ResolutionInv, SentIsAccepted
  <1>3. ASSUME NEW n \in Rows, n[2] # "review_required", ntf'[n].status # "none"
        PROVE  Reached(n[1], n[2])' /\ accepted'[<<n[1], "review_required">>] >= 1
    <2> DEFINE review == <<n[1], "review_required">>
    <2>1. review \in Rows
      BY ReviewRow DEF Rows
    <2>2. Reached(n[1], n[2]) /\ accepted[review] >= 1
      <3>1. CASE ntf[n].status # "none"
        BY <1>3, <3>1 DEF ResolutionInv, ResolutionsFollowTheReview
      <3>2. CASE ntf[n].status = "none"
        <4>1. EventCondition(n[1], n[2])
          BY <1>3, <3>2, StatusSteps DEF StatusStep
        <4> QED
          BY <1>3, <2>1, <4>1 DEF EventCondition, InitialSent, ResolutionInv, SentIsAccepted
      <3> QED
        BY <3>1, <3>2
    <2>3. accepted[review] \in Nat /\ accepted'[review] \in Nat /\ accepted'[review] >= accepted[review]
      BY <2>1, AcceptedGrows DEF TypeOK
    <2> QED
      BY <1>3, <2>2, <2>3, ReachedStays
  <1> QED
    BY <1>2, <1>3 DEF ResolutionInv, ResolutionsFollowTheReview

\* Nobody hears of an end that is not the approval's, nor of one whose review was never asked for.
THEOREM ResolutionsAreTrue == Spec => []ResolutionsFollowTheReview
  <1>1. ResolutionInv => ResolutionsFollowTheReview
    BY DEF ResolutionInv
  <1>2. TypeOK /\ ResolutionInv /\ [Next]_vars => (TypeOK /\ ResolutionInv)'
    BY TypeStep, ResolutionStep
  <1> QED
    BY <1>1, <1>2, TypeInit, ResolutionInit, PTL DEF Spec

----------------------------------------------------------------------------
(***************************************************************************)
(* SecurityAlerts: every attempt to send an alert is logged exactly once. What *)
(* a pass found abandoned is either still the attempt it saw, or was claimed   *)
(* again since and has a lease that the clock of the pass does not see run    *)
(* out.                                                                    *)
(***************************************************************************)

LEMMA Outlasts ==
    /\ MaxAlertAttempts \in Nat /\ AlertLease \in Nat /\ MaxPassAge \in Nat /\ AlertBackoff \in Nat
    /\ AlertRetryAfters \subseteq Nat
    /\ MaxPassAge <= AlertLease
  BY AlertsAssumption

AlertStatuses == {"none", "QUEUED", "SENDING"} \cup EndedAlerts
AlertRows == [status : AlertStatuses, attempts : 0..MaxAlertAttempts, due : Int, lease : Int]

RowOK(a) == alert[a].status = "SENDING" => alert[a].attempts > 0

LoggedOnce(a) ==
    \A k \in 1..MaxAlertAttempts :
        attempted[a][k] =
            IF k < alert[a].attempts \/ (k = alert[a].attempts /\ alert[a].status # "SENDING") THEN 1 ELSE 0

\* A row that a pass found abandoned at attempt k, by a clock of that age.
StaleOK(a, k, age) ==
    /\ k \in 1..alert[a].attempts
    /\ alert[a].status = "SENDING" /\ k # alert[a].attempts => alert[a].lease >= -age

PassOK(q) ==
    /\ q.stage \in {"none", "abandon", "next", "skip", "claim", "post", "record"}
    /\ q.stage = "abandon" =>
          /\ q = [stage |-> "abandon", age |-> q.age, stale |-> q.stale]
          /\ q.age \in 0..MaxPassAge
          /\ \A item \in q.stale :
                item[1] \in Alerts /\ StaleOK(item[1], item[2], q.age)
    /\ q.stage \in {"next", "skip", "claim", "post", "record"} => q.todo \subseteq Alerts
    /\ q.stage \in {"skip", "claim", "post", "record"} => q.alert \in Alerts
    /\ q.stage = "record" => q.status \in {"QUEUED"} \cup EndedAlerts /\ q.due \in Int

AlertInv ==
    /\ alert \in [Alerts -> AlertRows]
    /\ attempted \in [Alerts -> [1..MaxAlertAttempts -> Nat]]
    /\ DOMAIN pass = Passes
    /\ \A a \in Alerts : RowOK(a) /\ LoggedOnce(a)
    /\ \A w \in Passes : PassOK(pass[w])

----------------------------------------------------------------------------

LEMMA AlertInitInv == ASSUME AlertInit PROVE AlertInv
BY Outlasts DEF AlertInit, AlertInv, AlertRows, AlertStatuses, EndedAlerts, Unqueued, NotRunning, RowOK, LoggedOnce, PassOK

(***************************************************************************)
(* One row changes: `StaleOK' survives if its attempts do not go back, and   *)
(* every new attempt has a lease that no clock in use sees run out.          *)
(***************************************************************************)
LEMMA RowChange ==
    ASSUME AlertInv, NEW a \in Alerts, NEW row \in AlertRows,
           alert' = [alert EXCEPT ![a] = row],
           row.attempts >= alert[a].attempts,
           row.status = "SENDING" => row.lease >= 0 \/ row = alert[a]
    PROVE  /\ alert' \in [Alerts -> AlertRows]
           /\ \A b \in Alerts, k \in Nat, age \in 0..MaxPassAge : StaleOK(b, k, age) => StaleOK(b, k, age)'
<1>1. /\ alert' \in [Alerts -> AlertRows] /\ alert'[a] = row
      /\ \A b \in Alerts : b # a => alert'[b] = alert[b]
  BY DEF AlertInv
<1>2. ASSUME NEW k \in Nat, NEW age \in 0..MaxPassAge, StaleOK(a, k, age)
      PROVE  StaleOK(a, k, age)'
  <2>1. alert[a] \in AlertRows /\ row.attempts \in Nat /\ alert[a].attempts \in Nat /\ row.lease \in Int
    BY DEF AlertInv, AlertRows
  <2>2. k \in 1..row.attempts
    BY <1>2, <2>1 DEF StaleOK
  <2>3. row.status = "SENDING" /\ k # row.attempts => row.lease >= -age
    BY <1>2, <2>1, Outlasts DEF StaleOK
  <2>4. QED
    BY <1>1, <2>2, <2>3 DEF StaleOK
<1>3. ASSUME NEW b \in Alerts, b # a, NEW k \in Nat, NEW age \in 0..MaxPassAge, StaleOK(b, k, age)
      PROVE  StaleOK(b, k, age)'
  BY <1>1, <1>3 DEF StaleOK
<1>4. QED
  BY <1>1, <1>2, <1>3

\* The other invocations do not notice.
LEMMA OtherPasses ==
    ASSUME AlertInv, NEW w \in Passes, NEW q, Goes(w, q), PassOK(q)',
           \A b \in Alerts, k \in Nat, age \in 0..MaxPassAge : StaleOK(b, k, age) => StaleOK(b, k, age)'
    PROVE  DOMAIN pass' = Passes /\ \A v \in Passes : PassOK(pass[v])'
<1>1. DOMAIN pass' = Passes /\ pass'[w] = q /\ \A v \in Passes : v # w => pass'[v] = pass[v]
  BY DEF AlertInv, Goes
<1>2. ASSUME NEW v \in Passes, v # w
      PROVE  PassOK(pass[v])'
  <2>1. pass'[v] = pass[v] /\ PassOK(pass[v])
    BY <1>1, <1>2 DEF AlertInv
  <2>2. ASSUME pass[v].stage = "abandon", NEW item \in pass[v].stale
        PROVE  StaleOK(item[1], item[2], pass[v].age)'
    <3>1. /\ item[1] \in Alerts /\ pass[v].age \in 0..MaxPassAge
          /\ StaleOK(item[1], item[2], pass[v].age)
      BY <2>1, <2>2 DEF PassOK
    <3>2. item[2] \in Nat
      BY <3>1 DEF StaleOK, AlertInv, AlertRows
    <3>3. QED
      BY <2>1, <3>1, <3>2 DEF StaleOK
  <2>3. QED
    BY <2>1, <2>2 DEF PassOK
<1>3. QED
  BY <1>1, <1>2

\* A step of an invocation that changes no row.
LEMMA PassStep ==
    ASSUME AlertInv, NEW w \in Passes, NEW q, Goes(w, q), PassOK(q), UNCHANGED <<alert, attempted>>
    PROVE  AlertInv'
<1>1. \A b, k, age : StaleOK(b, k, age)' <=> StaleOK(b, k, age)
  BY DEF StaleOK
<1>2. PassOK(q)'
  BY <1>1 DEF PassOK
<1>3. \A a \in Alerts : RowOK(a)' /\ LoggedOnce(a)'
  BY DEF AlertInv, RowOK, LoggedOnce
<1>4. QED
  BY <1>1, <1>2, <1>3, OtherPasses DEF AlertInv

\* A step of an invocation that changes one row, and leaves or logs its attempt.
LEMMA RowStep ==
    ASSUME AlertInv, NEW w \in Passes, NEW q, Goes(w, q),
           q.stage = "abandon" =>
               /\ q = [stage |-> "abandon", age |-> q.age, stale |-> q.stale]
               /\ q.age \in 0..MaxPassAge
               /\ \A item \in q.stale : item[1] \in Alerts /\ StaleOK(item[1], item[2], q.age),
           q.stage # "abandon" => q.stage \in {"next", "post"} /\ q.todo \subseteq Alerts
                                  /\ (q.stage = "post" => q.alert \in Alerts),
           NEW a \in Alerts, NEW row \in AlertRows,
           alert' = [alert EXCEPT ![a] = row],
           row.attempts >= alert[a].attempts,
           row.status = "SENDING" => row.attempts > 0 /\ row.lease >= 0,
           attempted' \in [Alerts -> [1..MaxAlertAttempts -> Nat]],
           LoggedOnce(a)',
           \A b \in Alerts : b # a => attempted'[b] = attempted[b]
    PROVE  AlertInv'
<1>1. /\ alert' \in [Alerts -> AlertRows] /\ alert'[a] = row
      /\ \A b \in Alerts : b # a => alert'[b] = alert[b]
      /\ \A b \in Alerts, k \in Nat, age \in 0..MaxPassAge : StaleOK(b, k, age) => StaleOK(b, k, age)'
  BY RowChange DEF AlertInv
<1>2. \A b \in Alerts : RowOK(b)' /\ LoggedOnce(b)'
  BY <1>1 DEF AlertInv, RowOK, LoggedOnce
<1>3. PassOK(q)'
  <2>1. ASSUME q.stage = "abandon", NEW item \in q.stale
        PROVE  item[1] \in Alerts /\ StaleOK(item[1], item[2], q.age)'
    <3>1. item[1] \in Alerts /\ q.age \in 0..MaxPassAge /\ StaleOK(item[1], item[2], q.age)
      BY <2>1
    <3>2. item[2] \in Nat
      BY <3>1 DEF StaleOK, AlertInv, AlertRows
    <3>3. QED
      BY <1>1, <3>1, <3>2
  <2>2. QED
    BY <2>1 DEF PassOK
<1>4. QED
  BY <1>1, <1>2, <1>3, OtherPasses DEF AlertInv

\* One more row in the log of attempt n.
LEMMA Logging ==
    ASSUME AlertInv, NEW a \in Alerts, NEW n \in 1..MaxAlertAttempts, Logs(a, n)
    PROVE  /\ attempted' \in [Alerts -> [1..MaxAlertAttempts -> Nat]]
           /\ \A b \in Alerts : b # a => attempted'[b] = attempted[b]
           /\ \A k \in 1..MaxAlertAttempts :
                 attempted'[a][k] = IF k = n THEN attempted[a][k] + 1 ELSE attempted[a][k]
<1>1. attempted \in [Alerts -> [1..MaxAlertAttempts -> Nat]]
  BY DEF AlertInv
<1>2. PICK h : h = attempted[a]
  OBVIOUS
<1>3. h \in [1..MaxAlertAttempts -> Nat] /\ h[n] \in Nat
  BY <1>1, <1>2
<1>4. PICK f : f = [h EXCEPT ![n] = h[n] + 1]
  OBVIOUS
<1>5. /\ f \in [1..MaxAlertAttempts -> Nat]
      /\ \A k \in 1..MaxAlertAttempts : f[k] = IF k = n THEN h[k] + 1 ELSE h[k]
  BY <1>3, <1>4
<1>6. attempted' = [attempted EXCEPT ![a] = f]
  BY <1>2, <1>4 DEF Logs
<1>7. QED
  BY <1>1, <1>2, <1>5, <1>6

\* The attempt under way ends and is logged.
LEMMA LogsLast ==
    ASSUME AlertInv, NEW a \in Alerts, NEW n \in 1..MaxAlertAttempts, Logs(a, n),
           alert[a].attempts = n, alert[a].status = "SENDING",
           NEW row \in AlertRows, alert' = [alert EXCEPT ![a] = row], row.attempts = n, row.status # "SENDING"
    PROVE  LoggedOnce(a)'
<1>1. alert'[a] = row
  BY DEF AlertInv
<1>2. ASSUME NEW k \in 1..MaxAlertAttempts
      PROVE  attempted'[a][k] = IF k < n \/ k = n THEN 1 ELSE 0
  <2>1. attempted[a][k] = IF k < n THEN 1 ELSE 0
    BY DEF AlertInv, LoggedOnce
  <2>2. attempted'[a][k] = IF k = n THEN attempted[a][k] + 1 ELSE attempted[a][k]
    BY Logging
  <2>3. QED
    BY <2>1, <2>2
<1>3. QED
  BY <1>1, <1>2 DEF LoggedOnce

----------------------------------------------------------------------------
(* The actions *)

LEMMA QueueAlertInv == ASSUME AlertInv, QueueAlert PROVE AlertInv'
<1>1. PICK a \in Alerts : alert[a] = Unqueued /\ alert' = [alert EXCEPT ![a].status = "QUEUED"]
  BY DEF QueueAlert
<1>2. PICK row : row = [Unqueued EXCEPT !.status = "QUEUED"]
  OBVIOUS
<1>3. alert' = [alert EXCEPT ![a] = row]
  BY <1>1, <1>2
<1>4. /\ row \in AlertRows /\ row.attempts = 0 /\ row.status = "QUEUED"
      /\ alert[a].attempts = 0 /\ alert[a].status = "none"
  BY <1>1, <1>2, Outlasts DEF AlertRows, AlertStatuses, Unqueued
<1>5. /\ alert' \in [Alerts -> AlertRows] /\ alert'[a] = row
      /\ \A b \in Alerts : b # a => alert'[b] = alert[b]
      /\ \A b \in Alerts, k \in Nat, age \in 0..MaxPassAge : StaleOK(b, k, age) => StaleOK(b, k, age)'
  <2>1. row.attempts >= alert[a].attempts /\ row.status # "SENDING"
    BY <1>4
  <2>2. alert' \in [Alerts -> AlertRows]
        /\ \A b \in Alerts, k \in Nat, age \in 0..MaxPassAge : StaleOK(b, k, age) => StaleOK(b, k, age)'
    BY <1>3, <1>4, <2>1, RowChange
  <2>3. QED
    BY <1>3, <2>2 DEF AlertInv
<1>6. UNCHANGED <<attempted, pass>>
  BY DEF QueueAlert
<1>7. \A b \in Alerts : RowOK(b)' /\ LoggedOnce(b)'
  BY <1>4, <1>5, <1>6 DEF AlertInv, RowOK, LoggedOnce
<1>8. ASSUME NEW v \in Passes
      PROVE  PassOK(pass[v])'
  <2>1. pass'[v] = pass[v] /\ PassOK(pass[v])
    BY <1>6 DEF AlertInv
  <2>2. ASSUME pass[v].stage = "abandon", NEW item \in pass[v].stale
        PROVE  StaleOK(item[1], item[2], pass[v].age)'
    <3>1. /\ item[1] \in Alerts /\ pass[v].age \in 0..MaxPassAge
          /\ StaleOK(item[1], item[2], pass[v].age)
      BY <2>1, <2>2 DEF PassOK
    <3>2. item[2] \in Nat
      BY <3>1 DEF StaleOK, AlertInv, AlertRows
    <3>3. QED
      BY <1>5, <2>1, <3>1, <3>2 DEF StaleOK
  <2>3. QED
    BY <2>1, <2>2 DEF PassOK
<1>9. QED
  BY <1>5, <1>6, <1>7, <1>8 DEF AlertInv

LEMMA BeginPassInv == ASSUME AlertInv, NEW w \in Passes, BeginPass(w) PROVE AlertInv'
<1>1. PICK q : q = [stage |-> "abandon", age |-> 0,
                    stale |-> {<<a, alert[a].attempts>> : a \in {b \in Alerts : LeaseRanOut(b, 0)}}]
  OBVIOUS
<1>2. q.stage = "abandon" /\ q.age = 0 /\ q = [stage |-> "abandon", age |-> q.age, stale |-> q.stale]
      /\ q.stale = {<<a, alert[a].attempts>> : a \in {b \in Alerts : LeaseRanOut(b, 0)}}
  BY <1>1
<1>3. ASSUME NEW item \in q.stale
      PROVE  item[1] \in Alerts /\ StaleOK(item[1], item[2], 0)
  <2>1. PICK a \in Alerts : LeaseRanOut(a, 0) /\ item = <<a, alert[a].attempts>>
    BY <1>2
  <2>2. alert[a].attempts \in 1..alert[a].attempts
    BY <2>1 DEF AlertInv, AlertRows, RowOK, LeaseRanOut
  <2>3. QED
    BY <2>1, <2>2 DEF StaleOK
<1>4. PassOK(q)
  BY <1>2, <1>3, Outlasts DEF PassOK
<1>5. Goes(w, q) /\ UNCHANGED <<alert, attempted>>
  BY <1>1 DEF BeginPass
<1>6. QED
  BY <1>4, <1>5, PassStep

\* The one step that logs an attempt which another invocation made.
LEMMA AbandonAlertInv == ASSUME AlertInv, NEW w \in Passes, AbandonAlert(w) PROVE AlertInv'
<1>1. PICK p : p = pass[w]
  OBVIOUS
<1>2. /\ PassOK(p) /\ p.stage = "abandon"
      /\ p = [stage |-> "abandon", age |-> p.age, stale |-> p.stale] /\ p.age \in 0..MaxPassAge
      /\ \A item \in p.stale : item[1] \in Alerts /\ StaleOK(item[1], item[2], p.age)
  BY <1>1 DEF AlertInv, PassOK, AbandonAlert
<1>3. PICK item \in p.stale :
        /\ IF LeaseRanOut(item[1], p.age)
           THEN /\ alert' = [alert EXCEPT ![item[1]] = EndedRow(item[1], AfterAbandon(item[1]), -p.age)]
                /\ Logs(item[1], item[2])
           ELSE UNCHANGED <<alert, attempted>>
        /\ Goes(w, [p EXCEPT !.stale = @ \ {item}])
  BY <1>1 DEF AbandonAlert
<1>4. PICK q : q = [p EXCEPT !.stale = @ \ {item}]
  OBVIOUS
<1>5. /\ q.stage = "abandon" /\ q.age = p.age /\ q.stale = p.stale \ {item}
      /\ q = [stage |-> "abandon", age |-> q.age, stale |-> q.stale]
  BY <1>2, <1>4
<1>6. PICK a : a = item[1]
  OBVIOUS
<1>7. a \in Alerts /\ StaleOK(a, item[2], p.age) /\ alert[a] \in AlertRows
  BY <1>2, <1>6 DEF AlertInv
<1>8. CASE ~LeaseRanOut(a, p.age)
  BY <1>2, <1>3, <1>4, <1>5, <1>6, <1>8, PassStep DEF PassOK
<1>9. CASE LeaseRanOut(a, p.age)
  <2>1. item[2] = alert[a].attempts /\ item[2] \in 1..MaxAlertAttempts /\ alert[a].status = "SENDING"
    BY <1>2, <1>7, <1>9, Outlasts DEF StaleOK, LeaseRanOut, AlertRows
  <2>2. PICK row : row = EndedRow(a, AfterAbandon(a), -p.age)
    OBVIOUS
  <2>3. row \in AlertRows /\ row.attempts = alert[a].attempts /\ row.status \in {"FAILED", "QUEUED"}
    BY <1>2, <1>7, <2>2, Outlasts DEF EndedRow, AfterAbandon, AlertRows, AlertStatuses, EndedAlerts
  <2>4. /\ alert' = [alert EXCEPT ![a] = row]
        /\ Logs(a, item[2])
        /\ Goes(w, q)
    BY <1>3, <1>4, <1>6, <1>9, <2>2
  <2>5. LoggedOnce(a)'
    BY <1>7, <2>1, <2>3, <2>4, LogsLast
  <2>6. \A i \in q.stale : i[1] \in Alerts /\ StaleOK(i[1], i[2], q.age)
    BY <1>2, <1>5
  <2>7. row.attempts >= alert[a].attempts /\ row.status # "SENDING"
    BY <1>7, <2>3 DEF AlertRows
  <2>8. QED
    BY <1>2, <1>5, <1>7, <2>1, <2>3, <2>4, <2>5, <2>6, <2>7, Logging, RowStep
<1>10. QED
  BY <1>8, <1>9

LEMMA SelectDueInv == ASSUME AlertInv, NEW w \in Passes, SelectDue(w) PROVE AlertInv'
<1>1. PICK q : q = [stage |-> "next",
                    todo |-> {a \in Alerts : alert[a].status = "QUEUED" /\ alert[a].due <= -pass[w].age}]
  OBVIOUS
<1>2. PassOK(q)
  BY <1>1 DEF PassOK
<1>3. QED
  BY <1>1, <1>2, PassStep DEF SelectDue

\* On to the other alerts of the pass.
LEMMA GoesOn ==
    ASSUME AlertInv, NEW w \in Passes, pass[w].stage \in {"next", "skip", "claim", "post", "record"}
    PROVE  /\ PassOK(OtherAlerts(w)) /\ OtherAlerts(w).stage = "next" /\ OtherAlerts(w).todo \subseteq Alerts
           /\ pass[w].todo \subseteq Alerts
BY DEF AlertInv, PassOK, OtherAlerts

LEMMA LoadAlertInv == ASSUME AlertInv, NEW w \in Passes, LoadAlert(w) PROVE AlertInv'
<1>1. pass[w].todo \subseteq Alerts
  BY GoesOn DEF LoadAlert
<1>2. PICK a \in pass[w].todo :
        LET rest == pass[w].todo \ {a} IN
        Goes(w, IF alert[a].status # "QUEUED" THEN [stage |-> "next", todo |-> rest]
                ELSE IF ~alertsOn THEN [stage |-> "skip", todo |-> rest, alert |-> a]
                ELSE [stage |-> "claim", todo |-> rest, alert |-> a, seen |-> alert[a].attempts])
  BY DEF LoadAlert
<1>3. PICK rest : rest = pass[w].todo \ {a}
  OBVIOUS
<1>4. a \in Alerts /\ rest \subseteq Alerts
  BY <1>1, <1>3
<1>5. /\ PassOK([stage |-> "next", todo |-> rest])
      /\ PassOK([stage |-> "skip", todo |-> rest, alert |-> a])
      /\ PassOK([stage |-> "claim", todo |-> rest, alert |-> a, seen |-> alert[a].attempts])
  BY <1>4 DEF PassOK
<1>6. PICK q : Goes(w, q) /\ PassOK(q)
  BY <1>2, <1>3, <1>5
<1>7. UNCHANGED <<alert, attempted>>
  BY DEF LoadAlert
<1>8. QED
  BY <1>6, <1>7, PassStep

LEMMA SkipAlertInv == ASSUME AlertInv, NEW w \in Passes, SkipAlert(w) PROVE AlertInv'
<1>1. PICK a : a = pass[w].alert
  OBVIOUS
<1>2. a \in Alerts /\ alert[a] \in AlertRows
  BY <1>1 DEF AlertInv, PassOK, SkipAlert
<1>3. PICK q : q = OtherAlerts(w)
  OBVIOUS
<1>4. PassOK(q) /\ q.stage = "next" /\ q.todo \subseteq Alerts /\ Goes(w, q) /\ attempted' = attempted
  BY <1>3, GoesOn DEF SkipAlert
<1>5. CASE alert[a].status = "QUEUED"
  <2>1. PICK row : row = [alert[a] EXCEPT !.status = "SKIPPED"]
    OBVIOUS
  <2>2. row \in AlertRows /\ row.attempts = alert[a].attempts /\ row.status = "SKIPPED"
    BY <1>2, <2>1 DEF AlertRows, AlertStatuses, EndedAlerts
  <2>3. alert' = [alert EXCEPT ![a] = row]
    BY <1>1, <1>5, <2>1 DEF SkipAlert
  <2>4. alert'[a] = row
    BY <1>2, <2>3 DEF AlertInv
  <2>5. LoggedOnce(a)' /\ row.attempts >= alert[a].attempts
    BY <1>2, <1>4, <1>5, <2>2, <2>4 DEF AlertInv, LoggedOnce, AlertRows
  <2>6. attempted' \in [Alerts -> [1..MaxAlertAttempts -> Nat]]
    BY <1>4 DEF AlertInv
  <2>7. QED
    BY <1>2, <1>4, <2>2, <2>3, <2>5, <2>6, RowStep
<1>6. CASE alert[a].status # "QUEUED"
  <2>1. alert' = alert
    BY <1>1, <1>6 DEF SkipAlert
  <2>2. QED
    BY <1>4, <2>1, PassStep
<1>7. QED
  BY <1>5, <1>6

\* A new attempt, with a lease that no clock in use sees run out.
LEMMA ClaimAlertInv == ASSUME AlertInv, NEW w \in Passes, ClaimAlert(w) PROVE AlertInv'
<1>1. PICK a : a = pass[w].alert
  OBVIOUS
<1>2. a \in Alerts /\ alert[a] \in AlertRows /\ pass[w].todo \subseteq Alerts /\ PassOK(OtherAlerts(w))
  BY <1>1, GoesOn DEF AlertInv, PassOK, ClaimAlert
<1>3. attempted' = attempted /\ attempted' \in [Alerts -> [1..MaxAlertAttempts -> Nat]]
  BY DEF ClaimAlert, AlertInv
<1>4. PICK age \in 0..MaxPassAge :
        IF Claims(a, age)
        THEN /\ alert' = [alert EXCEPT ![a] =
                             [status |-> "SENDING", attempts |-> @.attempts + 1, due |-> 0,
                              lease |-> AlertLease - age]]
             /\ Goes(w, [stage |-> "post", todo |-> pass[w].todo, alert |-> a, attempt |-> pass[w].seen + 1])
        ELSE Goes(w, OtherAlerts(w)) /\ UNCHANGED alert
  BY <1>1 DEF ClaimAlert
<1>5. CASE ~Claims(a, age)
  BY <1>2, <1>3, <1>4, <1>5, PassStep
<1>6. CASE Claims(a, age)
  <2>1. PICK row : row = [status |-> "SENDING", attempts |-> alert[a].attempts + 1, due |-> 0,
                          lease |-> AlertLease - age]
    OBVIOUS
  <2>2. /\ row \in AlertRows /\ row.attempts = alert[a].attempts + 1 /\ row.status = "SENDING"
        /\ row.attempts > 0 /\ row.lease >= 0 /\ row.attempts >= alert[a].attempts
        /\ alert[a].status = "QUEUED" /\ alert[a].attempts \in Nat
    BY <1>2, <1>6, <2>1, Outlasts DEF Claims, AlertRows, AlertStatuses
  <2>3. alert' = [alert EXCEPT ![a] = row]
    BY <1>4, <1>6, <2>1
  <2>4. alert'[a] = row
    BY <1>2, <2>3 DEF AlertInv
  <2>5. LoggedOnce(a)'
    BY <1>2, <1>3, <2>2, <2>4 DEF AlertInv, LoggedOnce
  <2>6. PICK q : q = [stage |-> "post", todo |-> pass[w].todo, alert |-> a, attempt |-> pass[w].seen + 1]
    OBVIOUS
  <2>7. q.stage = "post" /\ q.todo \subseteq Alerts /\ q.alert \in Alerts /\ Goes(w, q)
    BY <1>2, <1>4, <1>6, <2>6
  <2>8. QED
    BY <1>2, <1>3, <2>2, <2>3, <2>5, <2>7, RowStep
<1>7. QED
  BY <1>5, <1>6

LEMMA PostAlertInv == ASSUME AlertInv, NEW w \in Passes, PostAlert(w) PROVE AlertInv'
<1>1. pass[w].todo \subseteq Alerts /\ pass[w].alert \in Alerts
  BY DEF AlertInv, PassOK, PostAlert
<1>2. PICK status, due :
        /\ status \in {"QUEUED"} \cup EndedAlerts /\ due \in Int
        /\ Goes(w, [stage |-> "record", todo |-> pass[w].todo, alert |-> pass[w].alert,
                    attempt |-> pass[w].attempt, status |-> status, due |-> due])
  <2>1. \/ Goes(w, [stage |-> "record", todo |-> pass[w].todo, alert |-> pass[w].alert,
                    attempt |-> pass[w].attempt, status |-> "SENT_TO_PROVIDER", due |-> 0])
        \/ Goes(w, [stage |-> "record", todo |-> pass[w].todo, alert |-> pass[w].alert,
                    attempt |-> pass[w].attempt, status |-> "FAILED", due |-> 0])
        \/ \E due \in Int :
             Goes(w, [stage |-> "record", todo |-> pass[w].todo, alert |-> pass[w].alert,
                      attempt |-> pass[w].attempt, status |-> "QUEUED", due |-> due])
    <3>1. \A after \in AlertRetryAfters : (IF after > AlertBackoff THEN after ELSE AlertBackoff) \in Int
      BY Outlasts
    <3>2. QED
      BY <3>1 DEF PostAlert
  <2>2. "SENT_TO_PROVIDER" \in EndedAlerts /\ "FAILED" \in EndedAlerts /\ 0 \in Int
    BY DEF EndedAlerts
  <2>3. QED
    BY <2>1, <2>2
<1>3. PassOK([stage |-> "record", todo |-> pass[w].todo, alert |-> pass[w].alert,
              attempt |-> pass[w].attempt, status |-> status, due |-> due])
  BY <1>1, <1>2 DEF PassOK
<1>4. QED
  BY <1>2, <1>3, PassStep DEF PostAlert

\* An invocation logs its own attempt, if that is still the one under way.
LEMMA RecordAlertInv == ASSUME AlertInv, NEW w \in Passes, RecordAlert(w) PROVE AlertInv'
<1>1. PICK p : p = pass[w]
  OBVIOUS
<1>2. PICK a : a = p.alert
  OBVIOUS
<1>3. /\ a \in Alerts /\ alert[a] \in AlertRows /\ p.status \in {"QUEUED"} \cup EndedAlerts /\ p.due \in Int
  BY <1>1, <1>2 DEF AlertInv, PassOK, RecordAlert
<1>4. PICK q : q = OtherAlerts(w)
  OBVIOUS
<1>5. PassOK(q) /\ q.stage = "next" /\ q.todo \subseteq Alerts /\ Goes(w, q)
  BY <1>4, GoesOn DEF RecordAlert
<1>6. CASE ~OwnSend(a, p.attempt)
  BY <1>1, <1>2, <1>5, <1>6, PassStep DEF RecordAlert
<1>7. CASE OwnSend(a, p.attempt)
  <2>1. PICK n : n = alert[a].attempts
    OBVIOUS
  <2>2. n = p.attempt /\ n \in 1..MaxAlertAttempts /\ alert[a].status = "SENDING"
    <3>1. n = p.attempt /\ alert[a].status = "SENDING"
      BY <1>7, <2>1 DEF OwnSend
    <3>2. n \in 0..MaxAlertAttempts /\ n > 0
      BY <1>3, <2>1, <3>1 DEF AlertInv, RowOK, AlertRows
    <3>3. QED
      BY <3>1, <3>2, Outlasts
  <2>3. PICK row : row = EndedRow(a, p.status, p.due)
    OBVIOUS
  <2>4. row \in AlertRows /\ row.attempts = n /\ row.status # "SENDING"
    BY <1>3, <2>1, <2>3 DEF EndedRow, AlertRows, AlertStatuses, EndedAlerts
  <2>5. alert' = [alert EXCEPT ![a] = row] /\ Logs(a, n)
    BY <1>1, <1>2, <1>7, <2>2, <2>3 DEF RecordAlert
  <2>6. LoggedOnce(a)'
    BY <1>3, <2>1, <2>2, <2>4, <2>5, LogsLast
  <2>7. row.attempts >= alert[a].attempts
    BY <2>1, <2>2, <2>4
  <2>8. QED
    BY <1>3, <1>5, <2>2, <2>4, <2>5, <2>6, <2>7, Logging, RowStep
<1>8. QED
  BY <1>6, <1>7

LEMMA LoseInv == ASSUME AlertInv, NEW w \in Passes, Lose(w) PROVE AlertInv'
<1>1. PassOK(NotRunning)
  BY DEF PassOK, NotRunning
<1>2. PICK q : Goes(w, q) /\ PassOK(q)
  <2>1. CASE Goes(w, NotRunning)
    BY <1>1, <2>1
  <2>2. CASE pass[w].stage \notin {"abandon", "next"} /\ Goes(w, OtherAlerts(w))
    <3>1. pass[w].stage \in {"skip", "claim", "post", "record"}
      BY <2>2 DEF AlertInv, PassOK, Lose, Resting
    <3>2. QED
      BY <2>2, <3>1, GoesOn
  <2>3. QED
    BY <2>1, <2>2 DEF Lose
<1>3. QED
  BY <1>2, PassStep DEF Lose

\* The lease and the clock of a pass run down and up together.
LEMMA ClockTicksInv == ASSUME AlertInv, ClockTicks PROVE AlertInv'
<1>1. UNCHANGED attempted
  BY DEF ClockTicks
<1>2. \A w \in Passes : pass[w].stage = "abandon" => pass[w].age < MaxPassAge
  BY DEF ClockTicks
<1>3. DOMAIN pass' = Passes
  BY DEF ClockTicks
<1>4. ASSUME NEW a \in Alerts
      PROVE  /\ alert'[a] \in AlertRows
             /\ alert'[a].status = alert[a].status /\ alert'[a].attempts = alert[a].attempts
             /\ \A age \in 0..(MaxPassAge - 1) :
                   alert[a].status = "SENDING" /\ alert[a].lease >= -age => alert'[a].lease >= -(age + 1)
  <2>1. PICK row : row = alert[a]
    OBVIOUS
  <2>2. row \in AlertRows /\ row.due \in Int /\ row.lease \in Int
    BY <2>1 DEF AlertInv, AlertRows
  <2>3. PICK due, lease :
          /\ due \in Int /\ lease \in Int
          /\ alert'[a] = [row EXCEPT !.due = due, !.lease = lease]
          /\ row.status = "SENDING" => lease >= row.lease - 1
    <3>1. PICK due : due = IF row.status = "QUEUED"
                           THEN IF row.due > -MaxPassAge THEN row.due - 1 ELSE -MaxPassAge ELSE 0
      OBVIOUS
    <3>2. PICK lease : lease = IF row.status = "SENDING"
                               THEN IF row.lease > -MaxPassAge - 1 THEN row.lease - 1 ELSE -MaxPassAge - 1 ELSE 0
      OBVIOUS
    <3>3. due \in Int /\ lease \in Int /\ (row.status = "SENDING" => lease >= row.lease - 1)
      BY <2>2, <3>1, <3>2, Outlasts
    <3>4. alert'[a] = [row EXCEPT !.due = due, !.lease = lease]
      BY <2>1, <3>1, <3>2 DEF ClockTicks
    <3>5. QED
      BY <3>3, <3>4
  <2>4. PICK next : next = [row EXCEPT !.due = due, !.lease = lease]
    OBVIOUS
  <2>5. next \in AlertRows /\ next.status = row.status /\ next.attempts = row.attempts /\ next.lease = lease
    BY <2>2, <2>3, <2>4 DEF AlertRows
  <2>6. QED
    BY <2>1, <2>2, <2>3, <2>4, <2>5, Outlasts
<1>5. alert' \in [Alerts -> AlertRows]
  <2>1. DOMAIN alert' = Alerts /\ alert' = [a \in Alerts |-> alert'[a]]
    BY DEF ClockTicks
  <2>2. QED
    BY <1>4, <2>1
<1>6. \A a \in Alerts : RowOK(a)' /\ LoggedOnce(a)'
  BY <1>1, <1>4 DEF AlertInv, RowOK, LoggedOnce
<1>7. ASSUME NEW w \in Passes
      PROVE  PassOK(pass[w])'
  <2>1. PassOK(pass[w])
    BY DEF AlertInv
  <2>2. CASE pass[w].stage # "abandon"
    <3>1. pass'[w] = pass[w]
      BY <2>2 DEF ClockTicks
    <3>2. QED
      BY <2>1, <2>2, <3>1 DEF PassOK
  <2>3. CASE pass[w].stage = "abandon"
    <3>1. PICK p : p = pass[w]
      OBVIOUS
    <3>2. /\ p = [stage |-> "abandon", age |-> p.age, stale |-> p.stale] /\ p.age \in 0..(MaxPassAge - 1)
          /\ \A item \in p.stale : item[1] \in Alerts /\ StaleOK(item[1], item[2], p.age)
      BY <1>2, <2>1, <2>3, <3>1, Outlasts DEF PassOK
    <3>3. PICK q : q = [p EXCEPT !.age = p.age + 1]
      OBVIOUS
    <3>4. pass'[w] = q
      BY <2>3, <3>1, <3>3 DEF ClockTicks
    <3>5. /\ q.stage = "abandon" /\ q.age = p.age + 1 /\ q.stale = p.stale
          /\ q = [stage |-> "abandon", age |-> q.age, stale |-> q.stale]
      BY <3>2, <3>3
    <3>6. ASSUME NEW item \in p.stale
          PROVE  item[1] \in Alerts /\ StaleOK(item[1], item[2], q.age)'
      BY <1>4, <3>2, <3>4, <3>5 DEF StaleOK
    <3>7. q.age \in 0..MaxPassAge
      BY <3>2, <3>5, Outlasts
    <3>8. QED
      BY <3>4, <3>5, <3>6, <3>7 DEF PassOK
  <2>4. QED
    BY <2>2, <2>3
<1>8. QED
  BY <1>1, <1>3, <1>5, <1>6, <1>7 DEF AlertInv

LEMMA SwitchOffInv == ASSUME AlertInv, SwitchOff PROVE AlertInv'
BY DEF SwitchOff, AlertInv, RowOK, LoggedOnce, PassOK, StaleOK

----------------------------------------------------------------------------

LEMMA AlertNextInv == ASSUME AlertInv, [AlertNext]_alertVars PROVE AlertInv'
<1>1. CASE UNCHANGED alertVars
  BY <1>1 DEF alertVars, AlertInv, RowOK, LoggedOnce, PassOK, StaleOK
<1>2. CASE AlertNext
  BY <1>2, QueueAlertInv, SwitchOffInv, ClockTicksInv, BeginPassInv, AbandonAlertInv, SelectDueInv,
     LoadAlertInv, SkipAlertInv, ClaimAlertInv, PostAlertInv, RecordAlertInv, LoseInv DEF AlertNext, Runs
<1>3. QED
  BY <1>1, <1>2

LEMMA AlertInvariance == AlertSpec => []AlertInv
<1>1. AlertInit => AlertInv
  BY AlertInitInv
<1>2. AlertInv /\ [AlertNext]_alertVars => AlertInv'
  BY AlertNextInv
<1>3. QED
  BY <1>1, <1>2, PTL DEF AlertSpec

\* Every attempt to send an alert is logged exactly once, by the invocation that made it or by a
\* pass that found its lease over.
\* (alerts.ts:93, 162)
THEOREM AlertsAreLogged == AlertSpec => []AlertAttemptsAreLogged
<1>1. AlertInv => AlertAttemptsAreLogged
  BY DEF AlertInv, LoggedOnce, AlertAttemptsAreLogged
<1>2. QED
  BY <1>1, AlertInvariance, PTL
===============================================================================
