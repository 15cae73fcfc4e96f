------------------------ MODULE ApprovalNotifications ------------------------
(***************************************************************************)
(* The queue of Slack notifications about approvals: request handlers that *)
(* queue and send one in the background (notifyApprovalEvent), and the      *)
(* cron sweep that recovers what they leave behind. The organization is     *)
(* active; it may disconnect Slack.                                         *)
(*                                                                         *)
(* Time is relative: `due' and `lease' are next_attempt_at and lease_until  *)
(* minus the clock, kept above the bounds where nothing tells them apart.   *)
(* Every statement of a handler is a step of its own. The queue of security *)
(* alerts (runtime/alerts.ts) follows the same protocol without the inline  *)
(* retry and without events that depend on one another.                     *)
(***************************************************************************)
EXTENDS Integers, FiniteSets

CONSTANTS Approvals,
          Events,       \* bound: the events whose notifications are followed
          Requests,     \* invocations serving clients
          Crons,        \* scheduled invocations
          MaxAttempts,  \* max_attempts
          LeaseTime, Backoff, InlineDelay, InlineCap, \* NOTIFY_TUNING, in ticks
          RetryAfters,  \* Retry-After values Slack answers with; 0 for none
          MaxAge,       \* bound: age of the clock value a handler uses
          MaxCrashes    \* bound: invocations that die half way

VARIABLES ap,        \* approvals
          connected, \* the organization has a Slack destination
          ntf,       \* approval_notifications
          log,       \* approval_notification_attempts: rows per attempt number
          accepted,  \* messages Slack has accepted, per notification
          req,       \* deliveries in flight
          sweep,     \* the sweeps in progress
          crashes    \* invocations that died

vars == <<ap, connected, ntf, log, accepted, req, sweep, crashes>>

AllEvents == {"review_required", "approved", "denied", "expired", "consumed"}
Workers == Requests \cup Crons
Rows == Approvals \X Events
Attempts == 1..MaxAttempts
Delays == 0..(MaxAge + LeaseTime + Backoff + InlineDelay + InlineCap)

ASSUME NotificationsAssumption ==
    /\ Requests \cap Crons = {}
    /\ Events \subseteq AllEvents /\ "review_required" \in Events
    /\ {MaxAttempts, LeaseTime, Backoff, InlineDelay, MaxAge} \subseteq Nat \ {0}
    /\ {InlineCap, MaxCrashes} \subseteq Nat
    /\ 0 \in RetryAfters /\ RetryAfters \subseteq Delays
    /\ MaxAge <= LeaseTime   \* a lease outlasts the clock of a statement in flight

Terminal == {"SENT_TO_PROVIDER", "FAILED", "SKIPPED"}
NoRow == [status |-> "none", attempts |-> 0, due |-> 0, lease |-> 0]
Idle == [op |-> "idle"]
NoSweep == [phase |-> "none", rows |-> {}, age |-> 0]

\* An approval: "lapsed" is pending past its expiry, "consumed" is approved and consumed.
ApprovalState == {"none", "pending", "lapsed", "approved", "denied", "expired", "consumed"}
NotificationRow == [status : {"none", "QUEUED", "SENDING"} \cup Terminal, attempts : 0..MaxAttempts,
                    due : Int, lease : Int]

(***************************************************************************)
(* What an invocation of deliverNotification holds between two statements: *)
(* inline retries left, the attempts it read, the attempt number it works   *)
(* with, and the outcome it is about to record.                             *)
(***************************************************************************)
Delivery ==
    {Idle}
    \cup [op : {"queue"}, row : Rows]
    \cup [op : {"load"}, row : Rows, retries : {0, 1}, wait : Nat]
    \cup [op : {"skip"}, row : Rows]
    \cup [op : {"claim"}, row : Rows, retries : {0, 1}, seen : 0..MaxAttempts]
    \cup [op : {"post"}, row : Rows, retries : {0, 1}, attempt : 1..(MaxAttempts + 1)]
    \cup [op : {"record"}, row : Rows, attempt : 1..(MaxAttempts + 1), delay : Nat,
          status : {"SENT_TO_PROVIDER", "QUEUED", "FAILED"}, inline : BOOLEAN]

\* A pass of the sweep: the rows its last query returned and it has not handled yet,
\* with the attempts it read, and the age of its clock.
Sweep == [phase : {"none", "abandon", "backfill", "deliver"},
          rows : SUBSET (Rows \X (0..MaxAttempts)), age : 0..MaxAge]

\* Type invariant: the columns with their CHECKs, and the handlers' locals.
TypeOK ==
    /\ ap \in [Approvals -> ApprovalState]
    /\ connected \in BOOLEAN
    /\ ntf \in [Rows -> NotificationRow]
    /\ log \in [Rows -> [Attempts -> Nat]]
    /\ accepted \in [Rows -> Nat]
    /\ req \in [Workers -> Delivery]
    /\ sweep \in [Crons -> Sweep]
    /\ crashes \in Nat

Init ==
    /\ ap = [p \in Approvals |-> "none"]
    /\ connected = TRUE
    /\ ntf = [n \in Rows |-> NoRow]
    /\ log = [n \in Rows |-> [k \in Attempts |-> 0]]
    /\ accepted = [n \in Rows |-> 0]
    /\ req = [r \in Workers |-> Idle]
    /\ sweep = [c \in Crons |-> NoSweep]
    /\ crashes = 0

-----------------------------------------------------------------------------
(* Queueing *)

\* The message that asks for the review of n's approval was sent.
InitialSent(p) == ntf[<<p, "review_required">>].status = "SENT_TO_PROVIDER"

\* The approval has reached the event.
Reached(p, e) ==
    \/ ap[p] = e
    \/ e = "review_required" /\ ap[p] = "pending"
    \/ e = "approved" /\ ap[p] = "consumed"

ReachedOnly(p, e) == Reached(p, e)   \* mutant: the initial message is not asked for

(***************************************************************************)
(* EVENT_CONDITION. Resolutions are told only to those who were asked.      *)
(***************************************************************************)
EventCondition(p, e) == Reached(p, e) /\ (e # "review_required" => InitialSent(p))

\* INSERT OR IGNORE ... SELECT, by a handler whose clock is `age' ticks behind: it may still
\* see a lapsed approval as pending.
Insert(n) ==
    \E age \in 0..MaxAge :
        ntf' = IF /\ ntf[n].status = "none" /\ connected
                  /\ \/ EventCondition(n[1], n[2])
                     \/ age > 0 /\ n[2] = "review_required" /\ ap[n[1]] = "lapsed"
               THEN [ntf EXCEPT ![n] =
                        [status |-> "QUEUED", attempts |-> 0, due |-> -age, lease |-> 0]]
               ELSE ntf

\* The approval changes, and its handler leaves the notification to the background.
Notify(r, p, e) ==
    req' = [req EXCEPT ![r] = IF e \in Events THEN [op |-> "queue", row |-> <<p, e>>] ELSE Idle]

\* An evaluation, a member's decision or a consume commits.
Happens(r) ==
    /\ r \in Requests /\ req[r] = Idle
    /\ \E p \in Approvals :
        \E change \in {<<"none", "pending", "review_required">>,
                       <<"pending", "approved", "approved">>, <<"pending", "denied", "denied">>,
                       <<"approved", "consumed", "consumed">>} :
            /\ ap[p] = change[1]
            /\ ap' = [ap EXCEPT ![p] = change[2]]
            /\ Notify(r, p, change[3])
    /\ UNCHANGED <<connected, ntf, log, accepted, sweep, crashes>>

\* Changes nobody notifies: the expiry passes, the expiry sweep, a quarantine's cancellation.
HappensSilently ==
    /\ \E p \in Approvals, change \in {<<"pending", "lapsed">>, <<"lapsed", "expired">>,
                                       <<"pending", "denied">>, <<"lapsed", "denied">>} :
        /\ ap[p] = change[1]
        /\ ap' = [ap EXCEPT ![p] = change[2]]
    /\ UNCHANGED <<connected, ntf, log, accepted, req, sweep, crashes>>

Disconnect ==
    /\ connected /\ connected' = FALSE
    /\ UNCHANGED <<ap, ntf, log, accepted, req, sweep, crashes>>

\* queueApprovalNotification, then the delivery of the row if it is queued.
Queue(r) ==
    /\ req[r].op = "queue"
    /\ LET n == req[r].row IN
       /\ Insert(n)
       /\ req' = [req EXCEPT ![r] = IF ntf'[n].status = "QUEUED"
                     THEN [op |-> "load", row |-> n, retries |-> 1, wait |-> 0] ELSE Idle]
    /\ UNCHANGED <<ap, connected, log, accepted, sweep, crashes>>

-----------------------------------------------------------------------------
(* Delivery *)

\* skipReason
SkipReason(n) == ~connected \/ (n[2] = "review_required" /\ ap[n[1]] # "pending")

\* loadDeliveryRow and the checks on what it returns.
Load(r) ==
    /\ req[r].op = "load" /\ req[r].wait = 0
    /\ LET n == req[r].row IN
       req' = [req EXCEPT ![r] =
                  IF ntf[n].status # "QUEUED" THEN Idle
                  ELSE IF SkipReason(n) THEN [op |-> "skip", row |-> n]
                  ELSE [op |-> "claim", row |-> n, retries |-> req[r].retries,
                        seen |-> ntf[n].attempts]]
    /\ UNCHANGED <<ap, connected, ntf, log, accepted, sweep, crashes>>

Skip(r) ==
    /\ req[r].op = "skip"
    /\ LET n == req[r].row IN
       ntf' = IF ntf[n].status = "QUEUED" THEN [ntf EXCEPT ![n].status = "SKIPPED"] ELSE ntf
    /\ req' = [req EXCEPT ![r] = Idle]
    /\ UNCHANGED <<ap, connected, log, accepted, sweep, crashes>>

\* The claim's WHERE clause, for a handler whose clock is `age' ticks old.
Claimable(n, age) ==
    /\ ntf[n].status = "QUEUED" /\ ntf[n].due <= -age
    /\ ntf[n].attempts < MaxAttempts

\* The claim. The attempt number comes from the row as it was loaded.
Claim(r) ==
    /\ req[r].op = "claim"
    /\ LET n == req[r].row IN
       \E age \in 0..MaxAge :
           IF Claimable(n, age)
           THEN /\ ntf' = [ntf EXCEPT ![n] =
                              [status |-> "SENDING", attempts |-> @.attempts + 1,
                               due |-> 0, lease |-> LeaseTime - age]]
                /\ req' = [req EXCEPT ![r] = [op |-> "post", row |-> n, retries |-> req[r].retries,
                                              attempt |-> req[r].seen + 1]]
           ELSE /\ req' = [req EXCEPT ![r] = Idle]
                /\ UNCHANGED ntf
    /\ UNCHANGED <<ap, connected, log, accepted, sweep, crashes>>

OneMore(attempt) == attempt > MaxAttempts   \* mutant: off by one

Exhausted(attempt) == attempt >= MaxAttempts

\* Whether the retry is made by the same invocation, and the delay before it.
Inline(retries, after) == retries > 0 /\ after <= InlineCap
Delay(inline, after) ==
    LET least == IF inline THEN InlineDelay ELSE Backoff
    IN  IF after > least THEN after ELSE least

\* postToSlack: accepted; refused for good; or refused for now, timed out or cut off, when
\* Slack may have accepted the message all the same.
Post(r) ==
    /\ req[r].op = "post"
    /\ LET n == req[r].row
           attempt == req[r].attempt
           outcome(status, inline, delay) ==
               [op |-> "record", row |-> n, attempt |-> attempt, delay |-> delay,
                status |-> status, inline |-> inline]
       IN  \/ /\ accepted' = [accepted EXCEPT ![n] = @ + 1]
              /\ req' = [req EXCEPT ![r] = outcome("SENT_TO_PROVIDER", FALSE, 0)]
           \/ /\ req' = [req EXCEPT ![r] = outcome("FAILED", FALSE, 0)]
              /\ UNCHANGED accepted
           \/ \E after \in RetryAfters, reached \in {0, 1} :
                  LET inline == Inline(req[r].retries, after) IN
                  /\ reached = 1 => after = 0
                  /\ accepted' = [accepted EXCEPT ![n] = @ + reached]
                  /\ req' = [req EXCEPT ![r] =
                                IF Exhausted(attempt) THEN outcome("FAILED", FALSE, 0)
                                ELSE outcome("QUEUED", inline, Delay(inline, after))]
    /\ UNCHANGED <<ap, connected, ntf, log, sweep, crashes>>

\* The UPDATE that ends an attempt.
Ended(n, status, due) ==
    [ntf EXCEPT ![n] = [status |-> status, attempts |-> @.attempts, due |-> due, lease |-> 0]]

StillSending(n, attempt) == ntf[n].status = "SENDING"   \* mutant: whoever claimed it

\* recordAttempt's WHERE clause.
OwnAttempt(n, attempt) == ntf[n].status = "SENDING" /\ ntf[n].attempts = attempt

\* recordAttempt; after a failure to retry inline, the loop goes on once the delay is over.
Record(r) ==
    /\ req[r].op = "record"
    /\ LET q == req[r]
           n == q.row
       IN  /\ IF OwnAttempt(n, q.attempt)
              THEN /\ ntf' = Ended(n, q.status, q.delay)
                   /\ log' = [log EXCEPT ![n][q.attempt] = @ + 1]
              ELSE UNCHANGED <<ntf, log>>
           /\ req' = [req EXCEPT ![r] =
                         IF q.inline THEN [op |-> "load", row |-> n, retries |-> 0, wait |-> q.delay]
                         ELSE Idle]
    /\ UNCHANGED <<ap, connected, accepted, sweep, crashes>>

-----------------------------------------------------------------------------
(* The cron sweep *)

\* mutant: an invocation that dies on the last attempt is not noticed
LeaseOverEarly(n, age) ==
    /\ ntf[n].status = "SENDING" /\ ntf[n].lease < -age
    /\ ntf[n].attempts < MaxAttempts

\* The lease of a row being sent is over, by a clock `age' ticks old.
LeaseOver(n, age) == ntf[n].status = "SENDING" /\ ntf[n].lease < -age

Found(R) == {<<n, ntf[n].attempts>> : n \in R}

\* 1. The query for abandoned leases opens a pass.
SweepStart(c) ==
    /\ req[c] = Idle
    /\ sweep[c].phase = "none" \/ (sweep[c].phase = "deliver" /\ sweep[c].rows = {})
    /\ sweep' = [sweep EXCEPT ![c] = [phase |-> "abandon", age |-> 0,
                                      rows |-> Found({n \in Rows : LeaseOver(n, 0)})]]
    /\ UNCHANGED <<ap, connected, ntf, log, accepted, req, crashes>>

AbandonedStatus(n) == IF ntf[n].attempts >= MaxAttempts THEN "FAILED" ELSE "QUEUED"

\* One row of the first loop, with the attempt number the query returned.
Abandon(c) ==
    /\ sweep[c].phase = "abandon"
    /\ \E item \in sweep[c].rows :
        LET n == item[1] IN
        /\ IF LeaseOver(n, sweep[c].age)
           THEN /\ ntf' = Ended(n, AbandonedStatus(n), -sweep[c].age)
                /\ log' = [log EXCEPT ![n][item[2]] = @ + 1]
           ELSE UNCHANGED <<ntf, log>>
        /\ sweep' = [sweep EXCEPT ![c].rows = @ \ {item}]
    /\ UNCHANGED <<ap, connected, accepted, req, crashes>>

\* mutant: the query for consumed approvals that owe their "approved" message is gone
OwedLatest(p, e) == EventCondition(p, e) /\ ~(e = "approved" /\ ap[p] = "consumed")

\* The conditions of the three queries for notifications that were never queued. (That a
\* pass looks back 1 h and 24 h, and returns 50 rows, is not modelled.)
Owed(p, e) == EventCondition(p, e)

SweepBackfill(c) ==
    /\ sweep[c].phase = "abandon" /\ sweep[c].rows = {}
    /\ sweep' = [sweep EXCEPT ![c] =
           [phase |-> "backfill", age |-> 0,
            rows |-> Found({n \in Rows : ntf[n].status = "none" /\ Owed(n[1], n[2])})]]
    /\ UNCHANGED <<ap, connected, ntf, log, accepted, req, crashes>>

Backfill(c) ==
    /\ sweep[c].phase = "backfill"
    /\ \E item \in sweep[c].rows :
        /\ Insert(item[1])
        /\ sweep' = [sweep EXCEPT ![c].rows = @ \ {item}]
    /\ UNCHANGED <<ap, connected, log, accepted, req, crashes>>

\* 4. The query for everything due, then one delivery after another.
SweepDue(c) ==
    /\ sweep[c].phase = "backfill" /\ sweep[c].rows = {}
    /\ sweep' = [sweep EXCEPT ![c] =
           [phase |-> "deliver", age |-> 0,
            rows |-> Found({n \in Rows : ntf[n].status = "QUEUED" /\ ntf[n].due <= 0})]]
    /\ UNCHANGED <<ap, connected, ntf, log, accepted, req, crashes>>

Deliver(c) ==
    /\ sweep[c].phase = "deliver" /\ req[c] = Idle
    /\ \E item \in sweep[c].rows :
        /\ req' = [req EXCEPT ![c] = [op |-> "load", row |-> item[1], retries |-> 0, wait |-> 0]]
        /\ sweep' = [sweep EXCEPT ![c].rows = @ \ {item}]
    /\ UNCHANGED <<ap, connected, ntf, log, accepted, crashes>>

-----------------------------------------------------------------------------
(* The clock and crashes *)

Down(t, floor) == IF t > floor THEN t - 1 ELSE floor

\* Bound: a pass of the sweep handles its abandoned rows within MaxAge ticks.
Tick ==
    /\ \A c \in Crons : sweep[c].phase = "abandon" => sweep[c].age < MaxAge
    /\ ntf' = [n \in Rows |->
                  [ntf[n] EXCEPT
                      !.due = IF ntf[n].status = "QUEUED" THEN Down(@, -MaxAge) ELSE 0,
                      !.lease = IF ntf[n].status = "SENDING" THEN Down(@, -MaxAge - 1) ELSE 0]]
    /\ req' = [r \in Workers |->
                  IF req[r].op = "load" THEN [req[r] EXCEPT !.wait = Down(@, 0)] ELSE req[r]]
    /\ sweep' = [c \in Crons |->
                    IF sweep[c].phase = "abandon" THEN [sweep[c] EXCEPT !.age = @ + 1] ELSE sweep[c]]
    /\ UNCHANGED <<ap, connected, log, accepted, crashes>>

\* A statement of a delivery fails, which deliverNotification catches, or the whole
\* invocation dies and the rest of its pass is lost too.
Crash(r) ==
    /\ crashes < MaxCrashes
    /\ crashes' = crashes + 1
    /\ req' = [req EXCEPT ![r] = Idle]
    /\ \/ req[r] # Idle /\ UNCHANGED sweep
       \/ r \in Crons /\ sweep[r].phase # "none" /\ sweep' = [sweep EXCEPT ![r] = NoSweep]
    /\ UNCHANGED <<ap, connected, ntf, log, accepted>>

Delivering(r) == Queue(r) \/ Load(r) \/ Skip(r) \/ Claim(r) \/ Post(r) \/ Record(r)
Sweeping(c) ==
    SweepStart(c) \/ Abandon(c) \/ SweepBackfill(c) \/ Backfill(c) \/ SweepDue(c) \/ Deliver(c)

Next ==
    \/ \E r \in Workers : Happens(r) \/ Delivering(r) \/ Crash(r)
    \/ \E c \in Crons : Sweeping(c)
    \/ HappensSilently \/ Disconnect \/ Tick

Spec == Init /\ [][Next]_vars

(***************************************************************************)
(* Fairness: the clock runs, cron is invoked again and again, and an        *)
(* invocation goes on unless it crashes. Clients, members and Slack owe     *)
(* nothing.                                                                 *)
(***************************************************************************)
Fairness ==
    /\ WF_vars(Tick)
    /\ \A r \in Workers : WF_vars(Delivering(r))
    /\ \A c \in Crons : WF_vars(Sweeping(c))

FairSpec == Spec /\ Fairness

-----------------------------------------------------------------------------
(* Properties *)

(***************************************************************************)
(* Every attempt is logged exactly once, by its own invocation or by the    *)
(* sweep, and only the attempt under way is not logged yet: whichever of    *)
(* them comes late changes nothing, and a handler that loaded the row       *)
(* before another one's attempt never writes over it.                       *)
(***************************************************************************)
EveryAttemptIsLogged ==
    \A n \in Rows, k \in Attempts :
        log[n][k] = IF k < ntf[n].attempts \/ (k = ntf[n].attempts /\ ntf[n].status # "SENDING")
                    THEN 1 ELSE 0

(***************************************************************************)
(* A queued notification has an attempt left. The claim refuses rows        *)
(* without one, so a row queued in vain would wait for ever, although the   *)
(* handlers decide whether to queue it again from the attempts they loaded. *)
(***************************************************************************)
QueuedIsClaimable ==
    \A n \in Rows : ntf[n].status = "QUEUED" => ntf[n].attempts < MaxAttempts

(***************************************************************************)
(* Nobody is told how an approval ended who was not asked to review it, and *)
(* no message contradicts the approval's state: no "denied" next to an      *)
(* "approved", whatever handler or sweep queued it and when.                *)
(***************************************************************************)
ResolutionsFollowTheReview ==
    \A n \in Rows : n[2] # "review_required" /\ ntf[n].status # "none" =>
        /\ Reached(n[1], n[2])
        /\ accepted[<<n[1], "review_required">>] >= 1

\* Every notification that is queued is in the end sent, failed or skipped, although
\* invocations die while they hold it and the attempts they lose count.
NotificationsSettle ==
    \A n \in Rows : ntf[n].status \in {"QUEUED", "SENDING"} ~> ntf[n].status \in Terminal

(***************************************************************************)
(* Those who were asked for a review hear of its end: of the approval and   *)
(* of the consume, when both happen before the first message is recorded as *)
(* sent, and although the handler of either may have found nothing to queue *)
(* or died.                                                                 *)
(***************************************************************************)
ResolutionsAreQueued ==
    \A n \in Rows :
        InitialSent(n[1]) /\ Reached(n[1], n[2]) ~> ntf[n].status # "none" \/ ~connected
=============================================================================
