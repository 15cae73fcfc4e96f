---------------------------- MODULE SecurityAlerts ----------------------------
(***************************************************************************)
(* The queue of Slack alerts about security incidents (runtime/alerts.ts).  *)
(* The batch that writes a risk transition queues its alert. Whoever commits *)
(* runtime state goes through the whole queue in the background, as cron     *)
(* does: first the leases that ran out, then the alerts that are due, one    *)
(* after another and without a retry in place.                              *)
(*                                                                         *)
(* `due' and `lease' are next_attempt_at and lease_until minus the clock,    *)
(* kept above the bounds where nothing tells them apart; a pass over the     *)
(* queue reads the clock once.                                              *)
(***************************************************************************)
EXTENDS Integers, FiniteSets

CONSTANTS Alerts,
          Backgrounds,       \* invocations that commit runtime state
          Sweepers,          \* scheduled invocations
          MaxAlertAttempts,  \* max_attempts
          AlertLease, AlertBackoff,  \* SECURITY_ALERT_TUNING, in ticks
          AlertRetryAfters,  \* Retry-After values Slack answers with; 0 for none
          MaxPassAge,        \* bound: age of the clock value a pass or a claim uses
          MaxLosses          \* bound: invocations that die half way

VARIABLES alert,      \* security_notifications
          alertsOn,   \* the organization is active, wants alerts and has a Slack destination
          attempted,  \* security_notification_attempts: rows per attempt number
          pass,       \* the invocations
          losses

alertVars == <<alert, alertsOn, attempted, pass, losses>>

\* A lease outlasts the clock of a claim and of a pass.
ASSUME AlertsAssumption ==
    /\ {MaxAlertAttempts, AlertLease, AlertBackoff, MaxPassAge} \subseteq Nat
    /\ AlertRetryAfters \subseteq Nat
    /\ MaxPassAge <= AlertLease

Passes == Backgrounds \cup Sweepers
EndedAlerts == {"SENT_TO_PROVIDER", "FAILED", "SKIPPED"}

Unqueued == [status |-> "none", attempts |-> 0, due |-> 0, lease |-> 0]
NotRunning == [stage |-> "none"]
Resting(w) == pass[w].stage = "none" \/ (pass[w].stage = "next" /\ pass[w].todo = {})

AlertInit ==
    /\ alert = [a \in Alerts |-> Unqueued]
    /\ alertsOn = TRUE
    /\ attempted = [a \in Alerts |-> [k \in 1..MaxAlertAttempts |-> 0]]
    /\ pass = [w \in Passes |-> NotRunning]
    /\ losses = 0

----------------------------------------------------------------------------
(* The queue *)

QueueAlert ==
    /\ \E a \in Alerts :
        /\ alert[a] = Unqueued
        /\ alert' = [alert EXCEPT ![a].status = "QUEUED"]
    /\ UNCHANGED <<alertsOn, attempted, pass, losses>>

SwitchOff ==
    /\ alertsOn /\ alertsOn' = FALSE
    /\ UNCHANGED <<alert, attempted, pass, losses>>

Goes(w, q) == pass' = [pass EXCEPT ![w] = q]

\* mutant: the last attempt is not taken back
LeaseRanOutEarly(a, age) ==
    /\ alert[a].status = "SENDING" /\ alert[a].lease < -age
    /\ alert[a].attempts < MaxAlertAttempts

LeaseRanOut(a, age) == alert[a].status = "SENDING" /\ alert[a].lease < -age

\* deliverDueSecurityAlerts: the query for leases that ran out, with the attempts they show.
BeginPass(w) ==
    /\ Resting(w)
    /\ Goes(w, [stage |-> "abandon", age |-> 0,
                stale |-> {<<a, alert[a].attempts>> : a \in {b \in Alerts : LeaseRanOut(b, 0)}}])
    /\ UNCHANGED <<alert, alertsOn, attempted, losses>>

EndedRow(a, status, due) ==
    [status |-> status, attempts |-> alert[a].attempts, due |-> due, lease |-> 0]
Logs(a, k) == attempted' = [attempted EXCEPT ![a][k] = @ + 1]

\* The status of an abandoned alert, which is due at once by the clock of the pass.
AfterAbandon(a) == IF alert[a].attempts >= MaxAlertAttempts THEN "FAILED" ELSE "QUEUED"

AbandonAlert(w) ==
    /\ pass[w].stage = "abandon"
    /\ \E item \in pass[w].stale :
        LET a == item[1] IN
        /\ IF LeaseRanOut(a, pass[w].age)
           THEN alert' = [alert EXCEPT ![a] = EndedRow(a, AfterAbandon(a), -pass[w].age)] /\ Logs(a, item[2])
           ELSE UNCHANGED <<alert, attempted>>
        /\ Goes(w, [pass[w] EXCEPT !.stale = @ \ {item}])
    /\ UNCHANGED <<alertsOn, losses>>

\* The query for what is due, by the same clock.
SelectDue(w) ==
    /\ pass[w].stage = "abandon"
    /\ pass[w].stale = {}
    /\ Goes(w, [stage |-> "next",
                todo |-> {a \in Alerts : alert[a].status = "QUEUED" /\ alert[a].due <= -pass[w].age}])
    /\ UNCHANGED <<alert, alertsOn, attempted, losses>>

----------------------------------------------------------------------------
(* One alert *)

OtherAlerts(w) == [stage |-> "next", todo |-> pass[w].todo]

\* loadAlert, and the reasons to skip what it returns.
LoadAlert(w) ==
    /\ pass[w].stage = "next"
    /\ \E a \in pass[w].todo :
        LET rest == pass[w].todo \ {a} IN
        Goes(w, IF alert[a].status # "QUEUED" THEN [stage |-> "next", todo |-> rest]
                ELSE IF ~alertsOn THEN [stage |-> "skip", todo |-> rest, alert |-> a]
                ELSE [stage |-> "claim", todo |-> rest, alert |-> a, seen |-> alert[a].attempts])
    /\ UNCHANGED <<alert, alertsOn, attempted, losses>>

SkipAlert(w) ==
    /\ pass[w].stage = "skip"
    /\ LET a == pass[w].alert IN
       alert' = IF alert[a].status = "QUEUED" THEN [alert EXCEPT ![a].status = "SKIPPED"] ELSE alert
    /\ Goes(w, OtherAlerts(w))
    /\ UNCHANGED <<alertsOn, attempted, losses>>

\* The WHERE clause of the claim, for a clock `age' ticks old.
Claims(a, age) ==
    /\ alert[a].status = "QUEUED" /\ alert[a].due <= -age
    /\ alert[a].attempts < MaxAlertAttempts

\* The attempt number comes from the row as it was loaded.
ClaimAlert(w) ==
    /\ pass[w].stage = "claim"
    /\ LET a == pass[w].alert IN
       \E age \in 0..MaxPassAge :
           IF Claims(a, age)
           THEN /\ alert' = [alert EXCEPT ![a] =
                                [status |-> "SENDING", attempts |-> @.attempts + 1, due |-> 0,
                                 lease |-> AlertLease - age]]
                /\ Goes(w, [stage |-> "post", todo |-> pass[w].todo, alert |-> a,
                            attempt |-> pass[w].seen + 1])
           ELSE Goes(w, OtherAlerts(w)) /\ UNCHANGED alert
    /\ UNCHANGED <<alertsOn, attempted, losses>>

\* Slack accepts the message; refuses it, or the destination cannot be read; or is not there for
\* now, and the alert is queued again unless that was the last attempt.
PostAlert(w) ==
    /\ pass[w].stage = "post"
    /\ LET Records(status, due) ==
               Goes(w, [stage |-> "record", todo |-> pass[w].todo, alert |-> pass[w].alert,
                        attempt |-> pass[w].attempt, status |-> status, due |-> due])
       IN  \/ Records("SENT_TO_PROVIDER", 0)
           \/ Records("FAILED", 0)
           \/ \E after \in AlertRetryAfters :
                /\ pass[w].attempt < MaxAlertAttempts
                /\ Records("QUEUED", IF after > AlertBackoff THEN after ELSE AlertBackoff)
    /\ UNCHANGED <<alert, alertsOn, attempted, losses>>

AnySend(a, attempt) == alert[a].status = "SENDING"   \* mutant: not only its own
OwnSend(a, attempt) == alert[a].status = "SENDING" /\ alert[a].attempts = attempt

\* finish: the row and its log entry, unless the alert was taken away meanwhile.
RecordAlert(w) ==
    /\ pass[w].stage = "record"
    /\ LET q == pass[w] IN
       IF OwnSend(q.alert, q.attempt)
       THEN /\ alert' = [alert EXCEPT ![q.alert] = EndedRow(q.alert, q.status, q.due)]
            /\ Logs(q.alert, q.attempt)
       ELSE UNCHANGED <<alert, attempted>>
    /\ Goes(w, OtherAlerts(w))
    /\ UNCHANGED <<alertsOn, losses>>

\* An error ends the alert's delivery, which catches it, or the invocation dies.
Lose(w) ==
    /\ ~Resting(w)
    /\ losses < MaxLosses /\ losses' = losses + 1
    /\ \/ Goes(w, NotRunning)
       \/ pass[w].stage \notin {"abandon", "next"} /\ Goes(w, OtherAlerts(w))
    /\ UNCHANGED <<alert, alertsOn, attempted>>

\* Bound: the clock of a pass is at most MaxPassAge old when it selects what is due.
ClockTicks ==
    LET Down(t, floor) == IF t > floor THEN t - 1 ELSE floor IN
    /\ \A w \in Passes : pass[w].stage = "abandon" => pass[w].age < MaxPassAge
    /\ alert' = [a \in Alerts |->
                    [alert[a] EXCEPT !.due = IF alert[a].status = "QUEUED" THEN Down(@, -MaxPassAge) ELSE 0,
                                     !.lease = IF alert[a].status = "SENDING" THEN Down(@, -MaxPassAge - 1) ELSE 0]]
    /\ pass' = [w \in Passes |->
                   IF pass[w].stage = "abandon" THEN [pass[w] EXCEPT !.age = @ + 1] ELSE pass[w]]
    /\ UNCHANGED <<alertsOn, attempted, losses>>

Runs(w) ==
    AbandonAlert(w) \/ SelectDue(w) \/ LoadAlert(w) \/ SkipAlert(w) \/ ClaimAlert(w) \/ PostAlert(w) \/ RecordAlert(w)

AlertNext ==
    \/ QueueAlert \/ SwitchOff \/ ClockTicks
    \/ \E w \in Passes : BeginPass(w) \/ Runs(w) \/ Lose(w)

AlertSpec == AlertInit /\ [][AlertNext]_alertVars

\* The clock runs, cron comes again and again, and an invocation goes on unless it dies.
AlertFairness ==
    /\ WF_alertVars(ClockTicks)
    /\ \A w \in Passes : WF_alertVars(Runs(w))
    /\ \A w \in Sweepers : WF_alertVars(BeginPass(w))

----------------------------------------------------------------------------
(* Properties *)

(***************************************************************************)
(* Every attempt to send an alert leaves exactly one row in the log, of the *)
(* invocation that made it or of a pass that found its lease over, however  *)
(* late either of them is. (alerts.ts:93, 162)                              *)
(***************************************************************************)
AlertAttemptsAreLogged ==
    \A a \in Alerts, k \in 1..MaxAlertAttempts :
        attempted[a][k] =
            IF k < alert[a].attempts \/ (k = alert[a].attempts /\ alert[a].status # "SENDING") THEN 1 ELSE 0

\* An alert that is queued is in the end sent, failed or skipped, although cron is the only
\* one sure to come back to it and an invocation may die with it. (alerts.ts:131)
AlertsSettle == \A a \in Alerts : alert[a].status \in {"QUEUED", "SENDING"} ~> alert[a].status \in EndedAlerts
=============================================================================
