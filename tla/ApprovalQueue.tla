---------------------------- MODULE ApprovalQueue ----------------------------
(***************************************************************************)
(* The queue of approvals in the console (ApprovalsPage of                   *)
(* web/src/console/pages/Approvals.tsx, useApi and useVisibleInterval of     *)
(* lib/hooks.ts): a list that is fetched again at intervals, when the tab      *)
(* changes and after every decision, while other people decide too.          *)
(***************************************************************************)
EXTENDS Naturals

CONSTANTS Approvals, MaxCalls   \* bound: fetches of the page

VARIABLES status,     \* of each approval, on the server
          tab,        \* "pending", "resolved" or "all"
          fetched,    \* the tab of the latest fetch; an effect fetches when the tab has changed
          data,       \* the list shown
          failed, loading,
          seq, calls,
          acting,     \* the dialog and its request
          known       \* history: the approvals whose resolution the page was told

vars == <<status, tab, fetched, data, failed, loading, seq, calls, acting, known>>

Tabs == {"pending", "resolved", "all"}
NoData == [tab |-> "none"]
Closed == [stage |-> "closed"]
Unsent == [stage |-> "unsent"]

Init ==
    /\ status = [p \in Approvals |-> "pending"]
    /\ tab = "pending"
    /\ fetched = "none"
    /\ data = NoData
    /\ failed = FALSE
    /\ loading = TRUE
    /\ seq = 0
    /\ calls = [n \in 1..MaxCalls |-> Unsent]
    /\ acting = Closed
    /\ known = {}

\* listApprovals, after the overdue ones were expired.
Listed(t) ==
    [tab |-> t,
     pending |-> IF t = "resolved" THEN {} ELSE {p \in Approvals : status[p] = "pending"},
     resolved |-> IF t = "pending" THEN {} ELSE {p \in Approvals : status[p] # "pending"}]

----------------------------------------------------------------------------
(* useApi *)

\* load: earlier requests go on, but are not looked at any more.
Load ==
    /\ seq < MaxCalls
    /\ seq' = seq + 1
    /\ loading' = TRUE
    /\ fetched' = tab
    /\ calls' = [calls EXCEPT ![seq + 1] = [stage |-> "sent", tab |-> tab]]

AnyCall(n) == TRUE   \* mutant: the last answer wins
IsLatest(n) == n = seq

\* The effect of the first render, and of a render with another tab.
TabEffect ==
    /\ fetched # tab
    /\ Load
    /\ UNCHANGED <<status, tab, data, failed, acting, known>>

\* useVisibleInterval, a return to the page, or Retry.
Poll ==
    /\ fetched = tab
    /\ Load
    /\ UNCHANGED <<status, tab, data, failed, acting, known>>

Serve(n) ==
    /\ calls[n].stage = "sent"
    /\ calls' = [calls EXCEPT ![n] = [stage |-> "served", list |-> Listed(@.tab)]]
    /\ UNCHANGED <<status, tab, fetched, data, failed, loading, seq, acting, known>>

Answer(n) ==
    /\ calls[n].stage = "served"
    /\ calls' = [calls EXCEPT ![n] = [stage |-> "settled"]]
    /\ IF IsLatest(n)
       THEN /\ data' = calls[n].list
            /\ failed' = FALSE
            /\ loading' = FALSE
            /\ known' = known \cup calls[n].list.resolved
       ELSE UNCHANGED <<data, failed, loading, known>>
    /\ UNCHANGED <<status, tab, fetched, seq, acting>>

\* A network error, a refusal, or the time-out of api().
Fail(n) ==
    /\ calls[n].stage \in {"sent", "served"}
    /\ calls' = [calls EXCEPT ![n] = [stage |-> "settled"]]
    /\ IF n = seq THEN failed' = TRUE /\ loading' = FALSE ELSE UNCHANGED <<failed, loading>>
    /\ UNCHANGED <<status, tab, fetched, data, seq, acting, known>>

----------------------------------------------------------------------------
(* The page *)

ChangeTab ==
    /\ acting = Closed   \* the dialog is modal
    /\ tab' \in Tabs \ {tab}
    /\ UNCHANGED <<status, fetched, data, failed, loading, seq, calls, acting, known>>

OpenDialog ==
    /\ acting = Closed
    /\ data # NoData
    /\ \E p \in data.pending : acting' = [stage |-> "open", approval |-> p]
    /\ UNCHANGED <<status, tab, fetched, data, failed, loading, seq, calls, known>>

Cancel ==
    /\ acting.stage = "open"
    /\ acting' = Closed
    /\ UNCHANGED <<status, tab, fetched, data, failed, loading, seq, calls, known>>

\* act: the dialog stays until its request is answered.
Act ==
    /\ acting.stage = "open"
    /\ acting' = [acting EXCEPT !.stage = "sent"]
    /\ UNCHANGED <<status, tab, fetched, data, failed, loading, seq, calls, known>>

\* actOnApproval: APPROVAL_EXPIRED and APPROVAL_NOT_PENDING tell that it was resolved before.
ServeAct ==
    /\ acting.stage = "sent"
    /\ status' = [status EXCEPT ![acting.approval] = IF @ = "pending" THEN "acted" ELSE @]
    /\ acting' = [acting EXCEPT !.stage = "served"]
    /\ UNCHANGED <<tab, fetched, data, failed, loading, seq, calls, known>>

AfterAct ==
    /\ acting.stage = "served"
    /\ Load
    /\ acting' = Closed
    /\ known' = known \cup {acting.approval}
    /\ UNCHANGED <<status, tab, data, failed>>

\* Another error, or a time-out although the approval was resolved: the dialog shows it.
ActFails ==
    /\ acting.stage \in {"sent", "served"}
    /\ acting' = [acting EXCEPT !.stage = "open"]
    /\ UNCHANGED <<status, tab, fetched, data, failed, loading, seq, calls, known>>

\* Another approver, the expiry or a quarantine.
Resolve ==
    /\ \E p \in Approvals : status[p] = "pending" /\ status' = [status EXCEPT ![p] = "other"]
    /\ UNCHANGED <<tab, fetched, data, failed, loading, seq, calls, acting, known>>

Next ==
    \/ TabEffect \/ Poll \/ ChangeTab \/ OpenDialog \/ Cancel \/ Act \/ ServeAct \/ AfterAct \/ ActFails
    \/ Resolve
    \/ \E n \in 1..seq : Serve(n) \/ Answer(n) \/ Fail(n)

Spec == Init /\ [][Next]_vars

----------------------------------------------------------------------------
(* Safety *)

(***************************************************************************)
(* A list that arrives does not offer for decision what the page was told is  *)
(* resolved, by an earlier list or by the answer to its own decision,          *)
(* whichever of the polls and the reload comes in last. (hooks.ts:62)        *)
(***************************************************************************)
ResolvedStaysResolved == [][data' # data => data'.pending \cap known = {}]_vars
=============================================================================
