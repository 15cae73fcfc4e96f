--------------------------- MODULE MCNotifications ---------------------------
(***************************************************************************)
(* Instances for TLC of the two queues of Slack messages. They have tables   *)
(* and invocations of their own, so a behaviour follows one of them while    *)
(* the other one rests in its initial state.                               *)
(***************************************************************************)
EXTENDS ApprovalNotifications, SecurityAlerts

VARIABLE queue

ReviewAndApproval == {"review_required", "approved"}

InitQueues ==
    /\ queue \in {"approvals", "alerts"}
    /\ Init
    /\ AlertInit

FollowsApprovals == queue = "approvals" /\ Next /\ UNCHANGED <<queue, alertVars>>
FollowsAlerts == queue = "alerts" /\ AlertNext /\ UNCHANGED <<queue, vars>>

FairApprovals ==
    /\ WF_vars(queue = "approvals" /\ Tick)
    /\ \A r \in Workers : WF_vars(queue = "approvals" /\ Delivering(r))
    /\ \A c \in Crons : WF_vars(queue = "approvals" /\ Sweeping(c))

FairAlerts ==
    /\ WF_alertVars(queue = "alerts" /\ ClockTicks)
    /\ \A w \in Passes : WF_alertVars(queue = "alerts" /\ Runs(w))
    /\ \A c \in Sweepers : WF_alertVars(queue = "alerts" /\ BeginPass(c))

NextOfQueues == FollowsApprovals \/ FollowsAlerts

FairQueues == InitQueues /\ [][NextOfQueues]_<<queue, vars, alertVars>> /\ FairApprovals /\ FairAlerts
=============================================================================
