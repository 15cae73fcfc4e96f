----------------------------- MODULE MCRiskEngine -----------------------------
(***************************************************************************)
(* Instances of RiskEngine for TLC: evaluations that differ in what they     *)
(* raise, and about whom.                                                   *)
(***************************************************************************)
EXTENDS RiskEngine, TLC

\* Nothing unusual, by the agent in its session.
Quiet == [agent |-> Agent, session |-> Session, gate |-> "none", correlation |-> "none",
          unknown |-> 0, blocks |-> 0, newTool |-> FALSE, newOperation |-> FALSE,
          newDestination |-> FALSE, requests |-> 1, resources |-> 1, dataRank |-> 0,
          dataRankBefore |-> 0]

Escalating == [Quiet EXCEPT !.newOperation = TRUE, !.newDestination = TRUE, !.blocks = 3]
Fast == [Quiet EXCEPT !.requests = 61, !.resources = 26, !.dataRank = 3]
Sessionless == [Quiet EXCEPT !.session = None]
Invalid == [Sessionless EXCEPT !.correlation = "invalid"]
Probing == [Sessionless EXCEPT !.agent = None, !.gate = "AGENT_UNKNOWN", !.unknown = 3,
                               !.correlation = "invalid"]

\* What integrations report about a blocked and an allowed action.
Executed == [agent |-> Agent, session |-> Session, about |-> "execution", outcome |-> "succeeded",
             decision |-> "block", consumed |-> FALSE, key |-> "decision"]
AsTold == [Executed EXCEPT !.decision = "allow"]
CrossTenant == [agent |-> None, session |-> None, about |-> "elsewhere", key |-> "lease"]

AllFacts == {Quiet, Escalating, Fast, Invalid, Probing}
AllReports == {Executed, AsTold, CrossTenant}

TwiceFacts == {Invalid}

Interchangeable == Permutations(Requests)
=============================================================================
