---------------------------- MODULE MCContainment ----------------------------
(***************************************************************************)
(* Instances of Containment for TLC. Session forests: one session of one   *)
(* agent; or a session of agent "lead" whose child session belongs to agent *)
(* "helper".                                                               *)
(***************************************************************************)
EXTENDS Containment, TLC

OneAgent == {"lead"}
OneSession == {"root"}
OneAgentOf == [s \in OneSession |-> "lead"]
OneParentOf == [s \in OneSession |-> None]

TwoAgents == {"lead", "helper"}
TwoSessions == {"root", "child"}
TwoAgentOf == [s \in TwoSessions |-> IF s = "root" THEN "lead" ELSE "helper"]
TwoParentOf == [s \in TwoSessions |-> IF s = "root" THEN None ELSE "root"]

\* Interchangeable invocations and row ids.
Symmetric == Permutations(Requests) \cup Permutations(Leases)
                 \cup Permutations(Approvals) \cup Permutations(Incidents)

InHand(ops) == \E r \in Workers : req[r].op \in ops
UsesLeases == (\E l \in Leases : LeaseIssued(l)) \/ InHand({"lease", "use", "record"})
UsesApprovals == (\E p \in Approvals : Requested(p)) \/ InHand({"review", "approve"})
Quarantines == (\E i \in Incidents : inc[i] # NoIncident) \/ InHand({"quarantine"})

\* Bound of the run `lineage', so that the states of its concerns add up instead of multiplying:
\* a behaviour uses leases or approvals, and it has quarantines or invocations that die.
OneConcern ==
    /\ UsesApprovals => ~UsesLeases /\ crashes = 0 /\ \A s \in Sessions : sess[s].status # "closed"
    /\ crashes > 0 => ~Quarantines
=============================================================================
