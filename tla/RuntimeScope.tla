---------------------------- MODULE RuntimeScope ----------------------------
(***************************************************************************)
(* The session forest of one organization, and the two walks the runtime   *)
(* layer makes over it: upwards, from the session of a request to every     *)
(* subject whose risk state bounds it (lineageStatement, scopeState), and   *)
(* downwards, from a quarantined subject to everything in its scope         *)
(* (SCOPE_CTE).                                                            *)
(*                                                                         *)
(* A session's agent and parent never change once it is opened, so the     *)
(* forest is a parameter; which of its sessions have been opened is state   *)
(* of the modules that extend this one.                                    *)
(***************************************************************************)
EXTENDS Integers, FiniteSets

CONSTANTS Agents,    \* registered agents of the organization
          Sessions,  \* agent sessions (opened or not yet opened)
          None,      \* no session, no parent, no incident
          AgentOf,   \* the agent a session belongs to
          ParentOf   \* the parent of a session, or None

\* openSession refuses a ninth level (SESSION_DEPTH_EXCEEDED).
MaxDepth == 8

Subjects == Agents \cup Sessions

(***************************************************************************)
(* lineageStatement: the session and its ancestors. The recursive query    *)
(* takes nine steps up; a session is at most MaxDepth levels deep.          *)
(***************************************************************************)
Ancestry ==
    [s \in Sessions |->
        LET up[n \in 0..(MaxDepth + 1)] ==
                IF n = 0 THEN {s}
                ELSE up[n - 1] \cup ({ParentOf[t] : t \in up[n - 1]} \ {None})
        IN  up[MaxDepth + 1]]

\* No session is its own ancestor and none is too deep for the queries' step bounds.
IsForest ==
    \A s \in Sessions :
        /\ \A t \in Ancestry[s] \ {s} : s \notin Ancestry[t]
        /\ Cardinality(Ancestry[s]) <= MaxDepth + 1

ASSUME SubjectsAssumption ==
    /\ Agents \cap Sessions = {}
    /\ None \notin Subjects

ASSUME ForestAssumption ==
    /\ AgentOf \in [Sessions -> Agents]
    /\ ParentOf \in [Sessions -> Sessions \cup {None}]
    /\ IsForest

\* The lineage of an optional session.
Lineage(s) == IF s = None THEN {} ELSE Ancestry[s]

(***************************************************************************)
(* scopeState: the subjects that bound a request of agent a in session s:  *)
(* the agent, the whole lineage and the agents of the lineage. (The API key *)
(* is a subject too, but a key is never quarantined.)                      *)
(***************************************************************************)
ScopeKeys(a, s) == {a} \cup Lineage(s) \cup {AgentOf[t] : t \in Lineage(s)}

\* The part of it that the quarantine of one of its members always reaches back down to:
\* a quarantined agent reaches its own decisions, a quarantined session its subtree. The
\* rest, the agents of ancestor sessions, reaches down through unexpired sessions only.
OwnScope(a, s) == {a} \cup Lineage(s)

(***************************************************************************)
(* SCOPE_CTE with IN_SCOPE_DECISION: is a decision (or lease) of agent a in *)
(* session s in the scope of subject x? A session's scope is its subtree.   *)
(* An agent's scope is everything of its own, and the subtrees of those of  *)
(* its sessions that have not expired: `live' is the set of unexpired       *)
(* sessions. Descending from x to s is the same as finding x above s.       *)
(***************************************************************************)
InScope(x, a, s, live) ==
    \/ x \in OwnScope(a, s)
    \/ \E t \in Lineage(s) \cap live : AgentOf[t] = x
=============================================================================
