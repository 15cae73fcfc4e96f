----------------------------- MODULE PolicyAdmin -----------------------------
(***************************************************************************)
(* Members edit policies: the editor page of the console                    *)
(* (web/src/console/pages/PolicyEditor.tsx) and the endpoints it calls       *)
(* (src/api/console/policies.ts), for several editors at once, with          *)
(* responses that are lost while the server goes on.                         *)
(*                                                                         *)
(* Of a policy, its rule and the agents it is bound to are kept (no agents:  *)
(* the whole organization). Its other columns are written and read together  *)
(* with the rule.                                                          *)
(***************************************************************************)
EXTENDS PolicyRows

CONSTANTS Editors, Calls, Policies, None,
          FirstRule,      \* the rule of the policies that exist to begin with
          Drafts,         \* what editors type or apply: rows
          AgentSets,      \* sets of agents they choose
          MaxPolicies,    \* MAX_POLICIES
          MaxSaves,       \* bound: saves that editors ask for
          MaxFaults       \* bound: requests of a page whose answer does not arrive

VARIABLES policies,   \* policies, with their agent_policy_bindings
          versions,   \* policy_versions; `edited' is what their editor had changed since loading
          editor,     \* an editor's page
          call,       \* requests to the server
          saves, faults

vars == <<policies, versions, editor, call, saves, faults>>

NoRow == [version |-> 0]
Row(n, rule, agents) == [version |-> n, rule |-> rule, agents |-> agents, archived |-> FALSE]
Version(id, n, rule, agents, edited) ==
    [id |-> id, version |-> n, rule |-> rule, agents |-> agents, edited |-> edited]

Elsewhere == [page |-> None]
Idle == [stage |-> "idle"]

\* PolicyEditorPage when it is opened: `loaded' is loadedVersion, 0 for none.
Opened(page) ==
    [page |-> page, form |-> [match |-> "all", rows |-> <<>>], agents |-> {}, edited |-> {},
     loaded |-> 0, filled |-> FALSE, loading |-> page # "new",
     saving |-> None, conflict |-> FALSE]

Shown(e) == editor[e] # Elsewhere /\ (editor[e].page = "new" \/ editor[e].loaded > 0)

Init ==
    /\ \E some \in SUBSET Policies :
        /\ policies = [p \in Policies |-> IF p \in some THEN Row(1, FirstRule, {}) ELSE NoRow]
        /\ versions = {Version(p, 1, FirstRule, {}, {}) : p \in some}
    /\ editor = [e \in Editors |-> Elsewhere]
    /\ call = [k \in Calls |-> Idle]
    /\ saves = 0
    /\ faults = 0

----------------------------------------------------------------------------
(* The page *)

Page(e, page) == editor' = [editor EXCEPT ![e] = page]
Sends(k, q) == call' = [call EXCEPT ![k] = q]
Fault == faults < MaxFaults /\ faults' = faults + 1

Open(e) ==
    /\ editor[e] = Elsewhere
    /\ \E p \in {q \in Policies : policies[q] # NoRow} \cup {"new"} : Page(e, Opened(p))
    /\ UNCHANGED <<policies, versions, call, saves, faults>>

\* The form and the version that a row is loaded as, together.
Loaded(page, row) ==
    [page EXCEPT !.form = RowsOf(row.rule), !.agents = row.agents, !.edited = {}, !.loaded = row.version]

\* The answer to the latest request fills the form. A row that was read long before it
\* arrives is one that arrived earlier; a reload that would fill nothing is left out.
Receive(e) ==
    /\ editor[e] # Elsewhere
    /\ editor[e].loading
    /\ Page(e, [Loaded(editor[e], policies[editor[e].page]) EXCEPT !.filled = TRUE, !.loading = FALSE])
    /\ UNCHANGED <<policies, versions, call, saves, faults>>

\* A page with nothing to show offers to try again; another goes on with what it has.
FetchFails(e) ==
    /\ Shown(e)
    /\ editor[e].loading
    /\ Fault
    /\ Page(e, [editor[e] EXCEPT !.loading = FALSE])
    /\ UNCHANGED <<policies, versions, call, saves>>

Edit(e) ==
    /\ Shown(e)
    /\ \/ \E form \in Drafts :
            Page(e, [editor[e] EXCEPT !.form = form, !.edited = @ \cup {"rule"}])
       \/ \E agents \in AgentSets :
            Page(e, [editor[e] EXCEPT !.agents = agents, !.edited = @ \cup {"agents"}])
    /\ UNCHANGED <<policies, versions, call, saves, faults>>

\* save: a PUT with the loaded version, or a POST; not while one is under way.
Save(e) ==
    /\ Shown(e)
    /\ editor[e].saving = None
    /\ saves < MaxSaves
    /\ saves' = saves + 1
    /\ ~HasErrors(editor[e].form)
    /\ \E k \in Calls : call[k] = Idle
    /\ LET k == CHOOSE n \in Calls : call[n] = Idle IN
        /\ call' = [call EXCEPT ![k] =
                       [stage |-> "sent", by |-> e, id |-> editor[e].page, rule |-> Built(editor[e].form),
                        agents |-> editor[e].agents, expected |-> editor[e].loaded,
                        edited |-> editor[e].edited]]
        /\ Page(e, [editor[e] EXCEPT !.saving = k, !.conflict = FALSE])
    /\ UNCHANGED <<policies, versions, faults>>

\* "Load latest version", offered after a conflict.
ReloadLatest(e) ==
    /\ Shown(e)
    /\ editor[e].conflict
    /\ Page(e, [editor[e] EXCEPT !.conflict = FALSE, !.filled = FALSE, !.loading = TRUE])
    /\ UNCHANGED <<policies, versions, call, saves, faults>>

\* A request whose answer nobody waits for: the server goes on, or not.
Unheard(q) == IF q.stage \in {"sent", "commit"} THEN [q EXCEPT !.by = None] ELSE Idle

\* The page is unmounted, and a save that is under way goes on unheard. (The late answer to a
\* create still opens the created policy, as if its member did: Leave and Open.)
GoesElsewhere(e) ==
    /\ Page(e, Elsewhere)
    /\ IF editor[e].saving = None THEN UNCHANGED <<call, faults>>
       ELSE Fault /\ Sends(editor[e].saving, Unheard(call[editor[e].saving]))

Leave(e) ==
    /\ editor[e] # Elsewhere
    /\ GoesElsewhere(e)
    /\ UNCHANGED <<policies, versions, saves>>

----------------------------------------------------------------------------
(* The server *)

Refuse(k, code) == Sends(k, [call[k] EXCEPT !.stage = code])

AnyVersion(policy, q) == TRUE   \* mutant: expected_version is not compared
AsExpected(policy, q) == q.expected = policy.version

Active == {p \in Policies : policies[p] # NoRow /\ ~policies[p].archived}

\* updatePolicy up to its batch: the row is read and compared with what the editor loaded.
CheckUpdate(k) ==
    /\ call[k].stage = "sent"
    /\ call[k].id # "new"
    /\ LET policy == policies[call[k].id] IN
       IF policy.archived \/ ~ValidGroup(call[k].rule) THEN Refuse(k, "refused")
       ELSE IF ~AsExpected(policy, call[k]) THEN Refuse(k, "conflict")
       ELSE Sends(k, [call[k] EXCEPT !.stage = "commit", !.expected = policy.version])
    /\ UNCHANGED <<policies, versions, editor, saves, faults>>

\* The guard of the UPDATE.
Guard(policy, q) == policy.version = q.expected /\ ~policy.archived

CommitsAnyway(policy, q) == TRUE   \* mutant: a lost update does not abort the batch
Commits(policy, q) == policy.version = q.expected /\ ~policy.archived

(***************************************************************************)
(* The batch of updatePolicy: the guarded UPDATE, the version row, which    *)
(* aborts the batch if nothing was updated, and the bindings.               *)
(***************************************************************************)
CommitUpdate(k) ==
    /\ call[k].stage = "commit"
    /\ call[k].id # "new"
    /\ LET q == call[k]
           n == q.expected + 1
           policy == policies[q.id]
       IN  IF Commits(policy, q) /\ ~\E v \in versions : v.id = q.id /\ v.version = n
           THEN /\ policies' = [policies EXCEPT ![q.id] =
                                   IF Guard(policy, q)
                                   THEN Row(n, Canonical(q.rule), q.agents)
                                   ELSE [policy EXCEPT !.agents = q.agents]]
                /\ versions' = versions \cup {Version(q.id, n, Canonical(q.rule), q.agents, q.edited)}
                /\ Refuse(k, "saved")
           ELSE Refuse(k, "conflict") /\ UNCHANGED <<policies, versions>>
    /\ UNCHANGED <<editor, saves, faults>>

\* createPolicy counts, then inserts.
CheckCreate(k) ==
    /\ call[k].stage = "sent"
    /\ call[k].id = "new"
    /\ Refuse(k, IF Cardinality(Active) >= MaxPolicies \/ ~ValidGroup(call[k].rule) THEN "refused" ELSE "commit")
    /\ UNCHANGED <<policies, versions, editor, saves, faults>>

CommitCreate(k) ==
    /\ call[k].stage = "commit"
    /\ call[k].id = "new"
    /\ \E p \in Policies :
        LET rule == Canonical(call[k].rule)
            agents == call[k].agents
        IN  /\ policies[p] = NoRow
            /\ policies' = [policies EXCEPT ![p] = Row(1, rule, agents)]
            /\ versions' = versions \cup {Version(p, 1, rule, agents, call[k].edited)}
            /\ Sends(k, [call[k] EXCEPT !.stage = "saved", !.id = p, !.expected = 0])
    /\ UNCHANGED <<editor, saves, faults>>

----------------------------------------------------------------------------
(* Answers *)

\* A saved policy is read again for the answer: somebody may have saved since. It is shown as
\* it was read, and the page reloads; a created policy opens.
Answer(k) ==
    /\ call[k].stage = "saved"
    /\ call[k].by # None
    /\ LET e == call[k].by IN
       Page(e, IF call[k].expected = 0 THEN Opened(call[k].id)
               ELSE [Loaded(editor[e], policies[call[k].id]) EXCEPT
                        !.saving = None, !.loading = ~editor[e].filled])
    /\ Sends(k, Idle)
    /\ UNCHANGED <<policies, versions, saves, faults>>

Refused(k) ==
    /\ call[k].stage \in {"refused", "conflict"}
    /\ Sends(k, Idle)
    /\ call[k].by # None
    /\ Page(call[k].by, [editor[call[k].by] EXCEPT !.saving = None, !.conflict = call[k].stage = "conflict"])
    /\ UNCHANGED <<policies, versions, saves, faults>>

\* The request or its answer is lost.
Lose(k) ==
    /\ call[k] # Idle
    /\ call[k].by # None
    /\ Fault
    /\ Page(call[k].by, [editor[call[k].by] EXCEPT !.saving = None])
    /\ Sends(k, Unheard(call[k]))
    /\ UNCHANGED <<policies, versions, saves>>

Abandon(k) ==
    /\ call[k] # Idle
    /\ call[k].by = None
    /\ Sends(k, Idle)
    /\ UNCHANGED <<policies, versions, editor, saves, faults>>

\* archivePolicy is one batch; then the page of policies, unless the answer is lost. A save may
\* be under way.
Archive(e) ==
    /\ Shown(e)
    /\ editor[e].page # "new"
    /\ policies' = [policies EXCEPT ![editor[e].page].archived = TRUE]
    /\ \/ GoesElsewhere(e)
       \/ Fault /\ UNCHANGED <<editor, call>>
    /\ UNCHANGED <<versions, saves>>

Next ==
    \/ \E e \in Editors :
        \/ Open(e) \/ Receive(e) \/ FetchFails(e) \/ Edit(e) \/ Save(e) \/ ReloadLatest(e)
        \/ Leave(e) \/ Archive(e)
    \/ \E k \in Calls :
        \/ CheckUpdate(k) \/ CommitUpdate(k) \/ CheckCreate(k) \/ CommitCreate(k)
        \/ Answer(k) \/ Refused(k) \/ Lose(k) \/ Abandon(k)

Spec == Init /\ [][Next]_vars

----------------------------------------------------------------------------
(* Safety *)

(***************************************************************************)
(* The history of a policy is complete: its versions are 1 to its own, once  *)
(* each, and the latest says what is in force, archived or not. A save that  *)
(* lost to another one, or to an archive, leaves no trace. (policies.ts:214) *)
(***************************************************************************)
HistoryIsComplete ==
    \A p \in Policies :
        LET rows == {v \in versions : v.id = p} IN
        /\ {v.version : v \in rows} = 1..policies[p].version
        /\ Cardinality(rows) = policies[p].version
        /\ \A v \in rows : v.version = policies[p].version =>
               v.rule = policies[p].rule /\ v.agents = policies[p].agents

(***************************************************************************)
(* Nobody's change is reverted by somebody who did not see it: what the      *)
(* editor of a version did not touch is as it was in the version before, but *)
(* for what the rule builder does to every rule. (PolicyEditor.tsx:562, 634) *)
(***************************************************************************)
NothingIsReverted ==
    \A v, w \in versions : v.id = w.id /\ w.version = v.version + 1 =>
        /\ "rule" \notin w.edited => LeftAlone(v.rule, w.rule)
        /\ "agents" \notin w.edited => w.agents = v.agents
=============================================================================
