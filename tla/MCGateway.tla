------------------------------ MODULE MCGateway ------------------------------
(***************************************************************************)
(* Instances of Gateway for TLC: one agent "lead" with one session "root",  *)
(* an agent key nobody registered, the same action in several spellings,    *)
(* and policies that meet in it.                                           *)
(***************************************************************************)
EXTENDS Gateway

MCAgents == {"lead"}
MCSessions == {"root"}
MCAgentOf == [s \in MCSessions |-> "lead"]
MCParentOf == [s \in MCSessions |-> None]
MCEnvironmentOf == [a \in MCAgents |-> "staging"]
MCDefaultModeOf == [a \in MCAgents |-> "inherit"]

MCLower == "Lead" :> "lead" @@ "Re" :> "re" @@ "CRM" :> "crm"
Names == {"lead", "ghost", "re", "fund", "crm", "http"}
MCAdmits ==
    [pattern \in {"agent_key", "token", "short_token", "mcp_name"} |-> Names \cup {"Lead", "Re", "CRM"}]
    @@ [pattern \in {"session_id"} |-> {"root"}]
    @@ [pattern \in {"decision_id", "request_id", "printable"} |-> {"id1"}]
MCEnvironments == {"staging", "production"}
MCLeaseTtl == [min |-> 1, max |-> 9, default |-> 2]
MCLeaseMaxUses == [min |-> 1, max |-> 2, default |-> 1]

Api(given) == [kind |-> "api", given |-> given]
Base == ("agent_id" :> Str(<<"lead">>)) @@ ("capability" :> Str(<<"crm">>))
            @@ ("operation" :> Str(<<"re", "fund">>))
Amount(x) == "context" :> Obj("amount" :> x)

Id == "request_id" :> Str(<<"id1">>)

\* Retries under one request_id: one action, spelled twice, and the same with a session and
\* a lease. An MCP call of a stranger; an action that follows from the decision of that
\* request_id, with a context of the wrong type; an environment the agent is not registered for;
\* and a body that is refused.
MCBodyOf ==
    ("plain" :> Api(Id @@ Base @@ Amount(Num(20))))
    @@ ("spelled" :> Api(Id @@ ("agent_id" :> Str(<<" ", "Lead">>)) @@ ("capability" :> Str(<<"CRM", " ">>))
                            @@ ("operation" :> Str(<<"Re", "fund">>)) @@ Amount(Num(20))))
    @@ ("leased" :> Api(Id @@ Base @@ ("session_id" :> Str(<<"root">>))
                           @@ ("lease" :> Obj("max_uses" :> Num(2)))))
    @@ ("call" :> [kind |-> "mcp",
                   given |-> ("agent_id" :> Str(<<"ghost">>)) @@ ("server" :> Str(<<"CRM">>))
                             @@ ("tool" :> Str(<<"re", "fund">>))])
    @@ ("child" :> Api(Base @@ Amount(Str(<<"crm">>))
                       @@ ("parent_decision_id" :> Str(<<"id1">>))))
    @@ ("elsewhere" :> Api(Base @@ ("environment" :> Str(<<"production">>))))
    @@ ("broken" :> Api(Base @@ ("lease" :> Obj(<<>>))))

Condition(field, operator, value) == [field |-> field, operator |-> operator, value |-> value]
Group(match, conditions) == [match |-> match, conditions |-> conditions]
Policy(id, effect, agentIds, group) ==
    [id |-> id, enabled |-> TRUE, scope |-> IF agentIds = {} THEN "organization" ELSE "agents",
     agents |-> agentIds, effect |-> effect, priority |-> 1, created |-> id, reason_code |-> "",
     conditions |-> group]

AllowRefunds == Policy(1, "allow", {},
    Group("all", <<Condition(<<"operation">>, "glob", Str(<<"Re", "*">>))>>))
ReviewLarge == Policy(2, "review", {},
    Group("all", <<Condition(<<"context", "amount">>, "greater_than", Num(10))>>))
BlockOutsideCrm == Policy(3, "block", {},
    Group("any", <<Condition(<<"capability">>, "not_in", Many(<<Str(<<"CRM">>), Str(<<"http">>)>>)),
                   Condition(<<"data_class">>, "exists", Missing)>>))
BlockLead == Policy(4, "block", {"lead"},
    Group("all", <<Condition(<<"resource">>, "not_exists", Missing),
                   Condition(<<"context", "amount">>, "not_exists", Missing)>>))
Malformed == Policy(5, "allow", {},
    Group("all", <<Condition(<<"operation">>, "greater_than", Num(1))>>))
MCBodies == DOMAIN MCBodyOf
MCPolicies == {AllowRefunds, ReviewLarge, BlockOutsideCrm, BlockLead, Malformed}

Interchangeable == Permutations(Requests)
=============================================================================
