---------------------------- MODULE Normalization ----------------------------
(***************************************************************************)
(* src/gateway/normalize.ts: the body of POST /v1/evaluate and the body of *)
(* POST /v1/mcp/evaluate become one canonical action before any policy is   *)
(* evaluated.                                                              *)
(*                                                                         *)
(* A body is [kind, given]: the endpoint and a function from the keys that  *)
(* are present to typed values. A string is a sequence of pieces; " " is    *)
(* white space. What a regular expression admits is given per pattern as    *)
(* the pieces it admits. The byte limit of the context is left out.         *)
(***************************************************************************)
EXTENDS PolicyEngine

CONSTANTS Admits,         \* pattern |-> pieces that a string of that pattern is made of
          Environments,   \* pieces naming the environments
          LeaseTtl, LeaseMaxUses,    \* [min, max, default] of a requested lease
          ContextDepth, ContextKeys  \* CONTEXT_MAX_DEPTH, CONTEXT_MAX_KEYS

CorrelationKeys == {"session_id", "parent_decision_id", "lease"}
SharedKeys == {"request_id", "agent_id", "resource", "destination", "data_class", "environment"}
                  \cup CorrelationKeys
KnownKeys(kind) ==
    SharedKeys \cup (IF kind = "mcp" THEN {"server", "tool", "arguments"}
                     ELSE {"protocol", "capability", "operation", "context", "mcp"})

Get(given, key) == IF key \in DOMAIN given THEN given[key] ELSE Missing
Absent(x) == x.type \in {"missing", "null"}

Fits(pattern, s) == s # <<>> /\ \A i \in DOMAIN s : s[i] \in Admits[pattern]

\* requiredString and optionalString trim, convert, and then test the pattern.
Cleaned(x) == IF Absent(x) THEN Missing ELSE Str(Trim(x.v))
Optional(x, pattern) == Absent(x) \/ (x.type = "string" /\ Fits(pattern, Trim(x.v)))
Required(x, pattern) == ~Absent(x) /\ Optional(x, pattern)

\* With the lower-case conversion.
Lowered(x) == LowerCase(Cleaned(x))
OptionalLower(x, pattern) ==
    Absent(x) \/ (x.type = "string" /\ Fits(pattern, Lowered(x).v))
RequiredLower(x, pattern) == ~Absent(x) /\ OptionalLower(x, pattern)

\* parseEnvironment converts without trimming.
ValidEnvironment(x) ==
    Absent(x) \/ (x.type = "string" /\ \E e \in Environments : LowerCase(x) = Str(<<e>>))

\* validateContext: no node below ContextDepth, no object with more than ContextKeys keys.
Children(x) ==
    IF x.type \in {"object", "list"} THEN {x.v[k] : k \in DOMAIN x.v} ELSE {}
ValidContext(x) ==
    Absent(x) \/
    LET level[n \in 1..(ContextDepth + 1)] ==
            IF n = 1 THEN {x} ELSE UNION {Children(y) : y \in level[n - 1]}
    IN  /\ x.type = "object"
        /\ level[ContextDepth + 1] = {}
        /\ \A n \in 1..ContextDepth : \A y \in level[n] :
               y.type = "object" => Cardinality(DOMAIN y.v) <= ContextKeys

----------------------------------------------------------------------------
(* Correlation *)

InRange(x, range) == Absent(x) \/ (x.type = "number" /\ x.v \in range.min..range.max)

ValidLease(given) ==
    LET lease == Get(given, "lease")
    IN  \/ Absent(lease)
        \/ /\ lease.type = "object"
           /\ DOMAIN lease.v \subseteq {"ttl_seconds", "max_uses"}
           /\ InRange(Get(lease.v, "ttl_seconds"), LeaseTtl)
           /\ InRange(Get(lease.v, "max_uses"), LeaseMaxUses)
           /\ ~Absent(Get(given, "session_id"))

ValidCorrelation(given) ==
    /\ Optional(Get(given, "session_id"), "session_id")
    /\ Optional(Get(given, "parent_decision_id"), "decision_id")
    /\ ValidLease(given)

OrDefault(x, range) == IF Absent(x) THEN range.default ELSE x.v

\* parseCorrelation: absent parts are Missing; a lease is completed with the defaults.
Correlation(given) ==
    LET lease == Get(given, "lease")
    IN  [session |-> Cleaned(Get(given, "session_id")),
         parent  |-> Cleaned(Get(given, "parent_decision_id")),
         lease   |-> IF Absent(lease) THEN Missing
                     ELSE Obj([ttl_seconds |-> OrDefault(Get(lease.v, "ttl_seconds"), LeaseTtl),
                               max_uses |-> OrDefault(Get(lease.v, "max_uses"), LeaseMaxUses)])]
Correlated(c) == \E part \in DOMAIN c : c[part].type # "missing"

----------------------------------------------------------------------------
(* The two endpoints *)

ValidShared(given) ==
    /\ Optional(Get(given, "request_id"), "request_id")
    /\ RequiredLower(Get(given, "agent_id"), "agent_key")
    /\ Optional(Get(given, "resource"), "printable")
    /\ OptionalLower(Get(given, "destination"), "short_token")
    /\ OptionalLower(Get(given, "data_class"), "short_token")
    /\ ValidEnvironment(Get(given, "environment"))
    /\ ValidCorrelation(given)

Protocol(given) ==
    LET protocol == Get(given, "protocol")
    IN  IF Absent(protocol) THEN Str(<<"api">>) ELSE protocol

\* An mcp object is required with protocol "mcp" and allowed only there.
ValidMcp(given) ==
    LET mcp == Get(given, "mcp")
    IN  IF Same(Protocol(given), Str(<<"mcp">>))
        THEN /\ mcp.type = "object"
             /\ DOMAIN mcp.v \subseteq {"server", "tool"}
             /\ Required(Get(mcp.v, "server"), "mcp_name")
             /\ Required(Get(mcp.v, "tool"), "mcp_name")
        ELSE Absent(mcp)

ValidEvaluate(given) ==
    /\ \E p \in {"api", "mcp"} : Same(Protocol(given), Str(<<p>>))
    /\ RequiredLower(Get(given, "capability"), "token")
    /\ RequiredLower(Get(given, "operation"), "token")
    /\ ValidContext(Get(given, "context"))
    /\ ValidMcp(given)

ValidMcpCall(given) ==
    /\ \A key \in {"server", "tool"} :
          /\ Required(Get(given, key), "mcp_name")
          /\ Fits("token", Lowered(Get(given, key)).v)
    /\ ValidContext(Get(given, "arguments"))

Valid(body) ==
    /\ DOMAIN body.given \subseteq KnownKeys(body.kind)
    /\ ValidShared(body.given)
    /\ IF body.kind = "mcp" THEN ValidMcpCall(body.given) ELSE ValidEvaluate(body.given)

ContextOf(x) == IF Absent(x) THEN <<>> ELSE x.v

SharedFields(given) ==
    [agent |-> Lowered(Get(given, "agent_id")),
     environment |-> LowerCase(Cleaned(Get(given, "environment"))),
     resource |-> Cleaned(Get(given, "resource")),
     destination |-> Lowered(Get(given, "destination")),
     data_class |-> Lowered(Get(given, "data_class"))]

\* What only one endpoint has: the protocol, the capability and operation, the exact MCP names.
EvaluateFields(given) ==
    LET mcp == Get(given, "mcp")
        name(key) == IF Absent(mcp) THEN Missing ELSE Cleaned(Get(mcp.v, key))
    IN  (("protocol" :> Protocol(given)) @@ ("capability" :> Lowered(Get(given, "capability")))
         @@ ("operation" :> Lowered(Get(given, "operation")))
         @@ ("mcp.server" :> name("server")) @@ ("mcp.tool" :> name("tool")))

McpFields(given) ==
    (("protocol" :> Str(<<"mcp">>)) @@ ("capability" :> Lowered(Get(given, "server")))
     @@ ("operation" :> Lowered(Get(given, "tool")))
     @@ ("mcp.server" :> Cleaned(Get(given, "server"))) @@ ("mcp.tool" :> Cleaned(Get(given, "tool"))))

\* The NormalizedAction of a valid body.
Action(body) ==
    [fields  |-> SharedFields(body.given) @@
                 (IF body.kind = "mcp" THEN McpFields(body.given) ELSE EvaluateFields(body.given)),
     context |-> ContextOf(Get(body.given, IF body.kind = "mcp" THEN "arguments" ELSE "context"))]

\* fingerprintInput, whose hash identifies what a request_id was used for.
Fingerprint(body) == [action |-> Action(body), correlation |-> Correlation(body.given)]
=============================================================================
