---------------------------- MODULE PolicyEngine ----------------------------
(***************************************************************************)
(* The policy engine of src/gateway/policy-engine.ts: a pure function from *)
(* a normalized action, the policies that a SELECT returned and a default, *)
(* to a decision.                                                          *)
(*                                                                         *)
(* Values are typed, [type, v]: an action and a policy are JSON, and what  *)
(* a condition does with a value of the wrong type is what the engine is   *)
(* careful about. A string is a sequence of pieces, so that prefixes and   *)
(* wildcards mean something; "*" is the wildcard piece of a pattern.        *)
(* The SELECT has no ORDER BY, so the policies are a set, and what depends *)
(* on their order has several results.                                     *)
(***************************************************************************)
EXTENDS Integers, Sequences, FiniteSets, SequencesExt

CONSTANTS Lower,            \* piece |-> its lower case, for pieces that have one
          StringLimit, ListLimit, ConditionLimit    \* LIMITS

Str(s)  == [type |-> "string", v |-> s]
Num(n)  == [type |-> "number", v |-> n]
Flag(b) == [type |-> "boolean", v |-> b]
Obj(f)  == [type |-> "object", v |-> f]
Many(s) == [type |-> "list", v |-> s]
Null    == [type |-> "null", v |-> 0]
Missing == [type |-> "missing", v |-> 0]

\* Without the white space at both ends.
Trim(s) ==
    LET solid == {i \in DOMAIN s : s[i] # " "}
    IN  IF solid = {} THEN <<>> ELSE SubSeq(s, Min(solid), Max(solid))

Same(a, b) == a.type = b.type /\ a.v = b.v

IsScalar(x) ==
    \/ x.type = "string" /\ Len(x.v) <= StringLimit
    \/ x.type \in {"number", "boolean"}

----------------------------------------------------------------------------
(* Conditions: validation and the canonical form *)

NumericOperators == {"greater_than", "greater_than_or_equal", "less_than", "less_than_or_equal"}
NoValueOperators == {"exists", "not_exists"}
ListOperators    == {"in", "not_in"}
PatternOperators == {"starts_with", "glob"}
Operators == NumericOperators \cup NoValueOperators \cup ListOperators
                 \cup PatternOperators \cup {"equals", "not_equals"}

LowercaseFields == {"agent", "environment", "protocol", "capability", "operation",
                    "destination", "data_class"}
StringFields == LowercaseFields \cup {"resource", "mcp.server", "mcp.tool"}

\* A field is a path: <<name>> for a string field, <<"context", k1, ...>> below the context.
IsContext(field) == Len(field) > 1 /\ field[1] = "context"
IsKnownField(field) ==
    \/ Len(field) = 1 /\ field[1] \in StringFields
    \/ IsContext(field) /\ Len(field) <= 7

LowerCase(x) ==
    IF x.type = "string"
    THEN Str([i \in DOMAIN x.v |-> IF x.v[i] \in DOMAIN Lower THEN Lower[x.v[i]] ELSE x.v[i]])
    ELSE x

ValidCondition(c) ==
    /\ IsKnownField(c.field)
    /\ c.operator \in Operators
    /\ c.operator \in NoValueOperators => c.value.type = "missing"
    /\ c.operator \in NumericOperators => IsContext(c.field) /\ c.value.type = "number"
    /\ c.operator \in ListOperators =>
          /\ c.value.type = "list"
          /\ Len(c.value.v) \in 1..ListLimit
          /\ \A i \in DOMAIN c.value.v :
                IsScalar(c.value.v[i]) /\ (IsContext(c.field) \/ c.value.v[i].type = "string")
    /\ c.operator \in PatternOperators =>
          c.value.type = "string" /\ Len(c.value.v) \in 1..StringLimit
    /\ c.operator \in {"equals", "not_equals"} =>
          IsScalar(c.value) /\ (IsContext(c.field) \/ c.value.type = "string")

\* The value of a condition on a case-insensitive field is compared in lower case.
CanonicalValue(c) ==
    IF c.field[1] \notin LowercaseFields THEN c.value
    ELSE IF c.value.type = "list"
         THEN Many([i \in DOMAIN c.value.v |-> LowerCase(c.value.v[i])])
         ELSE LowerCase(c.value)

ValidGroup(g) ==
    /\ g.match \in {"all", "any"}
    /\ Len(g.conditions) <= ConditionLimit
    /\ g.match = "any" => g.conditions # <<>>
    /\ \A i \in DOMAIN g.conditions : ValidCondition(g.conditions[i])

----------------------------------------------------------------------------
(* Three-valued evaluation *)

\* The own property of an object, else Missing: no list is indexed, nothing is inherited.
Descend(cursor, key) ==
    IF cursor.type = "object" /\ key \in DOMAIN cursor.v THEN cursor.v[key] ELSE Missing

ReadField(action, field) ==
    IF Len(field) = 1 THEN action.fields[field[1]]
    ELSE LET found == FoldLeft(Descend, Obj(action.context), Tail(field))
         IN  IF found.type = "null" THEN Missing ELSE found

(***************************************************************************)
(* globMatch, a loop: p and v are the positions in the pattern and in the   *)
(* value, counted from 0, star is the last wildcard seen, or -1, and it     *)
(* stands for the value up to mark, which is never past v. Turn is what the *)
(* loop makes of a position, if match is what it makes of the next ones.    *)
(***************************************************************************)
GlobPositions(pattern, value) ==
    [p : 0..Len(pattern), v : 0..Len(value), star : -1..(Len(pattern) - 1), mark : 0..Len(value)]

GlobTurn(match, pattern, value, at) ==
    LET more == at.p < Len(pattern)
    IN  IF at.v = Len(value) THEN \A i \in (at.p + 1)..Len(pattern) : pattern[i] = "*"
        ELSE IF more /\ pattern[at.p + 1] = "*"
        THEN match[[p |-> at.p + 1, v |-> at.v, star |-> at.p, mark |-> at.v]]
        ELSE IF more /\ pattern[at.p + 1] = value[at.v + 1]
        THEN match[[p |-> at.p + 1, v |-> at.v + 1, star |-> at.star, mark |-> at.mark]]
        ELSE IF at.star # -1 /\ at.mark < Len(value)
        THEN match[[p |-> at.star + 1, v |-> at.mark + 1, star |-> at.star, mark |-> at.mark + 1]]
        ELSE FALSE

GlobMatch(pattern, value) ==
    LET match[at \in GlobPositions(pattern, value)] == GlobTurn(match, pattern, value, at)
    IN  match[[p |-> 0, v |-> 0, star |-> -1, mark |-> 0]]

StartsWith(s, prefix) == Len(prefix) <= Len(s) /\ SubSeq(s, 1, Len(prefix)) = prefix

Compare(operator, x, target) ==
    \/ operator = "greater_than" /\ x > target
    \/ operator = "greater_than_or_equal" /\ x >= target
    \/ operator = "less_than" /\ x < target
    \/ operator = "less_than_or_equal" /\ x <= target

Listed(x, list) == IsScalar(x) /\ \E i \in DOMAIN list.v : Same(x, list.v[i])

Holds(actual, operator, value) ==
    LET missing == actual.type = "missing"
    IN  \/ operator = "exists" /\ ~missing
        \/ operator = "not_exists" /\ missing
        \/ operator = "equals" /\ ~missing /\ Same(actual, value)
        \/ operator = "not_equals" /\ (missing \/ ~Same(actual, value))
        \/ operator = "in" /\ ~missing /\ Listed(actual, value)
        \/ operator = "not_in" /\ (missing \/ ~Listed(actual, value))
        \/ operator = "starts_with" /\ actual.type = "string" /\ StartsWith(actual.v, value.v)
        \/ operator = "glob" /\ actual.type = "string" /\ GlobMatch(value.v, actual.v)
        \/ operator \in NumericOperators /\ Compare(operator, actual.v, value.v)

EvaluateCondition(action, c) ==
    LET actual == ReadField(action, c.field)
    IN  IF c.operator \in NumericOperators /\ actual.type # "number" THEN "indeterminate"
        ELSE IF Holds(actual, c.operator, CanonicalValue(c)) THEN "true"
        ELSE "false"

\* "all": false wins over indeterminate; "any": true wins over indeterminate.
EvaluateGroup(action, g) ==
    LET results == {EvaluateCondition(action, g.conditions[i]) : i \in DOMAIN g.conditions}
        decisive == IF g.match = "all" THEN "false" ELSE "true"
        otherwise == IF g.match = "all" THEN "true" ELSE "false"
    IN  IF decisive \in results THEN decisive
        ELSE IF "indeterminate" \in results THEN "indeterminate" ELSE otherwise

----------------------------------------------------------------------------
(* The decision *)

Verdicts == {"allow", "review", "block"}
EffectRank(effect) == IF effect = "block" THEN 0 ELSE IF effect = "review" THEN 1 ELSE 2

PoliciesInScope(policies, agentId) ==
    {p \in policies : p.enabled /\ (p.scope = "organization" \/ agentId \in p.agents)}

WellFormed(p) == p.effect \in Verdicts /\ ValidGroup(p.conditions)

AppliesWhenTrue(action, p) == EvaluateGroup(action, p.conditions) = "true"   \* mutant

\* An indeterminate policy applies when it restricts, and does not when it allows.
Applies(action, p) ==
    LET result == EvaluateGroup(action, p.conditions)
    IN  result = "true" \/ (result = "indeterminate" /\ p.effect # "allow")

Applicable(action, agentId, policies) ==
    {p \in PoliciesInScope(policies, agentId) : Applies(action, p)}

\* comparePolicies: effect, priority, age, id.
Precedes(p, q) ==
    \/ EffectRank(p.effect) < EffectRank(q.effect)
    \/ /\ EffectRank(p.effect) = EffectRank(q.effect)
       /\ \/ p.priority < q.priority
          \/ /\ p.priority = q.priority
             /\ \/ p.created < q.created
                \/ p.created = q.created /\ p.id < q.id

NoPolicy == 0
Result(decision, code, policy, matched) ==
    [decision |-> decision, code |-> code, policy |-> policy, matched |-> matched]

DefaultCode(decision) ==
    CASE decision = "block" -> "DEFAULT_DENY"
      [] decision = "review" -> "DEFAULT_REVIEW"
      [] decision = "allow" -> "DEFAULT_ALLOW"

EffectCode(effect) ==
    CASE effect = "block" -> "POLICY_BLOCK"
      [] effect = "review" -> "HUMAN_APPROVAL_REQUIRED"
      [] effect = "allow" -> "POLICY_ALLOW"

WinnerCode(action, p) ==
    IF EvaluateGroup(action, p.conditions) = "indeterminate" THEN "POLICY_CONDITION_INDETERMINATE"
    ELSE IF p.reason_code = "" THEN EffectCode(p.effect) ELSE p.reason_code

\* evaluate(): the results for some order of the policies. One malformed policy in scope
\* fails the evaluation; which one is reported depends on the order.
Evaluate(action, agentId, policies, default) ==
    LET malformed == {p \in PoliciesInScope(policies, agentId) : ~WellFormed(p)}
        matched   == Applicable(action, agentId, policies)
        first     == {p \in matched : \A q \in matched \ {p} : Precedes(p, q)}
    IN  IF malformed # {}
        THEN {Result("block", "POLICY_INVALID", p.id, {}) : p \in malformed}
        ELSE IF matched = {}
        THEN {Result(default, DefaultCode(default), NoPolicy, {})}
        ELSE {Result(p.effect, WinnerCode(action, p), p.id, {q.id : q \in matched}) : p \in first}
=============================================================================
