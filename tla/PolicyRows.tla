------------------------------ MODULE PolicyRows ------------------------------
(***************************************************************************)
(* The rule builder of web/src/console/pages/PolicyEditor.tsx: a stored      *)
(* condition becomes a row of text fields, and a row becomes a condition     *)
(* again when the policy is saved, edited or not.                           *)
(***************************************************************************)
EXTENDS PolicyEngine

CONSTANT Numerals    \* piece |-> the number it spells

\* String(): what a text field shows of a scalar.
Text(x) ==
    CASE x.type = "string" -> x.v
      [] x.type = "boolean" -> IF x.v THEN <<"true">> ELSE <<"false">>
      [] x.type = "number" -> <<CHOOSE p \in DOMAIN Numerals : Numerals[p] = x.v>>

ValueType(x) == IF x.type \in {"number", "boolean"} THEN x.type ELSE "text"

ValuesOf(c) ==
    IF c.value.type = "list" THEN c.value.v ELSE IF c.value.type = "missing" THEN <<>> ELSE <<c.value>>

\* The type of a context field is that of its first value; any other field is text.
RowFromCondition(c) ==
    LET texts == [i \in DOMAIN ValuesOf(c) |-> Text(ValuesOf(c)[i])] IN
    [field |-> c.field, operator |-> c.operator,
     valueType |-> IF IsContext(c.field) /\ texts # <<>> THEN ValueType(ValuesOf(c)[1]) ELSE "text",
     value |-> IF c.value.type \in {"list", "missing"} THEN <<>> ELSE texts[1],
     list  |-> IF c.value.type = "list" THEN texts ELSE <<>>]

\* coerce: the value that a text stands for, or Null.
Coerce(text, type) ==
    LET bare == Trim(text) IN
    CASE type = "number" ->
            IF Len(bare) = 1 /\ bare[1] \in DOMAIN Numerals THEN Num(Numerals[bare[1]]) ELSE Null
      [] type = "boolean" ->
            IF text = <<"true">> THEN Flag(TRUE) ELSE IF text = <<"false">> THEN Flag(FALSE) ELSE Null
      [] type = "text" -> Str(text)

\* The type a row is read with: a pattern is text, a comparison a number.
ReadAs(row) ==
    IF row.operator \in NumericOperators THEN "number"
    ELSE IF ~IsContext(row.field) \/ row.operator \in PatternOperators THEN "text"
    ELSE row.valueType

\* rowToCondition: a single string loses the white space around it, a listed one does not.
\* Null stands for an error.
RowValue(row) ==
    LET single == Coerce(row.value, ReadAs(row))
        listed == [i \in DOMAIN row.list |-> Coerce(row.list[i], ReadAs(row))]
    IN  IF row.operator \in NoValueOperators THEN Missing
        ELSE IF row.operator \in ListOperators
        THEN IF listed = <<>> \/ \E i \in DOMAIN listed : listed[i].type = "null" THEN Null ELSE Many(listed)
        ELSE IF single.type # "string" THEN single
        ELSE IF Trim(single.v) = <<>> THEN Null ELSE Str(Trim(single.v))

RowToCondition(row) == [field |-> row.field, operator |-> row.operator, value |-> RowValue(row)]

\* The rows of a rule, and what the page builds from rows; it does not save rows with an error.
RowsOf(rule) ==
    [match |-> rule.match, rows |-> [i \in DOMAIN rule.conditions |-> RowFromCondition(rule.conditions[i])]]
Built(form) ==
    [match |-> form.match, conditions |-> [i \in DOMAIN form.rows |-> RowToCondition(form.rows[i])]]
HasErrors(form) ==
    \/ \E i \in DOMAIN form.rows : RowValue(form.rows[i]).type = "null"
    \/ form.match = "any" /\ form.rows = <<>>

\* What the server stores of a valid rule.
Canonical(rule) ==
    [rule EXCEPT !.conditions =
        [i \in DOMAIN rule.conditions |->
            [rule.conditions[i] EXCEPT !.value = CanonicalValue(rule.conditions[i])]]]

----------------------------------------------------------------------------

\* What rows and stored conditions are made of: texts, and numbers that String() can spell.
IsText(s) == s \in Seq({s[i] : i \in DOMAIN s})
IsRow(row) == IsText(row.value) /\ row.valueType \in {"number", "boolean", "text"}
IsSpelled(x) == x.type = "number" => \E p \in DOMAIN Numerals : Numerals[p] = x.v
IsReadable(c) ==
    /\ DOMAIN c = {"field", "operator", "value"}
    /\ c.value.type = "string" => IsText(c.value.v)
    /\ IsSpelled(c.value)
    /\ c.value.type = "list" => \A k \in DOMAIN c.value.v : IsSpelled(c.value.v[k])

(***************************************************************************)
(* A rule that a save left alone: the same conditions, but that white space  *)
(* around a single value is gone, and that the values of a list, which take   *)
(* the type of the first, may have become strings or numbers.               *)
(***************************************************************************)
SpellTheSame(s, t) ==
    s = t \/ (Coerce(s, "number") = Coerce(t, "number") /\ Coerce(t, "number") # Null)

LeftAlone(before, after) ==
    /\ after.match = before.match
    /\ DOMAIN after.conditions = DOMAIN before.conditions
    /\ \A i \in DOMAIN before.conditions :
        LET c == before.conditions[i]
            d == after.conditions[i]
        IN  /\ d.field = c.field /\ d.operator = c.operator
            /\ IF c.value.type = "string" THEN d.value = Str(Trim(c.value.v))
               ELSE /\ d.value.type = c.value.type
                    /\ DOMAIN ValuesOf(d) = DOMAIN ValuesOf(c)
                    /\ \A k \in DOMAIN ValuesOf(c) : SpellTheSame(Text(ValuesOf(d)[k]), Text(ValuesOf(c)[k]))
=============================================================================
