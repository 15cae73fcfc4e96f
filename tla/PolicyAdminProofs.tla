-------------------------- MODULE PolicyAdminProofs ---------------------------
(***************************************************************************)
(* Proofs about PolicyAdmin, as ControlPlane follows it: the versions of a    *)
(* policy are its complete history, and nobody's change is reverted by        *)
(* somebody who did not see it, whatever the rules, editors and calls.        *)
(*                                                                         *)
(* The argument: a rule that the server stored comes back from the rule       *)
(* builder as it was, up to its spelling; what an editor has not changed is   *)
(* as in the version that was loaded; and a save is stored only on top of the *)
(* version that it was loaded from.                                        *)
(***************************************************************************)
EXTENDS ControlPlane, WellFoundedInduction, FiniteSetTheorems, TLAPS

\* A step of the whole, while a policy is edited.
LEMMA Focus ==
    ASSUME [NextOfAll]_everything
    PROVE  focus' = focus /\ (focus = "admin" => [Admin!Next]_adminVars)
BY DEF NextOfAll, everything, FollowsAccess, FollowsAdmin, FollowsControls, FollowsIncident, FollowsQueue,
       FollowsTrail, FollowsSlack, FollowsFounding

----------------------------------------------------------------------------
(* PolicyAdmin: what the rule builder makes of a stored condition that nobody edits.            *)

LEMMA LeastNumber ==
    ASSUME NEW S \in SUBSET Nat, S # {}
    PROVE  \E m \in S : \A n \in S : m <= n
<1>1. PICK R : R = OpToRel(<, Nat)
  OBVIOUS
<1>2. \A a, b \in Nat : <<a, b>> \in R <=> a < b
  BY <1>1 DEF OpToRel
<1>3. IsWellFoundedOn(R, Nat)
  BY <1>1, NatLessThanWellFounded
<1>4. PICK m \in S : \A n \in S : ~(<<n, m>> \in R)
  BY <1>3, WFMin
<1>5. ASSUME NEW n \in S
      PROVE  m <= n
  <2>1. ~(<<n, m>> \in R) /\ n \in Nat /\ m \in Nat
    BY <1>4
  <2>2. ~(n < m)
    BY <1>2, <2>1
  <2>3. QED
    BY <2>1, <2>2
<1>6. QED
  BY <1>5

LEMMA GreatestNumber == ASSUME NEW n \in Nat, NEW S \in SUBSET (1..n), S # {} PROVE \E m \in S : \A k \in S : m >= k
<1>1. PICK T : T = {n - k : k \in S}
  OBVIOUS
<1>2. T \in SUBSET Nat /\ T # {}
  <2>1. \A k \in S : k \in Int /\ n - k \in Nat
    OBVIOUS
  <2>2. QED
    BY <1>1, <2>1
<1>3. PICK t \in T : \A u \in T : t <= u
  BY <1>2, LeastNumber
<1>4. PICK m \in S : t = n - m
  BY <1>1, <1>3
<1>5. ASSUME NEW k \in S
      PROVE  m >= k
  <2>1. t <= n - k
    BY <1>1, <1>3
  <2>2. QED
    BY <1>4, <2>1
<1>6. QED
  BY <1>5

LEMMA SeqFromFunction ==
    ASSUME NEW l \in Nat, NEW Elements, NEW s, DOMAIN s = 1..l, s = [i \in 1..l |-> s[i]],
           \A i \in 1..l : s[i] \in Elements
    PROVE  s \in Seq(Elements)
OBVIOUS

\* Trim takes a part of a text.
LEMMA TrimIsPart ==
    ASSUME NEW s, Admin!IsText(s)
    PROVE  /\ Admin!IsText(Admin!Trim(s))
           /\ \A i \in DOMAIN Admin!Trim(s) : \E j \in DOMAIN s : Admin!Trim(s)[i] = s[j]
<1>1. PICK solid : solid = {i \in DOMAIN s : s[i] # " "}
  OBVIOUS
<1>2. PICK T : T = {s[i] : i \in DOMAIN s} /\ s \in Seq(T)
  BY DEF Admin!IsText
<1>3. Len(s) \in Nat /\ DOMAIN s = 1..Len(s)
  BY <1>2
<1>4. solid \in SUBSET (1..Len(s)) /\ solid \in SUBSET Nat
  <2>1. \A i \in solid : i \in 1..Len(s)
    BY <1>1, <1>3
  <2>2. \A i \in 1..Len(s) : i \in Nat
    BY <1>3
  <2>3. QED
    BY <2>1, <2>2
<1>5. CASE solid = {}
  <2>1. Admin!Trim(s) = <<>>
    BY <1>1, <1>5 DEF Admin!Trim
  <2>2. DOMAIN <<>> = {}
    OBVIOUS
  <2>3. QED
    BY <2>1, <2>2 DEF Admin!IsText
<1>6. CASE solid # {}
  <2>1. Admin!Min(solid) \in solid
    <3>1. \E x \in solid : \A y \in solid : x =< y
      BY <1>4, <1>6, LeastNumber
    <3>2. QED
      BY <3>1 DEF Admin!Min
  <2>2. Admin!Max(solid) \in solid
    <3>1. \E x \in solid : \A y \in solid : x >= y
      BY <1>3, <1>4, <1>6, GreatestNumber
    <3>2. QED
      BY <3>1 DEF Admin!Max
  <2>3. PICK m \in 1..Len(s), n \in 1..Len(s) : m = Admin!Min(solid) /\ n = Admin!Max(solid)
    BY <1>4, <2>1, <2>2
  <2>4. PICK part : part = SubSeq(s, m, n)
    OBVIOUS
  <2>5. Admin!Trim(s) = part
    BY <1>1, <1>6, <2>3, <2>4 DEF Admin!Trim
  <2>6. part = [i \in 1..(n - m + 1) |-> s[i + m - 1]] /\ n - m + 1 \in Int
    BY <2>3, <2>4
  <2>7. \A i \in 1..(n - m + 1) : i + m - 1 \in 1..Len(s)
    BY <1>3, <2>3
  <2>8. DOMAIN part = 1..(n - m + 1) /\ \A i \in DOMAIN part : part[i] = s[i + m - 1]
    BY <2>6
  <2>9. part \in Seq({part[i] : i \in DOMAIN part})
    <3>1. PICK l \in Nat : 1..l = 1..(n - m + 1)
      <4>1. PICK k \in Int : k = n - m + 1
        BY <2>6
      <4>2. CASE k <= 0
        <5>1. 1..0 = 1..k
          BY <4>2
        <5>2. QED
          BY <4>1, <5>1
      <4>3. CASE k > 0
        <5>1. k \in Nat /\ 1..k = 1..(n - m + 1)
          BY <4>1, <4>3
        <5>2. QED
          BY <5>1
      <4>4. QED
        BY <4>2, <4>3
    <3>2. part = [i \in 1..l |-> s[i + m - 1]] /\ \A i \in 1..l : s[i + m - 1] \in {part[k] : k \in DOMAIN part}
      BY <2>6, <2>8, <3>1
    <3>3. QED
      BY <2>8, <3>1, <3>2, SeqFromFunction
  <2>10. QED
    BY <1>3, <2>5, <2>7, <2>8, <2>9 DEF Admin!IsText
<1>7. QED
  BY <1>5, <1>6

Scalars == {"string", "number", "boolean"}
Plain == Admin!NoValueOperators \cup Admin!ListOperators   \* operators without a single value

\* What a valid condition is, for the rule builder.
Shaped(c) ==
    /\ c.field[1] \in Admin!LowercaseFields => ~Admin!IsContext(c.field)
    /\ c.operator \in Admin!NoValueOperators => c.value.type = "missing"
    /\ c.operator \in Admin!ListOperators =>
          /\ c.value.type = "list"
          /\ \A k \in DOMAIN c.value.v :
                c.value.v[k].type \in Scalars /\ (Admin!IsContext(c.field) \/ c.value.v[k].type = "string")
    /\ c.operator \in Admin!NumericOperators => Admin!IsContext(c.field) /\ c.value.type = "number"
    /\ c.operator \in Admin!PatternOperators => c.value.type = "string"
    /\ c.operator \notin Plain =>
          c.value.type \in Scalars /\ (Admin!IsContext(c.field) \/ c.value.type = "string")

IsLower(x) == Admin!LowerCase(x) = Admin!Str(x.v)

Lowered(c) ==
    c.field[1] \in Admin!LowercaseFields =>
        /\ c.value.type = "string" => IsLower(c.value)
        /\ c.value.type = "list" => \A k \in DOMAIN c.value.v : IsLower(c.value.v[k])

Stored(rule) ==
    /\ {"match", "conditions"} \subseteq DOMAIN rule
    /\ \A i \in DOMAIN rule.conditions :
          LET c == rule.conditions[i] IN Admin!IsReadable(c) /\ Shaped(c) /\ Lowered(c)

LEMMA OperatorsDiffer ==
    /\ \A o \in Admin!NumericOperators : o \notin Plain /\ o \notin Admin!PatternOperators
    /\ \A o \in Admin!PatternOperators : o \notin Plain
    /\ \A o \in Admin!ListOperators : /\ o \notin Admin!NoValueOperators
                                      /\ o \notin Admin!NumericOperators /\ o \notin Admin!PatternOperators
BY DEF Plain, Admin!NoValueOperators, Admin!ListOperators, Admin!NumericOperators, Admin!PatternOperators

LEMMA ValidIsShaped ==
    ASSUME NEW c, Admin!ValidCondition(c)
    PROVE  Shaped(c)
<1>1. c.field[1] \in Admin!LowercaseFields => ~Admin!IsContext(c.field)
  BY DEF Admin!IsContext, Admin!LowercaseFields
<1>2. c.operator \in Admin!NoValueOperators => c.value.type = "missing"
  BY DEF Admin!ValidCondition
<1>3. c.operator \in Admin!ListOperators =>
          /\ c.value.type = "list"
          /\ \A k \in DOMAIN c.value.v :
                c.value.v[k].type \in Scalars /\ (Admin!IsContext(c.field) \/ c.value.v[k].type = "string")
  BY DEF Admin!ValidCondition, Admin!IsScalar, Scalars
<1>4. c.operator \in Admin!NumericOperators => Admin!IsContext(c.field) /\ c.value.type = "number"
  BY DEF Admin!ValidCondition
<1>5. c.operator \in Admin!PatternOperators => c.value.type = "string"
  BY DEF Admin!ValidCondition
<1>6. c.operator \in {"equals", "not_equals"} =>
          c.value.type \in Scalars /\ (Admin!IsContext(c.field) \/ c.value.type = "string")
  BY DEF Admin!ValidCondition, Admin!IsScalar, Scalars
<1>7. c.operator \in Admin!Operators
  BY DEF Admin!ValidCondition
<1>8. c.operator \notin Plain =>
          c.value.type \in Scalars /\ (Admin!IsContext(c.field) \/ c.value.type = "string")
  BY <1>4, <1>5, <1>6, <1>7 DEF Admin!Operators, Plain, Scalars
<1>9. QED
  BY <1>1, <1>2, <1>3, <1>4, <1>5, <1>8 DEF Shaped

\* The lower case is in lower case.
LEMMA LowerCaseIsLower ==
    ASSUME NEW x, x.type = "string"
    PROVE  /\ Admin!LowerCase(x).type = "string" /\ IsLower(Admin!LowerCase(x))
           /\ Admin!IsText(x.v) => Admin!IsText(Admin!LowerCase(x).v)
<1>1. PICK low : low = [i \in DOMAIN x.v |-> IF x.v[i] \in DOMAIN Lower THEN Lower[x.v[i]] ELSE x.v[i]]
  OBVIOUS
<1>2. PICK y : y = Admin!LowerCase(x) /\ y = Admin!Str(low)
  BY <1>1 DEF Admin!LowerCase
<1>3. y.type = "string" /\ y.v = low
  BY <1>2 DEF Admin!Str
<1>4. DOMAIN low = DOMAIN x.v /\ \A i \in DOMAIN low : low[i] \notin DOMAIN Lower
  BY <1>1, RulesAssumption
<1>5. low = [i \in DOMAIN low |-> IF low[i] \in DOMAIN Lower THEN Lower[low[i]] ELSE low[i]]
  <2>1. \A i \in DOMAIN low : low[i] = IF low[i] \in DOMAIN Lower THEN Lower[low[i]] ELSE low[i]
    BY <1>4
  <2>2. low = [i \in DOMAIN low |-> low[i]]
    BY <1>1
  <2>3. QED
    BY <2>1, <2>2
<1>6. Admin!LowerCase(y) = Admin!Str(low)
  BY <1>3, <1>5 DEF Admin!LowerCase
<1>7. ASSUME Admin!IsText(x.v)
      PROVE  Admin!IsText(low)
  <2>1. Len(x.v) \in Nat /\ DOMAIN x.v = 1..Len(x.v)
    BY <1>7 DEF Admin!IsText
  <2>2. low = [i \in 1..Len(x.v) |-> low[i]]
    BY <1>1, <2>1
  <2>3. QED
    BY <1>4, <2>1, <2>2, SeqFromFunction DEF Admin!IsText
<1>8. QED
  BY <1>2, <1>3, <1>6, <1>7 DEF IsLower

\* What is in lower case stays so when white space is cut off.
LEMMA TrimKeepsCase ==
    ASSUME NEW x, x.type = "string", Admin!IsText(x.v), IsLower(x)
    PROVE  Admin!LowerCase(Admin!Str(Admin!Trim(x.v))) = Admin!Str(Admin!Trim(x.v))
<1>1. PICK s : s = x.v /\ Admin!IsText(s)
  OBVIOUS
<1>2. PICK low : low = [i \in DOMAIN s |-> IF s[i] \in DOMAIN Lower THEN Lower[s[i]] ELSE s[i]]
  OBVIOUS
<1>3. Admin!Str(low) = Admin!Str(s)
  BY <1>1, <1>2 DEF IsLower, Admin!LowerCase
<1>4. low = s
  BY <1>3 DEF Admin!Str
<1>5. \A i \in DOMAIN s : s[i] \notin DOMAIN Lower
  BY <1>2, <1>4, RulesAssumption
<1>6. PICK t : t = Admin!Trim(s)
  OBVIOUS
<1>7. Admin!IsText(t) /\ \A i \in DOMAIN t : t[i] \notin DOMAIN Lower
  BY <1>1, <1>5, <1>6, TrimIsPart
<1>8. t = [i \in DOMAIN t |-> IF t[i] \in DOMAIN Lower THEN Lower[t[i]] ELSE t[i]]
  <2>1. t = [i \in DOMAIN t |-> t[i]]
    BY <1>7 DEF Admin!IsText
  <2>2. \A i \in DOMAIN t : t[i] = IF t[i] \in DOMAIN Lower THEN Lower[t[i]] ELSE t[i]
    BY <1>7
  <2>3. QED
    BY <2>1, <2>2
<1>9. Admin!Str(t).type = "string" /\ Admin!Str(t).v = t
  BY DEF Admin!Str
<1>10. Admin!LowerCase(Admin!Str(t)) = Admin!Str(t)
  BY <1>8, <1>9 DEF Admin!LowerCase
<1>11. QED
  BY <1>1, <1>6, <1>10

\* A condition as the server stores it.
AsStored(c) == [c EXCEPT !.value = Admin!CanonicalValue(c)]

LEMMA LowerCaseKeeps ==
    ASSUME NEW x
    PROVE  /\ x.type # "string" => Admin!LowerCase(x) = x
           /\ Admin!LowerCase(x).type = x.type
BY DEF Admin!LowerCase, Admin!Str

LEMMA StoredCondition ==
    ASSUME NEW c, Admin!IsReadable(c), Shaped(c)
    PROVE  Admin!IsReadable(AsStored(c)) /\ Shaped(AsStored(c)) /\ Lowered(AsStored(c))
<1>1. PICK y : y = Admin!CanonicalValue(c)
  OBVIOUS
<1>2. PICK d : d = AsStored(c)
  OBVIOUS
<1>3. DOMAIN d = {"field", "operator", "value"} /\ d.field = c.field /\ d.operator = c.operator /\ d.value = y
  BY <1>1, <1>2 DEF AsStored, Admin!IsReadable
<1>4. CASE c.field[1] \notin Admin!LowercaseFields
  <2>1. y = c.value
    BY <1>1, <1>4 DEF Admin!CanonicalValue
  <2>2. QED
    BY <1>2, <1>3, <1>4, <2>1 DEF Admin!IsReadable, Shaped, Lowered
<1>5. CASE c.field[1] \in Admin!LowercaseFields /\ c.value.type = "list"
  <2>1. PICK values : values = [i \in DOMAIN c.value.v |-> Admin!LowerCase(c.value.v[i])]
    OBVIOUS
  <2>2. y = Admin!Many(values)
    BY <1>1, <1>5, <2>1 DEF Admin!CanonicalValue
  <2>3. y.type = "list" /\ y.v = values /\ DOMAIN values = DOMAIN c.value.v
    BY <2>1, <2>2 DEF Admin!Many
  <2>4. c.operator \in Admin!ListOperators \/ c.operator \notin Plain
    BY <1>5 DEF Shaped, Plain
  <2>5. c.operator \in Admin!ListOperators
    BY <1>5, <2>4 DEF Shaped, Scalars
  <2>6. \A i \in DOMAIN values : c.value.v[i].type = "string"
    BY <1>5, <2>3, <2>5 DEF Shaped
  <2>7. \A i \in DOMAIN values : values[i].type = "string" /\ IsLower(values[i])
    BY <2>1, <2>3, <2>6, LowerCaseIsLower
  <2>8. Admin!IsReadable(d)
    BY <1>3, <2>3, <2>7 DEF Admin!IsReadable, Admin!IsSpelled
  <2>9. Shaped(d)
    BY <1>3, <1>5, <2>3, <2>5, <2>7, OperatorsDiffer DEF Shaped, Scalars, Plain
  <2>10. Lowered(d)
    BY <1>3, <2>3, <2>7 DEF Lowered
  <2>11. QED
    BY <1>2, <2>8, <2>9, <2>10
<1>6. CASE c.field[1] \in Admin!LowercaseFields /\ c.value.type # "list"
  <2>1. y = Admin!LowerCase(c.value)
    BY <1>1, <1>6 DEF Admin!CanonicalValue
  <2>2. y.type = c.value.type /\ (c.value.type # "string" => y = c.value)
    BY <2>1, LowerCaseKeeps
  <2>3. c.value.type = "string" => IsLower(y) /\ Admin!IsText(y.v)
    BY <2>1, LowerCaseIsLower DEF Admin!IsReadable
  <2>4. Admin!IsReadable(d)
    BY <1>3, <1>6, <2>2, <2>3 DEF Admin!IsReadable, Admin!IsSpelled
  <2>5. Shaped(d)
    BY <1>3, <1>6, <2>2 DEF Shaped
  <2>6. Lowered(d)
    BY <1>3, <1>6, <2>2, <2>3 DEF Lowered
  <2>7. QED
    BY <1>2, <2>4, <2>5, <2>6
<1>7. QED
  BY <1>4, <1>5, <1>6

\* A text field shows a value, and is read again.
LEMMA NumeralIsRead ==
    ASSUME NEW x, x.type = "number", Admin!IsSpelled(x)
    PROVE  Admin!Coerce(Admin!Text(x), "number") = Admin!Num(x.v)
<1>1. PICK p : p = CHOOSE q \in DOMAIN Numerals : Numerals[q] = x.v
  OBVIOUS
<1>2. p \in DOMAIN Numerals /\ Numerals[p] = x.v
  BY <1>1 DEF Admin!IsSpelled
<1>3. Admin!Text(x) = <<p>>
  BY <1>1 DEF Admin!Text
<1>4. Admin!Trim(<<p>>) = <<p>>
  <2>1. PICK t : t = Admin!Trim(<<p>>)
    OBVIOUS
  <2>2. {i \in DOMAIN <<p>> : <<p>>[i] # " "} = {1}
    <3>1. p # " "
      BY <1>2, RulesAssumption
    <3>2. DOMAIN <<p>> = {1} /\ <<p>>[1] = p
      OBVIOUS
    <3>3. QED
      BY <3>1, <3>2
  <2>3. Admin!Min({1}) = 1 /\ Admin!Max({1}) = 1
    <3>1. \A x_1 \in {1} : (\A y \in {1} : x_1 =< y) /\ (\A y \in {1} : x_1 >= y)
      OBVIOUS
    <3>2. QED
      BY <3>1 DEF Admin!Min, Admin!Max
  <2>4. t = SubSeq(<<p>>, 1, 1)
    BY <2>1, <2>2, <2>3 DEF Admin!Trim
  <2>5. QED
    BY <2>1, <2>4
<1>5. Len(<<p>>) = 1 /\ <<p>>[1] = p
  OBVIOUS
<1>6. QED
  BY <1>2, <1>3, <1>4, <1>5 DEF Admin!Coerce

LEMMA ValueIsRead ==
    ASSUME NEW x, x.type \in Scalars, Admin!IsSpelled(x), NEW type \in {"number", "boolean", "text"},
           Admin!Coerce(Admin!Text(x), type).type # "null"
    PROVE  LET y == Admin!Coerce(Admin!Text(x), type) IN
           /\ y.type \in Scalars
           /\ Admin!SpellTheSame(Admin!Text(y), Admin!Text(x))
           /\ type = "text" => y = Admin!Str(Admin!Text(x))
<1>1. PICK s : s = Admin!Text(x)
  OBVIOUS
<1>2. PICK y : y = Admin!Coerce(s, type) /\ y.type # "null"
  BY <1>1
<1>3. CASE type = "text"
  <2>1. y = Admin!Str(s)
    BY <1>2, <1>3 DEF Admin!Coerce
  <2>2. y.type = "string" /\ y.v = s
    BY <2>1 DEF Admin!Str
  <2>3. Admin!Text(y) = s
    BY <2>2 DEF Admin!Text
  <2>4. QED
    BY <1>1, <1>2, <2>1, <2>2, <2>3 DEF Admin!SpellTheSame, Scalars
<1>4. CASE type = "boolean"
  <2>1. \/ s = <<"true">> /\ y = Admin!Flag(TRUE)
        \/ s = <<"false">> /\ y = Admin!Flag(FALSE)
    BY <1>2, <1>4 DEF Admin!Coerce, Admin!Null
  <2>2. y.type = "boolean"
    BY <2>1 DEF Admin!Flag
  <2>3. Admin!Text(y) = s
    <3>1. CASE s = <<"true">> /\ y = Admin!Flag(TRUE)
      <4>1. y.type = "boolean" /\ y.v
        BY <3>1 DEF Admin!Flag
      <4>2. QED
        BY <3>1, <4>1 DEF Admin!Text
    <3>2. CASE s = <<"false">> /\ y = Admin!Flag(FALSE)
      <4>1. y.type = "boolean" /\ ~y.v
        BY <3>2 DEF Admin!Flag
      <4>2. QED
        BY <3>2, <4>1 DEF Admin!Text
    <3>3. QED
      BY <2>1, <3>1, <3>2
  <2>4. QED
    BY <1>1, <1>2, <1>4, <2>2, <2>3 DEF Admin!SpellTheSame, Scalars
<1>5. CASE type = "number"
  <2>1. PICK p \in DOMAIN Numerals : y = Admin!Num(Numerals[p])
    BY <1>2, <1>5 DEF Admin!Coerce, Admin!Null
  <2>2. y.type = "number" /\ y.v = Numerals[p] /\ Admin!IsSpelled(y)
    BY <2>1 DEF Admin!Num, Admin!IsSpelled
  <2>3. Admin!Coerce(Admin!Text(y), "number") = y
    BY <2>1, <2>2, NumeralIsRead
  <2>4. y # Admin!Null
    BY <2>2 DEF Admin!Null
  <2>5. Admin!SpellTheSame(Admin!Text(y), s)
    BY <1>2, <1>5, <2>3, <2>4 DEF Admin!SpellTheSame
  <2>6. QED
    BY <1>1, <1>2, <1>5, <2>2, <2>5 DEF Scalars
<1>6. QED
  BY <1>3, <1>4, <1>5

\* A condition that was left alone: what LeftAlone says of it.
Kept(c, d) ==
    /\ d.field = c.field /\ d.operator = c.operator
    /\ IF c.value.type = "string" THEN d.value = Admin!Str(Admin!Trim(c.value.v))
       ELSE /\ d.value.type = c.value.type
            /\ DOMAIN Admin!ValuesOf(d) = DOMAIN Admin!ValuesOf(c)
            /\ \A k \in DOMAIN Admin!ValuesOf(c) :
                  Admin!SpellTheSame(Admin!Text(Admin!ValuesOf(d)[k]), Admin!Text(Admin!ValuesOf(c)[k]))

Unedited(c) == Admin!RowToCondition(Admin!RowFromCondition(c))

LEMMA UneditedFields ==
    ASSUME NEW c
    PROVE  LET d == AsStored(Unedited(c)) IN
           /\ d.field = c.field /\ d.operator = c.operator
           /\ Unedited(c).field = c.field /\ Unedited(c).operator = c.operator
           /\ Unedited(c).value = Admin!RowValue(Admin!RowFromCondition(c))
           /\ DOMAIN Unedited(c) = {"field", "operator", "value"}
           /\ d.value = Admin!CanonicalValue(Unedited(c))
<1>1. PICK row : row = Admin!RowFromCondition(c)
  OBVIOUS
<1>2. row.field = c.field /\ row.operator = c.operator
  BY <1>1 DEF Admin!RowFromCondition
<1>3. PICK e : e = Unedited(c)
  OBVIOUS
<1>4. /\ e.field = c.field /\ e.operator = c.operator /\ e.value = Admin!RowValue(row)
      /\ DOMAIN e = {"field", "operator", "value"}
  BY <1>1, <1>2, <1>3 DEF Unedited, Admin!RowToCondition
<1>5. PICK d : d = AsStored(e)
  OBVIOUS
<1>6. d.field = e.field /\ d.operator = e.operator /\ d.value = Admin!CanonicalValue(e)
  BY <1>4, <1>5 DEF AsStored
<1>7. QED
  BY <1>1, <1>3, <1>4, <1>5, <1>6

\* A condition without a value.
LEMMA PlainIsKept ==
    ASSUME NEW c, Shaped(c), c.operator \in Admin!NoValueOperators
    PROVE  Kept(c, AsStored(Unedited(c)))
<1>1. PICK d : d = AsStored(Unedited(c))
  OBVIOUS
<1>2. PICK e : e = Unedited(c)
  OBVIOUS
<1>3. /\ d.field = c.field /\ d.operator = c.operator /\ d.value = Admin!CanonicalValue(e)
      /\ e.value = Admin!RowValue(Admin!RowFromCondition(c)) /\ e.field = c.field
  BY <1>1, <1>2, UneditedFields
<1>4. Admin!RowFromCondition(c).operator = c.operator
  BY DEF Admin!RowFromCondition
<1>5. e.value = Admin!Missing
  BY <1>3, <1>4 DEF Admin!RowValue
<1>6. e.value.type = "missing"
  BY <1>5 DEF Admin!Missing
<1>7. d.value = e.value
  BY <1>3, <1>6, LowerCaseKeeps DEF Admin!CanonicalValue
<1>8. c.value.type = "missing"
  BY DEF Shaped
<1>9. Admin!ValuesOf(c) = <<>> /\ Admin!ValuesOf(d) = <<>>
  BY <1>6, <1>7, <1>8 DEF Admin!ValuesOf
<1>10. DOMAIN <<>> = {}
  OBVIOUS
<1>11. QED
  BY <1>1, <1>3, <1>6, <1>7, <1>8, <1>9, <1>10 DEF Kept

LEMMA ListIsKept ==
    ASSUME NEW c, Admin!IsReadable(c), Shaped(c), Lowered(c), c.operator \in Admin!ListOperators,
           Admin!RowValue(Admin!RowFromCondition(c)).type # "null"
    PROVE  Kept(c, AsStored(Unedited(c)))
<1>1. PICK d : d = AsStored(Unedited(c))
  OBVIOUS
<1>2. PICK e : e = Unedited(c)
  OBVIOUS
<1>3. PICK row : row = Admin!RowFromCondition(c)
  OBVIOUS
<1>4. /\ d.field = c.field /\ d.operator = c.operator /\ d.value = Admin!CanonicalValue(e)
      /\ e.value = Admin!RowValue(row) /\ e.field = c.field
  BY <1>1, <1>2, <1>3, UneditedFields
<1>5. c.value.type = "list" /\ Admin!ValuesOf(c) = c.value.v
  BY DEF Shaped, Admin!ValuesOf
<1>6. PICK values : values = c.value.v
  OBVIOUS
<1>7. \A k \in DOMAIN values : values[k].type \in Scalars /\ Admin!IsSpelled(values[k])
  BY <1>5, <1>6 DEF Shaped, Admin!IsReadable
<1>8. PICK type : type = Admin!ReadAs(row)
  OBVIOUS
<1>9. /\ row.list = [i \in DOMAIN values |-> Admin!Text(values[i])]
      /\ row.field = c.field /\ row.operator = c.operator
      /\ row.valueType \in {"number", "boolean", "text"}
  <2>1. row.list = [i \in DOMAIN values |-> Admin!Text(values[i])]
    BY <1>3, <1>5, <1>6 DEF Admin!RowFromCondition
  <2>2. row.field = c.field /\ row.operator = c.operator
    BY <1>3 DEF Admin!RowFromCondition
  <2>3. row.valueType \in {"number", "boolean", "text"}
    BY <1>3 DEF Admin!RowFromCondition, Admin!ValueType
  <2>4. QED
    BY <2>1, <2>2, <2>3
<1>10. type \in {"number", "boolean", "text"} /\ (~Admin!IsContext(c.field) => type = "text")
  BY <1>8, <1>9, OperatorsDiffer DEF Admin!ReadAs
<1>11. PICK listed : listed = [i \in DOMAIN row.list |-> Admin!Coerce(row.list[i], Admin!ReadAs(row))]
  OBVIOUS
<1>12. DOMAIN listed = DOMAIN values /\ \A k \in DOMAIN values : listed[k] = Admin!Coerce(Admin!Text(values[k]), type)
  BY <1>8, <1>9, <1>11
<1>13. /\ e.value = Admin!Many(listed)
       /\ \A k \in DOMAIN listed : listed[k].type # "null"
  <2>1. c.operator \notin Admin!NoValueOperators
    BY OperatorsDiffer
  <2>2. Admin!RowValue(row) = IF listed = <<>> \/ \E i \in DOMAIN listed : listed[i].type = "null"
                              THEN Admin!Null ELSE Admin!Many(listed)
    BY <1>9, <1>11, <2>1 DEF Admin!RowValue
  <2>3. Admin!Null.type = "null"
    BY DEF Admin!Null
  <2>4. QED
    BY <1>3, <1>4, <2>2, <2>3
<1>14. e.value.type = "list" /\ e.value.v = listed
  BY <1>13 DEF Admin!Many
<1>15. ASSUME NEW k \in DOMAIN values
       PROVE  /\ listed[k].type \in Scalars
              /\ Admin!SpellTheSame(Admin!Text(listed[k]), Admin!Text(values[k]))
              /\ type = "text" => listed[k] = Admin!Str(Admin!Text(values[k]))
  BY <1>7, <1>10, <1>12, <1>13, ValueIsRead
<1>16. CASE c.field[1] \notin Admin!LowercaseFields
  <2>1. d.value = e.value
    BY <1>4, <1>16 DEF Admin!CanonicalValue
  <2>2. Admin!ValuesOf(d) = listed
    BY <1>14, <2>1 DEF Admin!ValuesOf
  <2>3. QED
    BY <1>1, <1>4, <1>5, <1>6, <1>12, <1>14, <1>15, <2>1, <2>2 DEF Kept
<1>17. CASE c.field[1] \in Admin!LowercaseFields
  <2>1. PICK lower : lower = [i \in DOMAIN listed |-> Admin!LowerCase(listed[i])]
    OBVIOUS
  <2>2. d.value = Admin!Many(lower)
    BY <1>4, <1>14, <1>17, <2>1 DEF Admin!CanonicalValue
  <2>3. d.value.type = "list" /\ d.value.v = lower /\ Admin!ValuesOf(d) = lower
    BY <2>2 DEF Admin!Many, Admin!ValuesOf
  <2>4. type = "text" /\ \A k \in DOMAIN values : values[k].type = "string" /\ IsLower(values[k])
    BY <1>5, <1>6, <1>10, <1>17 DEF Shaped, Lowered
  <2>5. ASSUME NEW k \in DOMAIN values
        PROVE  Admin!Text(lower[k]) = Admin!Text(values[k])
    <3>1. PICK s : s = values[k].v
      OBVIOUS
    <3>2. Admin!Text(values[k]) = s
      BY <2>4, <3>1 DEF Admin!Text
    <3>3. listed[k] = Admin!Str(s)
      BY <1>15, <2>4, <3>2
    <3>4. Admin!LowerCase(Admin!Str(s)) = Admin!LowerCase(values[k])
      <4>1. Admin!Str(s).type = "string" /\ Admin!Str(s).v = s
        BY DEF Admin!Str
      <4>2. QED
        BY <2>4, <3>1, <4>1 DEF Admin!LowerCase
    <3>5. lower[k] = Admin!Str(s)
      BY <1>12, <2>1, <2>4, <3>1, <3>3, <3>4 DEF IsLower
    <3>6. Admin!Text(Admin!Str(s)) = s
      BY DEF Admin!Str, Admin!Text
    <3>7. QED
      BY <3>2, <3>5, <3>6
  <2>6. DOMAIN lower = DOMAIN values
    BY <1>12, <2>1
  <2>7. QED
    BY <1>1, <1>4, <1>5, <1>6, <2>3, <2>5, <2>6 DEF Kept, Admin!SpellTheSame
<1>18. QED
  BY <1>16, <1>17

LEMMA SingleIsKept ==
    ASSUME NEW c, Admin!IsReadable(c), Shaped(c), Lowered(c), c.operator \notin Plain,
           Admin!RowValue(Admin!RowFromCondition(c)).type # "null"
    PROVE  Kept(c, AsStored(Unedited(c)))
<1>1. PICK d : d = AsStored(Unedited(c))
  OBVIOUS
<1>2. PICK e : e = Unedited(c)
  OBVIOUS
<1>3. PICK row : row = Admin!RowFromCondition(c)
  OBVIOUS
<1>4. /\ d.field = c.field /\ d.operator = c.operator /\ d.value = Admin!CanonicalValue(e)
      /\ e.value = Admin!RowValue(row) /\ e.field = c.field
  BY <1>1, <1>2, <1>3, UneditedFields
<1>5. PICK x : x = c.value
  OBVIOUS
<1>6. x.type \in Scalars /\ Admin!IsSpelled(x) /\ (Admin!IsContext(c.field) \/ x.type = "string")
  BY <1>5 DEF Shaped, Admin!IsReadable
<1>7. Admin!ValuesOf(c) = <<x>>
  BY <1>5, <1>6 DEF Admin!ValuesOf, Scalars
<1>8. /\ row.value = Admin!Text(x) /\ row.field = c.field /\ row.operator = c.operator
      /\ Admin!IsContext(c.field) => row.valueType = Admin!ValueType(x)
  <2>1. PICK texts : texts = [i \in DOMAIN <<x>> |-> Admin!Text(<<x>>[i])]
    OBVIOUS
  <2>2. DOMAIN <<x>> = {1} /\ <<x>>[1] = x
    OBVIOUS
  <2>3. DOMAIN texts = {1} /\ texts[1] = Admin!Text(x)
    BY <2>1, <2>2
  <2>4. texts # <<>>
    BY <2>3
  <2>5. row.value = Admin!Text(x)
    BY <1>3, <1>5, <1>6, <1>7, <2>1, <2>3 DEF Admin!RowFromCondition, Scalars
  <2>6. Admin!IsContext(c.field) => row.valueType = Admin!ValueType(x)
    BY <1>3, <1>7, <2>1, <2>2, <2>4 DEF Admin!RowFromCondition
  <2>7. row.field = c.field /\ row.operator = c.operator
    BY <1>3 DEF Admin!RowFromCondition
  <2>8. QED
    BY <2>5, <2>6, <2>7
<1>9. PICK type : type = Admin!ReadAs(row)
  OBVIOUS
<1>10. type = IF x.type = "string" THEN "text" ELSE x.type
  <2>1. CASE x.type = "string"
    <3>1. c.operator \notin Admin!NumericOperators
      BY <1>5, <2>1 DEF Shaped
    <3>2. QED
      BY <1>8, <1>9, <2>1, <3>1 DEF Admin!ReadAs, Admin!ValueType
  <2>2. CASE x.type # "string"
    <3>1. Admin!IsContext(c.field) /\ c.operator \notin Admin!PatternOperators
      BY <1>5, <1>6, <2>2 DEF Shaped
    <3>2. c.operator \in Admin!NumericOperators => x.type = "number"
      BY <1>5 DEF Shaped
    <3>3. QED
      BY <1>6, <1>8, <1>9, <2>2, <3>1, <3>2 DEF Admin!ReadAs, Admin!ValueType, Scalars
  <2>3. QED
    BY <2>1, <2>2
<1>11. PICK y : y = Admin!Coerce(Admin!Text(x), type)
  OBVIOUS
<1>12. Admin!RowValue(row) = IF y.type # "string" THEN y
                             ELSE IF Admin!Trim(y.v) = <<>> THEN Admin!Null ELSE Admin!Str(Admin!Trim(y.v))
  BY <1>8, <1>9, <1>11 DEF Admin!RowValue, Plain
<1>13. CASE x.type = "string"
  <2>1. Admin!Text(x) = x.v
    BY <1>13 DEF Admin!Text
  <2>2. y = Admin!Str(x.v)
    BY <1>10, <1>11, <1>13, <2>1 DEF Admin!Coerce
  <2>3. y.type = "string" /\ y.v = x.v
    BY <2>2 DEF Admin!Str
  <2>4. Admin!Null.type = "null"
    BY DEF Admin!Null
  <2>5. e.value = Admin!Str(Admin!Trim(x.v))
    BY <1>3, <1>4, <1>12, <2>3, <2>4
  <2>6. e.value.type = "string"
    BY <2>5 DEF Admin!Str
  <2>7. d.value = Admin!Str(Admin!Trim(x.v))
    <3>1. CASE c.field[1] \in Admin!LowercaseFields
      <4>1. d.value = Admin!LowerCase(e.value)
        BY <1>4, <2>6, <3>1 DEF Admin!CanonicalValue
      <4>2. IsLower(x) /\ Admin!IsText(x.v)
        BY <1>5, <1>13, <3>1 DEF Lowered, Admin!IsReadable
      <4>3. QED
        BY <1>13, <2>5, <4>1, <4>2, TrimKeepsCase
    <3>2. CASE c.field[1] \notin Admin!LowercaseFields
      BY <1>4, <2>5, <3>2 DEF Admin!CanonicalValue
    <3>3. QED
      BY <3>1, <3>2
  <2>8. QED
    BY <1>1, <1>4, <1>5, <1>13, <2>7 DEF Kept
<1>14. CASE x.type # "string"
  <2>1. type \in {"number", "boolean"} /\ x.type = type
    BY <1>6, <1>10, <1>14 DEF Scalars
  <2>2. y.type = x.type
    <3>1. CASE type = "number"
      <4>1. y = Admin!Num(x.v)
        BY <1>6, <1>11, <2>1, <3>1, NumeralIsRead
      <4>2. QED
        BY <2>1, <3>1, <4>1 DEF Admin!Num
    <3>2. CASE type = "boolean"
      <4>1. Admin!Text(x) = <<"true">> \/ Admin!Text(x) = <<"false">>
        BY <2>1, <3>2 DEF Admin!Text
      <4>2. y = Admin!Flag(TRUE) \/ y = Admin!Flag(FALSE)
        BY <1>11, <3>2, <4>1 DEF Admin!Coerce
      <4>3. QED
        BY <2>1, <3>2, <4>2 DEF Admin!Flag
    <3>3. QED
      BY <2>1, <3>1, <3>2
  <2>3. e.value = y
    BY <1>4, <1>12, <1>14, <2>2
  <2>4. c.field[1] \notin Admin!LowercaseFields
    BY <1>6, <1>14 DEF Shaped
  <2>5. d.value = y
    BY <1>4, <2>3, <2>4 DEF Admin!CanonicalValue
  <2>6. Admin!SpellTheSame(Admin!Text(y), Admin!Text(x))
    BY <1>6, <1>11, <2>1, <2>2, ValueIsRead
  <2>7. Admin!ValuesOf(d) = <<y>>
    BY <2>1, <2>2, <2>5 DEF Admin!ValuesOf
  <2>8. DOMAIN <<y>> = {1} /\ DOMAIN <<x>> = {1} /\ <<y>>[1] = y /\ <<x>>[1] = x
    OBVIOUS
  <2>9. QED
    BY <1>1, <1>4, <1>5, <1>7, <1>14, <2>2, <2>5, <2>6, <2>7, <2>8 DEF Kept
<1>15. QED
  BY <1>13, <1>14

\* A rule that an editor saves as it was loaded is left alone.
THEOREM RuleIsLeftAlone ==
    ASSUME NEW rule, Stored(rule), ~Admin!HasErrors(Admin!RowsOf(rule))
    PROVE  Admin!LeftAlone(rule, Admin!Canonical(Admin!Built(Admin!RowsOf(rule))))
<1>1. PICK page : page = Admin!RowsOf(rule)
  OBVIOUS
<1>2. /\ page.match = rule.match
      /\ page.rows = [i \in DOMAIN rule.conditions |-> Admin!RowFromCondition(rule.conditions[i])]
  BY <1>1 DEF Admin!RowsOf
<1>3. PICK built : built = Admin!Built(page)
  OBVIOUS
<1>4. /\ built.match = rule.match
      /\ built.conditions = [i \in DOMAIN page.rows |-> Admin!RowToCondition(page.rows[i])]
      /\ DOMAIN built = {"match", "conditions"}
  BY <1>2, <1>3 DEF Admin!Built
<1>5. DOMAIN built.conditions = DOMAIN rule.conditions /\ DOMAIN page.rows = DOMAIN rule.conditions
  BY <1>2, <1>4
<1>6. \A i \in DOMAIN rule.conditions : built.conditions[i] = Unedited(rule.conditions[i])
  BY <1>2, <1>4, <1>5 DEF Unedited
<1>7. PICK after : after = Admin!Canonical(built)
  OBVIOUS
<1>8. PICK stored : stored = [i \in DOMAIN built.conditions |-> AsStored(built.conditions[i])]
  OBVIOUS
<1>9. after = [built EXCEPT !.conditions = stored]
  BY <1>7, <1>8 DEF Admin!Canonical, AsStored
<1>10. after.match = rule.match /\ after.conditions = stored
  BY <1>4, <1>9
<1>11. ASSUME NEW i \in DOMAIN rule.conditions
       PROVE  stored[i] = AsStored(Unedited(rule.conditions[i])) /\ Kept(rule.conditions[i], stored[i])
  <2>1. PICK c : c = rule.conditions[i]
    OBVIOUS
  <2>2. Admin!IsReadable(c) /\ Shaped(c) /\ Lowered(c)
    BY <2>1 DEF Stored
  <2>3. Admin!RowValue(Admin!RowFromCondition(c)).type # "null"
    BY <1>1, <1>2, <1>5, <2>1 DEF Admin!HasErrors
  <2>4. Kept(c, AsStored(Unedited(c)))
    BY <2>2, <2>3, PlainIsKept, ListIsKept, SingleIsKept DEF Plain
  <2>5. QED
    BY <1>5, <1>6, <1>8, <2>1, <2>4
<1>12. DOMAIN stored = DOMAIN rule.conditions
  BY <1>5, <1>8
<1>13. QED
  BY <1>1, <1>3, <1>7, <1>10, <1>11, <1>12 DEF Admin!LeftAlone, Kept

\* What the server stores of a valid rule, and what it has stored to begin with.
Legible(rule) ==
    {"match", "conditions"} \subseteq DOMAIN rule /\ \A i \in DOMAIN rule.conditions : Admin!IsReadable(rule.conditions[i])
Valid(rule) == \A i \in DOMAIN rule.conditions : Shaped(rule.conditions[i])

LEMMA CanonicalIsStored ==
    ASSUME NEW rule, Legible(rule), Valid(rule)
    PROVE  Stored(Admin!Canonical(rule))
<1>1. PICK stored : stored = [i \in DOMAIN rule.conditions |-> AsStored(rule.conditions[i])]
  OBVIOUS
<1>2. PICK after : after = Admin!Canonical(rule)
  OBVIOUS
<1>3. after = [rule EXCEPT !.conditions = stored]
  BY <1>1, <1>2 DEF Admin!Canonical, AsStored
<1>4. after.conditions = stored /\ {"match", "conditions"} \subseteq DOMAIN after
  BY <1>3 DEF Legible
<1>5. DOMAIN stored = DOMAIN rule.conditions
  BY <1>1
<1>6. ASSUME NEW i \in DOMAIN stored
      PROVE  Admin!IsReadable(stored[i]) /\ Shaped(stored[i]) /\ Lowered(stored[i])
  BY <1>1, <1>5, StoredCondition DEF Legible, Valid
<1>7. QED
  BY <1>2, <1>4, <1>6 DEF Stored

LEMMA ValidGroupIsValid ==
    ASSUME NEW rule, Admin!ValidGroup(rule)
    PROVE  Valid(rule)
BY ValidIsShaped DEF Admin!ValidGroup, Valid

RowsOK(f) == \A i \in DOMAIN f.rows : Admin!IsRow(f.rows[i])

LEMMA OnePieceIsText == ASSUME NEW x PROVE Admin!IsText(<<x>>)
<1>1. PICK s : s = <<x>>
  OBVIOUS
<1>2. DOMAIN s = {1} /\ s[1] = x /\ s \in Seq({x})
  BY <1>1
<1>3. {s[i] : i \in DOMAIN s} = {x}
  BY <1>2
<1>4. QED
  BY <1>1, <1>2, <1>3 DEF Admin!IsText

LEMMA RowsAreTexts ==
    ASSUME NEW rule, Stored(rule)
    PROVE  RowsOK(Admin!RowsOf(rule))
<1>1. PICK f : f = Admin!RowsOf(rule)
  OBVIOUS
<1>2. f.rows = [i \in DOMAIN rule.conditions |-> Admin!RowFromCondition(rule.conditions[i])]
  BY <1>1 DEF Admin!RowsOf
<1>3. ASSUME NEW i \in DOMAIN rule.conditions
      PROVE  Admin!IsText(f.rows[i].value)
  <2>1. PICK c : c = rule.conditions[i]
    OBVIOUS
  <2>2. Admin!IsReadable(c) /\ Shaped(c)
    BY <2>1 DEF Stored
  <2>3. PICK row : row = Admin!RowFromCondition(c)
    OBVIOUS
  <2>4. f.rows[i] = row
    BY <1>2, <2>1, <2>3
  <2>5. CASE c.value.type \in {"list", "missing"}
    <3>1. row.value = <<>>
      BY <2>3, <2>5 DEF Admin!RowFromCondition
    <3>2. QED
      BY <2>4, <3>1 DEF Admin!IsText
  <2>6. CASE c.value.type \notin {"list", "missing"}
    <3>1. PICK texts : texts = [k \in DOMAIN <<c.value>> |-> Admin!Text(<<c.value>>[k])]
      OBVIOUS
    <3>2. DOMAIN <<c.value>> = {1} /\ <<c.value>>[1] = c.value
      OBVIOUS
    <3>3. texts[1] = Admin!Text(c.value)
      BY <3>1, <3>2
    <3>4. Admin!ValuesOf(c) = <<c.value>>
      BY <2>6 DEF Admin!ValuesOf
    <3>5. row.value = Admin!Text(c.value)
      BY <2>3, <2>6, <3>1, <3>3, <3>4 DEF Admin!RowFromCondition
    <3>6. c.value.type \in Scalars
      BY <2>2, <2>6 DEF Shaped, Plain
    <3>7. CASE c.value.type = "string"
      <4>1. Admin!Text(c.value) = c.value.v
        BY <3>7 DEF Admin!Text
      <4>2. QED
        BY <2>2, <2>4, <3>5, <3>7, <4>1 DEF Admin!IsReadable
    <3>8. CASE c.value.type # "string"
      <4>1. \E p : Admin!Text(c.value) = <<p>>
        BY <3>6, <3>8 DEF Admin!Text, Scalars
      <4>2. QED
        BY <2>4, <3>5, <4>1, OnePieceIsText
    <3>9. QED
      BY <3>7, <3>8
  <2>7. QED
    BY <2>5, <2>6
<1>4. ASSUME NEW i \in DOMAIN rule.conditions
      PROVE  f.rows[i].valueType \in {"number", "boolean", "text"}
  <2>1. PICK row : row = Admin!RowFromCondition(rule.conditions[i])
    OBVIOUS
  <2>2. row.valueType \in {"number", "boolean", "text"}
    BY <2>1 DEF Admin!RowFromCondition, Admin!ValueType
  <2>3. QED
    BY <1>2, <2>1, <2>2
<1>5. QED
  BY <1>1, <1>2, <1>3, <1>4 DEF RowsOK, Admin!IsRow

LEMMA CoerceSpells ==
    ASSUME NEW text, NEW type \in {"number", "boolean", "text"}
    PROVE  LET y == Admin!Coerce(text, type) IN
           /\ Admin!IsSpelled(y)
           /\ y.type = "string" => y.v = text
           /\ y.type # "list"
<1>1. CASE type = "number"
  <2>1. Admin!Coerce(text, type) = Admin!Null \/ \E p \in DOMAIN Numerals : Admin!Coerce(text, type) = Admin!Num(Numerals[p])
    BY <1>1 DEF Admin!Coerce
  <2>2. QED
    BY <2>1 DEF Admin!Null, Admin!Num, Admin!IsSpelled
<1>2. CASE type = "boolean"
  <2>1. \/ Admin!Coerce(text, type) = Admin!Null \/ Admin!Coerce(text, type) = Admin!Flag(TRUE)
        \/ Admin!Coerce(text, type) = Admin!Flag(FALSE)
    BY <1>2 DEF Admin!Coerce
  <2>2. QED
    BY <2>1 DEF Admin!Null, Admin!Flag, Admin!IsSpelled
<1>3. CASE type = "text"
  <2>1. Admin!Coerce(text, type) = Admin!Str(text)
    BY <1>3 DEF Admin!Coerce
  <2>2. QED
    BY <2>1 DEF Admin!Str, Admin!IsSpelled
<1>4. QED
  BY <1>1, <1>2, <1>3

LEMMA ConditionIsReadable ==
    ASSUME NEW row, Admin!IsRow(row)
    PROVE  Admin!IsReadable(Admin!RowToCondition(row))
<1>1. PICK type \in {"number", "boolean", "text"} : type = Admin!ReadAs(row)
  BY DEF Admin!IsRow, Admin!ReadAs
<1>2. PICK single : single = Admin!Coerce(row.value, type)
  OBVIOUS
<1>3. PICK listed : listed = [i \in DOMAIN row.list |-> Admin!Coerce(row.list[i], type)]
  OBVIOUS
<1>4. PICK v : v = Admin!RowValue(row)
  OBVIOUS
<1>5. \/ v = Admin!Missing \/ v = Admin!Null \/ v = Admin!Many(listed)
      \/ v = single /\ single.type # "string"
      \/ v = Admin!Str(Admin!Trim(single.v)) /\ single.type = "string"
  BY <1>1, <1>2, <1>3, <1>4 DEF Admin!RowValue
<1>6. /\ v.type = "string" => Admin!IsText(v.v)
      /\ Admin!IsSpelled(v)
      /\ v.type = "list" => \A k \in DOMAIN v.v : Admin!IsSpelled(v.v[k])
  <2>1. CASE v = Admin!Missing \/ v = Admin!Null
    BY <2>1 DEF Admin!Missing, Admin!Null, Admin!IsSpelled
  <2>2. CASE v = Admin!Many(listed)
    <3>1. v.type = "list" /\ v.v = listed
      BY <2>2 DEF Admin!Many
    <3>2. \A k \in DOMAIN listed : Admin!IsSpelled(listed[k])
      BY <1>3, CoerceSpells
    <3>3. QED
      BY <3>1, <3>2 DEF Admin!IsSpelled
  <2>3. CASE v = single /\ single.type # "string"
    BY <1>2, <2>3, CoerceSpells
  <2>4. CASE v = Admin!Str(Admin!Trim(single.v)) /\ single.type = "string"
    <3>1. v.type = "string" /\ v.v = Admin!Trim(single.v)
      BY <2>4 DEF Admin!Str
    <3>2. single.v = row.value
      BY <1>2, <2>4, CoerceSpells
    <3>3. Admin!IsText(v.v)
      BY <3>1, <3>2, TrimIsPart DEF Admin!IsRow
    <3>4. QED
      BY <3>1, <3>3 DEF Admin!IsSpelled
  <2>5. QED
    BY <1>5, <2>1, <2>2, <2>3, <2>4
<1>7. PICK c : c = Admin!RowToCondition(row)
  OBVIOUS
<1>8. DOMAIN c = {"field", "operator", "value"} /\ c.value = v
  BY <1>4, <1>7 DEF Admin!RowToCondition
<1>9. QED
  BY <1>6, <1>7, <1>8 DEF Admin!IsReadable

LEMMA BuiltIsLegible ==
    ASSUME NEW f, RowsOK(f)
    PROVE  Legible(Admin!Built(f))
<1>1. PICK rule : rule = Admin!Built(f)
  OBVIOUS
<1>2. /\ DOMAIN rule = {"match", "conditions"}
      /\ rule.conditions = [i \in DOMAIN f.rows |-> Admin!RowToCondition(f.rows[i])]
  BY <1>1 DEF Admin!Built
<1>3. \A i \in DOMAIN rule.conditions : Admin!IsReadable(rule.conditions[i])
  BY <1>2, ConditionIsReadable DEF RowsOK
<1>4. QED
  BY <1>1, <1>2, <1>3 DEF Legible

LEMMA FirstRuleIsStored == Stored(FirstRule)
<1>1. Legible(FirstRule) /\ Admin!ValidGroup(FirstRule) /\ Admin!Canonical(FirstRule) = FirstRule
  BY RulesAssumption DEF Legible
<1>2. Valid(FirstRule)
  BY <1>1, ValidGroupIsValid
<1>3. Stored(Admin!Canonical(FirstRule))
  BY <1>1, <1>2, CanonicalIsStored
<1>4. QED
  BY <1>1, <1>3

----------------------------------------------------------------------------
(* PolicyAdmin: a version is what its editor made of the version before it.                     *)

PageFields == {"page", "form", "agents", "edited", "loaded", "filled", "loading", "saving", "conflict"}
CallFields == {"stage", "by", "id", "rule", "agents", "expected", "edited"}

HasRow(p) ==
    /\ DOMAIN policies[p] = {"version", "rule", "agents", "archived"}
    /\ policies[p].version \in Nat /\ policies[p].version > 0
    /\ Stored(policies[p].rule)

VersionsOf(p) == {v \in versions : v.id = p}

HistoryOK(p) ==
    /\ policies[p] = Admin!NoRow \/ HasRow(p)
    /\ IsFiniteSet(VersionsOf(p)) /\ Cardinality(VersionsOf(p)) = policies[p].version
    /\ {v.version : v \in VersionsOf(p)} = 1..policies[p].version
    /\ \A v \in VersionsOf(p) : v.version = policies[p].version =>
          v.rule = policies[p].rule /\ v.agents = policies[p].agents

VersionsOK ==
    /\ \A v \in versions : v.id \in Policies /\ Stored(v.rule)
    /\ \A v, w \in versions : v.id = w.id /\ v.version = w.version => v = w

\* What an editor has not changed is as in the version that was loaded.
Loads(page) ==
    \E v \in versions :
        /\ v.id = page.page /\ v.version = page.loaded
        /\ "rule" \notin page.edited => page.form = Admin!RowsOf(v.rule)
        /\ "agents" \notin page.edited => page.agents = v.agents

PageOK(page) ==
    page = Admin!Elsewhere \/
        /\ DOMAIN page = PageFields
        /\ page.page \in Policies \cup {"new"}
        /\ page.page \in Policies => HasRow(page.page)
        /\ page.page = "new" => ~page.loading /\ ~page.conflict
        /\ RowsOK(page.form)
        /\ page.loaded \in Nat
        /\ page.loaded > 0 => Loads(page)

Saves(q) ==
    \E v \in versions :
        /\ v.id = q.id /\ v.version = q.expected
        /\ "rule" \notin q.edited =>
              q.rule = Admin!Built(Admin!RowsOf(v.rule)) /\ ~Admin!HasErrors(Admin!RowsOf(v.rule))
        /\ "agents" \notin q.edited => q.agents = v.agents

QueryOK(q) ==
    /\ DOMAIN q = CallFields
    /\ q.stage \in {"sent", "commit", "saved", "refused", "conflict"}
    /\ q.by \in Editors \cup {None}
    /\ q.id \in Policies \cup {"new"}
    /\ q.id \in Policies => HasRow(q.id)
    /\ q.id = "new" => q.stage \in {"sent", "commit", "refused"}
    /\ Legible(q.rule)
    /\ q.stage = "commit" => Valid(q.rule)
    /\ q.id \in Policies /\ q.stage \in {"sent", "commit"} => Saves(q)

\* The page that waits for an answer stays, and stays where it is.
Waits(k) ==
    LET page == editor[call[k].by] IN
    /\ DOMAIN page = PageFields /\ page.saving = k
    /\ page.page = call[k].id \/ (call[k].stage = "saved" /\ call[k].expected = 0)

CallOK(k) == call[k] = Admin!Idle \/ (QueryOK(call[k]) /\ (call[k].by # None => Waits(k)))

AdminInv ==
    /\ DOMAIN policies = Policies /\ DOMAIN editor = Editors /\ DOMAIN call = Calls
    /\ \A p \in Policies : HistoryOK(p)
    /\ VersionsOK /\ Admin!NothingIsReverted
    /\ \A e \in Editors : PageOK(editor[e])
    /\ \A k \in Calls : CallOK(k)

LEMMA IdleIsNoQuery ==
    /\ Admin!Idle.stage = "idle"
    /\ \A q : QueryOK(q) => q # Admin!Idle
    /\ \A page : DOMAIN page = PageFields => page # Admin!Elsewhere
<1>1. Admin!Idle.stage = "idle"
  BY DEF Admin!Idle
<1>2. DOMAIN Admin!Elsewhere = {"page"} /\ "form" \in PageFields
  BY DEF Admin!Elsewhere, PageFields
<1>3. QED
  BY <1>1, <1>2 DEF QueryOK

\* Policies and versions only become more.
Grows ==
    /\ versions \subseteq versions'
    /\ \A p \in Policies : HasRow(p) => HasRow(p)'

LEMMA PageOKStays ==
    ASSUME NEW page, PageOK(page), Grows
    PROVE  PageOK(page)'
BY DEF PageOK, Grows, Loads

LEMMA QueryOKStays ==
    ASSUME NEW q, QueryOK(q), Grows
    PROVE  QueryOK(q)'
BY DEF QueryOK, Grows, Saves

LEMMA AdminMoves ==
    ASSUME AdminInv, Grows, DOMAIN policies' = Policies, DOMAIN editor' = Editors, DOMAIN call' = Calls,
           \A p \in Policies : HistoryOK(p)', VersionsOK', Admin!NothingIsReverted',
           \A e \in Editors : editor'[e] = editor[e] \/ PageOK(editor[e])',
           \A k \in Calls : \/ call'[k] = Admin!Idle
                            \/ /\ call'[k] = call[k] \/ QueryOK(call[k])'
                               /\ call'[k] # Admin!Idle /\ call'[k].by # None => Waits(k)'
    PROVE  AdminInv'
<1>1. ASSUME NEW e \in Editors
      PROVE  PageOK(editor[e])'
  <2>1. PICK page : page = editor'[e]
    OBVIOUS
  <2>2. CASE editor'[e] = editor[e]
    <3>1. PageOK(page)
      BY <2>1, <2>2 DEF AdminInv
    <3>2. PageOK(page)'
      BY <3>1, PageOKStays
    <3>3. QED
      BY <2>1, <3>2
  <2>3. QED
    BY <2>2
<1>2. ASSUME NEW k \in Calls
      PROVE  CallOK(k)'
  <2>1. PICK q : q = call'[k]
    OBVIOUS
  <2>2. CASE call'[k] = call[k] /\ call'[k] # Admin!Idle
    <3>1. QueryOK(q)
      BY <2>1, <2>2 DEF AdminInv, CallOK
    <3>2. QueryOK(q)'
      BY <3>1, QueryOKStays
    <3>3. QED
      BY <2>1, <2>2, <3>2 DEF CallOK
  <2>3. CASE call'[k] = Admin!Idle
    BY <2>3 DEF CallOK, Admin!Idle
  <2>4. CASE QueryOK(call[k])' /\ (call'[k] # Admin!Idle /\ call'[k].by # None => Waits(k)')
    <3>1. QueryOK(q)'
      BY <2>1, <2>4
    <3>2. q # Admin!Idle
      BY <3>1 DEF QueryOK, Admin!Idle
    <3>3. QED
      BY <2>1, <2>4, <3>2 DEF CallOK
  <2>5. QED
    BY <2>2, <2>3, <2>4
<1>3. QED
  BY <1>1, <1>2 DEF AdminInv

\* The database stays as it is.
LEMMA AdminRests ==
    ASSUME AdminInv, UNCHANGED <<policies, versions>>
    PROVE  /\ Grows /\ DOMAIN policies' = Policies
           /\ \A p \in Policies : HistoryOK(p)'
           /\ VersionsOK' /\ Admin!NothingIsReverted'
<1>1. \A p \in Policies : (HasRow(p) <=> HasRow(p)') /\ VersionsOf(p)' = VersionsOf(p)
  BY DEF HasRow, VersionsOf
<1>2. \A p \in Policies : HistoryOK(p)'
  BY <1>1 DEF AdminInv, HistoryOK
<1>3. VersionsOK'
  BY DEF AdminInv, VersionsOK
<1>4. Admin!NothingIsReverted'
  BY DEF AdminInv, Admin!NothingIsReverted
<1>5. QED
  BY <1>1, <1>2, <1>3, <1>4 DEF AdminInv, Grows

\* A page changes.
LEMMA PageMoves ==
    ASSUME AdminInv, NEW e \in Editors, NEW page, Admin!Page(e, page), UNCHANGED <<policies, versions, call>>, PageOK(page),
           \/ editor[e] = Admin!Elsewhere
           \/ editor[e].saving = None
           \/ DOMAIN page = PageFields /\ page.saving = editor[e].saving /\ page.page = editor[e].page
    PROVE  AdminInv'
<1>1. DOMAIN editor' = Editors /\ \A d \in Editors : editor'[d] = IF d = e THEN page ELSE editor[d]
  BY DEF AdminInv, Admin!Page
<1>2. /\ Grows /\ DOMAIN policies' = Policies
      /\ \A p \in Policies : HistoryOK(p)'
      /\ VersionsOK' /\ Admin!NothingIsReverted'
  BY AdminRests
<1>3. PageOK(page)'
  BY <1>2, PageOKStays
<1>4. \A d \in Editors : editor'[d] = editor[d] \/ PageOK(editor[d])'
  BY <1>1, <1>3
<1>5. ASSUME NEW k \in Calls, call[k] # Admin!Idle, call[k].by # None
      PROVE  Waits(k)'
  <2>1. Waits(k) /\ call[k].by \in Editors
    BY <1>5 DEF AdminInv, CallOK, QueryOK
  <2>2. CASE call[k].by = e
    <3>1. editor[e] # Admin!Elsewhere /\ editor[e].saving = k /\ k # None
      BY <2>1, <2>2, IdleIsNoQuery, ControlPlaneAssumption DEF Waits
    <3>2. DOMAIN page = PageFields /\ page.saving = editor[e].saving /\ page.page = editor[e].page
      BY <3>1
    <3>3. QED
      BY <1>1, <2>1, <2>2, <3>2 DEF Waits
  <2>3. CASE call[k].by # e
    BY <1>1, <2>1, <2>3 DEF Waits
  <2>4. QED
    BY <2>2, <2>3
<1>6. DOMAIN call' = Calls /\ \A k \in Calls : call'[k] = call[k]
  BY DEF AdminInv
<1>7. QED
  BY <1>1, <1>2, <1>4, <1>5, <1>6, AdminMoves

\* A page that shows a policy as it is.
LEMMA LoadedPageOK ==
    ASSUME AdminInv, NEW page, DOMAIN page = PageFields, page.page \in Policies, HasRow(page.page),
           page.form = Admin!RowsOf(policies[page.page].rule), page.agents = policies[page.page].agents,
           page.loaded = policies[page.page].version
    PROVE  PageOK(page)
<1>1. PICK p \in Policies : p = page.page
  OBVIOUS
<1>2. HasRow(p) /\ HistoryOK(p)
  BY <1>1 DEF AdminInv
<1>3. policies[p].version \in {v.version : v \in VersionsOf(p)}
  BY <1>2 DEF HasRow, HistoryOK
<1>4. Loads(page)
  BY <1>1, <1>2, <1>3 DEF Loads, VersionsOf, HistoryOK
<1>5. RowsOK(page.form)
  BY <1>1, <1>2, RowsAreTexts DEF HasRow
<1>6. QED
  BY <1>1, <1>2, <1>4, <1>5, ControlPlaneAssumption DEF PageOK, HasRow

LEMMA OpenedPageOK ==
    ASSUME NEW p \in Policies \cup {"new"}, p \in Policies => HasRow(p)
    PROVE  PageOK(Admin!Opened(p)) /\ DOMAIN Admin!Opened(p) = PageFields /\ Admin!Opened(p).page = p
<1>1. PICK page : page = Admin!Opened(p)
  OBVIOUS
<1>2. DOMAIN page = PageFields /\ page.page = p /\ page.loaded = 0
  BY <1>1 DEF Admin!Opened, PageFields
<1>3. page.form = [match |-> "all", rows |-> <<>>] /\ page.conflict = FALSE /\ page.loading = (p # "new")
  BY <1>1 DEF Admin!Opened
<1>4. RowsOK(page.form)
  BY <1>3 DEF RowsOK
<1>5. page.page = "new" => ~page.loading /\ ~page.conflict
  BY <1>2, <1>3
<1>6. QED
  BY <1>1, <1>2, <1>4, <1>5 DEF PageOK

LEMMA AdminOpens == ASSUME AdminInv, NEW e \in Editors, Admin!Open(e) PROVE AdminInv'
<1>1. PICK p \in {q \in Policies : policies[q] # Admin!NoRow} \cup {"new"} : Admin!Page(e, Admin!Opened(p))
  BY DEF Admin!Open
<1>2. p \in Policies \cup {"new"} /\ (p \in Policies => HasRow(p))
  BY ControlPlaneAssumption DEF AdminInv, HistoryOK
<1>3. PageOK(Admin!Opened(p))
  BY <1>2, OpenedPageOK
<1>4. UNCHANGED <<policies, versions, call>> /\ editor[e] = Admin!Elsewhere
  BY DEF Admin!Open
<1>5. QED
  BY <1>1, <1>3, <1>4, PageMoves

\* What a page is that an editor sees.
LEMMA ShownPage ==
    ASSUME AdminInv, NEW e \in Editors, editor[e] # Admin!Elsewhere
    PROVE  /\ PageOK(editor[e]) /\ DOMAIN editor[e] = PageFields
           /\ editor[e].page \in Policies \cup {"new"}
           /\ editor[e].page \in Policies => HasRow(editor[e].page)
           /\ editor[e].page = "new" => ~editor[e].loading /\ ~editor[e].conflict
           /\ RowsOK(editor[e].form) /\ editor[e].loaded \in Nat
           /\ editor[e].loaded > 0 => Loads(editor[e])
BY DEF AdminInv, PageOK

LEMMA AdminReceives == ASSUME AdminInv, NEW e \in Editors, Admin!Receive(e) PROVE AdminInv'
<1>1. editor[e] # Admin!Elsewhere /\ editor[e].loading /\ UNCHANGED <<policies, versions, call>>
  BY DEF Admin!Receive
<1>2. PICK p \in Policies : p = editor[e].page /\ HasRow(p) /\ DOMAIN editor[e] = PageFields
  BY <1>1, ShownPage
<1>3. PICK row : row = policies[p]
  OBVIOUS
<1>4. PICK page : page = [Admin!Loaded(editor[e], row) EXCEPT !.filled = TRUE, !.loading = FALSE]
  OBVIOUS
<1>5. /\ DOMAIN page = PageFields /\ page.page = p /\ page.saving = editor[e].saving
      /\ page.form = Admin!RowsOf(row.rule) /\ page.agents = row.agents /\ page.loaded = row.version
  BY <1>2, <1>4 DEF Admin!Loaded, PageFields
<1>6. Admin!Page(e, page)
  BY <1>2, <1>3, <1>4 DEF Admin!Receive
<1>7. PageOK(page)
  BY <1>2, <1>3, <1>5, LoadedPageOK
<1>8. QED
  BY <1>1, <1>2, <1>5, <1>6, <1>7, PageMoves

\* A page that keeps what it loaded.
LEMMA PageStays ==
    ASSUME AdminInv, NEW e \in Editors, editor[e] # Admin!Elsewhere, NEW page,
           Admin!Page(e, page), UNCHANGED <<policies, versions, call>>,
           DOMAIN page = PageFields, page.page = editor[e].page, page.saving = editor[e].saving,
           page.loaded = editor[e].loaded, RowsOK(page.form),
           page.page = "new" => ~page.loading /\ ~page.conflict,
           editor[e].edited \subseteq page.edited,
           "rule" \notin page.edited => page.form = editor[e].form,
           "agents" \notin page.edited => page.agents = editor[e].agents
    PROVE  AdminInv'
<1>1. Loads(editor[e]) => Loads(page)
  BY DEF Loads
<1>2. PageOK(page)
  BY <1>1, ShownPage DEF PageOK
<1>3. QED
  BY <1>2, PageMoves

LEMMA AdminEdits ==
    ASSUME AdminInv, NEW e \in Editors, Admin!Edit(e) \/ Admin!FetchFails(e) \/ Admin!ReloadLatest(e)
    PROVE  AdminInv'
<1>1. editor[e] # Admin!Elsewhere /\ UNCHANGED <<policies, versions, call>>
  BY DEF Admin!Edit, Admin!FetchFails, Admin!ReloadLatest, Admin!Shown
<1>2. DOMAIN editor[e] = PageFields /\ RowsOK(editor[e].form)
      /\ (editor[e].page = "new" => ~editor[e].loading /\ ~editor[e].conflict)
  BY <1>1, ShownPage
<1>3. CASE \E draft \in Drafts : Admin!Page(e, [editor[e] EXCEPT !.form = draft, !.edited = @ \cup {"rule"}])
  <2>1. PICK draft \in Drafts : Admin!Page(e, [editor[e] EXCEPT !.form = draft, !.edited = @ \cup {"rule"}])
    BY <1>3
  <2>2. PICK page : page = [editor[e] EXCEPT !.form = draft, !.edited = @ \cup {"rule"}]
    OBVIOUS
  <2>3. RowsOK(draft)
    BY RulesAssumption DEF RowsOK
  <2>4. /\ DOMAIN page = PageFields /\ page.page = editor[e].page /\ page.saving = editor[e].saving
        /\ page.loaded = editor[e].loaded /\ page.form = draft /\ page.agents = editor[e].agents
        /\ page.loading = editor[e].loading /\ page.conflict = editor[e].conflict
        /\ page.edited = editor[e].edited \cup {"rule"}
    BY <1>2, <2>2 DEF PageFields
  <2>5. QED
    BY <1>1, <1>2, <2>1, <2>2, <2>3, <2>4, PageStays
<1>4. CASE \E chosen \in AgentSets : Admin!Page(e, [editor[e] EXCEPT !.agents = chosen, !.edited = @ \cup {"agents"}])
  <2>1. PICK chosen \in AgentSets : Admin!Page(e, [editor[e] EXCEPT !.agents = chosen, !.edited = @ \cup {"agents"}])
    BY <1>4
  <2>2. PICK page : page = [editor[e] EXCEPT !.agents = chosen, !.edited = @ \cup {"agents"}]
    OBVIOUS
  <2>3. /\ DOMAIN page = PageFields /\ page.page = editor[e].page /\ page.saving = editor[e].saving
        /\ page.loaded = editor[e].loaded /\ page.form = editor[e].form
        /\ page.loading = editor[e].loading /\ page.conflict = editor[e].conflict
        /\ page.edited = editor[e].edited \cup {"agents"}
    BY <1>2, <2>2 DEF PageFields
  <2>4. QED
    BY <1>1, <1>2, <2>1, <2>2, <2>3, PageStays
<1>5. CASE Admin!FetchFails(e)
  <2>1. PICK page : page = [editor[e] EXCEPT !.loading = FALSE]
    OBVIOUS
  <2>2. /\ DOMAIN page = PageFields /\ page.page = editor[e].page /\ page.saving = editor[e].saving
        /\ page.loaded = editor[e].loaded /\ page.form = editor[e].form /\ page.agents = editor[e].agents
        /\ page.loading = FALSE /\ page.conflict = editor[e].conflict /\ page.edited = editor[e].edited
    BY <1>2, <2>1 DEF PageFields
  <2>3. Admin!Page(e, page)
    BY <1>5, <2>1 DEF Admin!FetchFails
  <2>4. QED
    BY <1>1, <1>2, <2>2, <2>3, PageStays
<1>6. CASE Admin!ReloadLatest(e)
  <2>1. PICK page : page = [editor[e] EXCEPT !.conflict = FALSE, !.filled = FALSE, !.loading = TRUE]
    OBVIOUS
  <2>2. /\ DOMAIN page = PageFields /\ page.page = editor[e].page /\ page.saving = editor[e].saving
        /\ page.loaded = editor[e].loaded /\ page.form = editor[e].form /\ page.agents = editor[e].agents
        /\ page.edited = editor[e].edited
    BY <1>2, <2>1 DEF PageFields
  <2>3. Admin!Page(e, page) /\ editor[e].conflict
    BY <1>6, <2>1 DEF Admin!ReloadLatest
  <2>4. QED
    BY <1>1, <1>2, <2>2, <2>3, PageStays
<1>7. QED
  BY <1>3, <1>4, <1>5, <1>6 DEF Admin!Edit

\* A request and the page that made it change together.
LEMMA BothMove ==
    ASSUME AdminInv, NEW e \in Editors, NEW page, Admin!Page(e, page), PageOK(page),
           NEW k \in Calls, NEW q, Admin!Sends(k, q), UNCHANGED <<policies, versions>>,
           editor[e] # Admin!Elsewhere, editor[e].saving \in {None, k},
           \/ q = Admin!Idle
           \/ /\ QueryOK(q)
              /\ q.by # None => /\ q.by = e /\ DOMAIN page = PageFields
                                /\ page.saving = k /\ page.page = q.id
    PROVE  AdminInv'
<1>1. /\ DOMAIN editor' = Editors /\ \A d \in Editors : editor'[d] = IF d = e THEN page ELSE editor[d]
      /\ DOMAIN call' = Calls /\ \A n \in Calls : call'[n] = IF n = k THEN q ELSE call[n]
  BY DEF AdminInv, Admin!Page, Admin!Sends
<1>2. /\ Grows /\ DOMAIN policies' = Policies
      /\ \A p \in Policies : HistoryOK(p)'
      /\ VersionsOK' /\ Admin!NothingIsReverted'
  BY AdminRests
<1>3. PageOK(page)' /\ (q = Admin!Idle \/ QueryOK(q)')
  BY <1>2, PageOKStays, QueryOKStays
<1>4. \A d \in Editors : editor'[d] = editor[d] \/ PageOK(editor[d])'
  BY <1>1, <1>3
<1>5. ASSUME NEW n \in Calls, n # k, call[n] # Admin!Idle, call[n].by # None
      PROVE  Waits(n)'
  <2>1. Waits(n) /\ call[n].by \in Editors
    BY <1>5 DEF AdminInv, CallOK, QueryOK
  <2>2. call[n].by # e
    BY <1>5, <2>1, ControlPlaneAssumption DEF Waits
  <2>3. QED
    BY <1>1, <1>5, <2>1, <2>2 DEF Waits
<1>6. q # Admin!Idle /\ q.by # None => Waits(k)'
  BY <1>1 DEF Waits
<1>7. ASSUME NEW n \in Calls
      PROVE  \/ call'[n] = Admin!Idle
             \/ /\ call'[n] = call[n] \/ QueryOK(call[n])'
                /\ call'[n] # Admin!Idle /\ call'[n].by # None => Waits(n)'
  <2>1. CASE n = k
    BY <1>1, <1>3, <1>6, <2>1
  <2>2. CASE n # k
    BY <1>1, <1>5, <2>2
  <2>3. QED
    BY <2>1, <2>2
<1>8. QED
  BY <1>1, <1>2, <1>4, <1>7, AdminMoves

\* A request goes on at the server.
LEMMA QueryMoves ==
    ASSUME AdminInv, NEW k \in Calls, NEW q, Admin!Sends(k, q), UNCHANGED <<policies, versions, editor>>,
           \/ q = Admin!Idle
           \/ /\ QueryOK(q) /\ call[k] # Admin!Idle /\ call[k].stage # "saved"
              /\ q.by = call[k].by /\ q.id = call[k].id
    PROVE  AdminInv'
<1>1. DOMAIN call' = Calls /\ \A n \in Calls : call'[n] = IF n = k THEN q ELSE call[n]
  BY DEF AdminInv, Admin!Sends
<1>2. /\ Grows /\ DOMAIN policies' = Policies
      /\ \A p \in Policies : HistoryOK(p)'
      /\ VersionsOK' /\ Admin!NothingIsReverted'
  BY AdminRests
<1>3. q = Admin!Idle \/ QueryOK(q)'
  BY <1>2, QueryOKStays
<1>4. \A n \in Calls : call[n] # Admin!Idle /\ call[n].by # None => Waits(n)
  BY DEF AdminInv, CallOK
<1>5. ASSUME NEW n \in Calls
      PROVE  \/ call'[n] = Admin!Idle
             \/ /\ call'[n] = call[n] \/ QueryOK(call[n])'
                /\ call'[n] # Admin!Idle /\ call'[n].by # None => Waits(n)'
  <2>1. CASE n = k
    <3>1. QueryOK(q) => (q.by # None => Waits(k)')
      BY <1>1, <1>4, IdleIsNoQuery DEF Waits
    <3>2. QED
      BY <1>1, <1>3, <2>1, <3>1
  <2>2. CASE n # k
    BY <1>1, <1>4, <2>2 DEF Waits
  <2>3. QED
    BY <2>1, <2>2
<1>6. DOMAIN editor' = Editors /\ \A d \in Editors : editor'[d] = editor[d]
  BY DEF AdminInv
<1>7. QED
  BY <1>1, <1>2, <1>5, <1>6, AdminMoves

LEMMA AdminSaves == ASSUME AdminInv, NEW e \in Editors, Admin!Save(e) PROVE AdminInv'
<1>1. /\ editor[e] # Admin!Elsewhere /\ (editor[e].page = "new" \/ editor[e].loaded > 0) /\ editor[e].saving = None
      /\ ~Admin!HasErrors(editor[e].form) /\ UNCHANGED <<policies, versions>>
  BY DEF Admin!Save, Admin!Shown
<1>2. PICK k \in Calls : k = CHOOSE n \in Calls : call[n] = Admin!Idle
  BY DEF Admin!Save
<1>3. PICK q : q = [stage |-> "sent", by |-> e, id |-> editor[e].page, rule |-> Admin!Built(editor[e].form),
                    agents |-> editor[e].agents, expected |-> editor[e].loaded, edited |-> editor[e].edited]
  OBVIOUS
<1>4. PICK page : page = [editor[e] EXCEPT !.saving = k, !.conflict = FALSE]
  OBVIOUS
<1>5. Admin!Sends(k, q) /\ Admin!Page(e, page)
  BY <1>2, <1>3, <1>4 DEF Admin!Save, Admin!Sends
<1>6. /\ DOMAIN editor[e] = PageFields /\ PageOK(editor[e]) /\ RowsOK(editor[e].form)
      /\ editor[e].page \in Policies \cup {"new"}
      /\ editor[e].page \in Policies => HasRow(editor[e].page)
      /\ editor[e].page = "new" => ~editor[e].loading
      /\ editor[e].loaded \in Nat
      /\ editor[e].loaded > 0 => Loads(editor[e])
  BY <1>1, ShownPage
<1>7. /\ DOMAIN page = PageFields /\ page.page = editor[e].page /\ page.saving = k /\ page.conflict = FALSE
      /\ page.loaded = editor[e].loaded /\ page.form = editor[e].form /\ page.agents = editor[e].agents
      /\ page.loading = editor[e].loading /\ page.edited = editor[e].edited
  BY <1>4, <1>6 DEF PageFields
<1>8. PageOK(page)
  BY <1>6, <1>7 DEF PageOK, Loads
<1>9. /\ q.stage = "sent" /\ q.by = e /\ q.id = editor[e].page /\ q.rule = Admin!Built(editor[e].form)
      /\ q.agents = editor[e].agents /\ q.expected = editor[e].loaded /\ q.edited = editor[e].edited
  BY <1>3
<1>10. DOMAIN q = CallFields
  BY <1>3 DEF CallFields
<1>11. Legible(q.rule)
  BY <1>6, <1>9, BuiltIsLegible
<1>12. q.id \in Policies => Saves(q)
  <2>1. q.id \in Policies => Loads(editor[e])
    BY <1>1, <1>6, <1>9, ControlPlaneAssumption
  <2>2. Loads(editor[e]) => Saves(q)
    BY <1>1, <1>9 DEF Loads, Saves
  <2>3. QED
    BY <2>1, <2>2
<1>13. QueryOK(q)
  BY <1>6, <1>9, <1>10, <1>11, <1>12 DEF QueryOK
<1>14. q.by # None => q.by = e /\ DOMAIN page = PageFields /\ page.saving = k /\ page.page = q.id
  BY <1>7, <1>9
<1>15. QED
  BY <1>1, <1>5, <1>8, <1>13, <1>14, BothMove

\* What a request is that is under way.
LEMMA QueryUnderWay ==
    ASSUME AdminInv, NEW k \in Calls, call[k].stage # "idle"
    PROVE  call[k] # Admin!Idle /\ QueryOK(call[k]) /\ (call[k].by # None => Waits(k))
BY IdleIsNoQuery DEF AdminInv, CallOK

LEMMA Refuses ==
    ASSUME AdminInv, NEW k \in Calls, call[k].stage \in {"sent", "commit"}, NEW code \in {"refused", "conflict"},
           call[k].id # "new" \/ code = "refused",
           Admin!Refuse(k, code), UNCHANGED <<policies, versions, editor>>
    PROVE  AdminInv'
<1>1. call[k] # Admin!Idle /\ QueryOK(call[k])
  BY QueryUnderWay
<1>2. PICK q : q = [call[k] EXCEPT !.stage = code]
  OBVIOUS
<1>3. /\ DOMAIN q = CallFields /\ q.stage = code /\ q.by = call[k].by /\ q.id = call[k].id /\ q.rule = call[k].rule
  BY <1>1, <1>2 DEF QueryOK, CallFields
<1>4. QueryOK(q)
  BY <1>1, <1>3 DEF QueryOK
<1>5. Admin!Sends(k, q)
  BY <1>2 DEF Admin!Refuse
<1>6. QED
  BY <1>1, <1>3, <1>4, <1>5, QueryMoves

\* The server accepts a request for now.
LEMMA Accepts ==
    ASSUME AdminInv, NEW k \in Calls, call[k].stage = "sent", Admin!ValidGroup(call[k].rule),
           NEW q, q = [call[k] EXCEPT !.stage = "commit"],
           Admin!Sends(k, q), UNCHANGED <<policies, versions, editor>>
    PROVE  AdminInv'
<1>1. call[k] # Admin!Idle /\ QueryOK(call[k])
  BY QueryUnderWay
<1>2. /\ DOMAIN q = CallFields /\ q.stage = "commit" /\ q.by = call[k].by /\ q.id = call[k].id /\ q.rule = call[k].rule
      /\ q.expected = call[k].expected /\ q.edited = call[k].edited /\ q.agents = call[k].agents
  BY <1>1 DEF QueryOK, CallFields
<1>3. Valid(q.rule)
  BY <1>2, ValidGroupIsValid
<1>4. Saves(call[k]) => Saves(q)
  BY <1>2 DEF Saves
<1>5. QueryOK(q)
  BY <1>1, <1>2, <1>3, <1>4 DEF QueryOK
<1>6. QED
  BY <1>1, <1>2, <1>5, QueryMoves

LEMMA AdminChecks == ASSUME AdminInv, NEW k \in Calls, Admin!CheckUpdate(k) \/ Admin!CheckCreate(k) PROVE AdminInv'
<1>1. call[k].stage = "sent" /\ UNCHANGED <<policies, versions, editor>>
  BY DEF Admin!CheckUpdate, Admin!CheckCreate
<1>2. call[k] # Admin!Idle /\ QueryOK(call[k])
  BY <1>1, QueryUnderWay
<1>3. CASE Admin!CheckUpdate(k)
  <2>1. PICK policy : policy = policies[call[k].id]
    OBVIOUS
  <2>2. call[k].id # "new"
    BY <1>3 DEF Admin!CheckUpdate
  <2>3. \/ Admin!Refuse(k, "refused") \/ Admin!Refuse(k, "conflict")
        \/ /\ Admin!ValidGroup(call[k].rule) /\ call[k].expected = policy.version
           /\ Admin!Sends(k, [call[k] EXCEPT !.stage = "commit", !.expected = policy.version])
    BY <1>3, <2>1 DEF Admin!CheckUpdate, Admin!AsExpected
  <2>4. CASE Admin!Refuse(k, "refused") \/ Admin!Refuse(k, "conflict")
    BY <1>1, <2>2, <2>4, Refuses
  <2>5. CASE /\ Admin!ValidGroup(call[k].rule) /\ call[k].expected = policy.version
             /\ Admin!Sends(k, [call[k] EXCEPT !.stage = "commit", !.expected = policy.version])
    <3>1. PICK q : q = [call[k] EXCEPT !.stage = "commit", !.expected = policy.version]
      OBVIOUS
    <3>2. /\ DOMAIN q = CallFields /\ q.stage = "commit" /\ q.by = call[k].by /\ q.id = call[k].id
          /\ q.rule = call[k].rule /\ q.expected = call[k].expected /\ q.edited = call[k].edited
          /\ q.agents = call[k].agents
      BY <1>2, <2>5, <3>1 DEF QueryOK, CallFields
    <3>3. Valid(q.rule)
      BY <2>5, <3>2, ValidGroupIsValid
    <3>4. Saves(call[k]) => Saves(q)
      BY <3>2 DEF Saves
    <3>5. QueryOK(q)
      BY <1>1, <1>2, <3>2, <3>3, <3>4 DEF QueryOK
    <3>6. QED
      BY <1>1, <1>2, <2>5, <3>1, <3>2, <3>5, QueryMoves
  <2>6. QED
    BY <2>3, <2>4, <2>5
<1>4. CASE Admin!CheckCreate(k)
  <2>1. \/ Admin!Refuse(k, "refused")
        \/ Admin!ValidGroup(call[k].rule) /\ Admin!Refuse(k, "commit")
    BY <1>4 DEF Admin!CheckCreate
  <2>2. CASE Admin!Refuse(k, "refused")
    BY <1>1, <2>2, Refuses
  <2>3. CASE Admin!ValidGroup(call[k].rule) /\ Admin!Refuse(k, "commit")
    BY <1>1, <2>3, Accepts DEF Admin!Refuse
  <2>4. QED
    BY <2>1, <2>2, <2>3
<1>5. QED
  BY <1>3, <1>4

\* The page that a call belongs to.
LEMMA Caller ==
    ASSUME AdminInv, NEW k \in Calls, call[k] # Admin!Idle, call[k].by # None
    PROVE  /\ call[k].by \in Editors
           /\ editor[call[k].by] # Admin!Elsewhere /\ DOMAIN editor[call[k].by] = PageFields
           /\ editor[call[k].by].saving = k
           /\ editor[call[k].by].page = call[k].id \/ (call[k].stage = "saved" /\ call[k].expected = 0)
           /\ QueryOK(call[k])
BY IdleIsNoQuery DEF AdminInv, CallOK, QueryOK, Waits

LEMMA AdminAnswers == ASSUME AdminInv, NEW k \in Calls, Admin!Answer(k) PROVE AdminInv'
<1>1. /\ call[k].stage = "saved" /\ call[k].by # None /\ Admin!Sends(k, Admin!Idle) /\ UNCHANGED <<policies, versions>>
  BY DEF Admin!Answer
<1>2. call[k] # Admin!Idle
  BY <1>1, IdleIsNoQuery
<1>3. PICK e \in Editors : /\ e = call[k].by /\ editor[e] # Admin!Elsewhere /\ DOMAIN editor[e] = PageFields
                           /\ editor[e].saving = k /\ QueryOK(call[k])
                           /\ editor[e].page = call[k].id \/ call[k].expected = 0
  BY <1>1, <1>2, Caller
<1>4. PICK p \in Policies : p = call[k].id /\ HasRow(p)
  BY <1>1, <1>3 DEF QueryOK
<1>5. CASE call[k].expected = 0
  <2>1. Admin!Page(e, Admin!Opened(p))
    BY <1>3, <1>4, <1>5 DEF Admin!Answer
  <2>2. PageOK(Admin!Opened(p))
    BY <1>4, OpenedPageOK
  <2>3. QED
    BY <1>1, <1>3, <2>1, <2>2, BothMove
<1>6. CASE call[k].expected # 0
  <2>1. PICK page : page = [Admin!Loaded(editor[e], policies[p]) EXCEPT !.saving = None, !.loading = ~editor[e].filled]
    OBVIOUS
  <2>2. Admin!Page(e, page)
    BY <1>3, <1>4, <1>6, <2>1 DEF Admin!Answer
  <2>3. DOMAIN page = PageFields /\ page.page = p
    BY <1>3, <1>4, <1>6, <2>1 DEF Admin!Loaded, PageFields
  <2>4. page.form = Admin!RowsOf(policies[p].rule)
    BY <1>3, <2>1 DEF Admin!Loaded, PageFields
  <2>5. page.agents = policies[p].agents /\ page.loaded = policies[p].version
    BY <1>3, <2>1 DEF Admin!Loaded, PageFields
  <2>6. PageOK(page)
    BY <1>4, <2>3, <2>4, <2>5, LoadedPageOK
  <2>7. QED
    BY <1>1, <1>3, <2>2, <2>6, BothMove
<1>7. QED
  BY <1>5, <1>6

\* A page that no longer waits.
LEMMA PageGoesOn ==
    ASSUME AdminInv, NEW e \in Editors, editor[e] # Admin!Elsewhere,
           NEW page, DOMAIN page = PageFields, page.page = editor[e].page, page.loaded = editor[e].loaded,
           page.form = editor[e].form, page.agents = editor[e].agents, page.edited = editor[e].edited,
           page.loading = editor[e].loading, page.page = "new" => ~page.conflict
    PROVE  PageOK(page)
<1>1. Loads(editor[e]) => Loads(page)
  BY DEF Loads
<1>2. QED
  BY <1>1, ShownPage DEF PageOK

LEMMA AdminIsRefused == ASSUME AdminInv, NEW k \in Calls, Admin!Refused(k) PROVE AdminInv'
<1>1. /\ call[k].stage \in {"refused", "conflict"} /\ call[k].by # None
      /\ Admin!Sends(k, Admin!Idle) /\ UNCHANGED <<policies, versions>>
  BY DEF Admin!Refused
<1>2. call[k] # Admin!Idle
  BY <1>1, IdleIsNoQuery
<1>3. PICK e \in Editors : /\ e = call[k].by /\ editor[e] # Admin!Elsewhere /\ DOMAIN editor[e] = PageFields
                           /\ editor[e].saving = k /\ editor[e].page = call[k].id /\ QueryOK(call[k])
  BY <1>1, <1>2, Caller
<1>4. PICK page : page = [editor[e] EXCEPT !.saving = None, !.conflict = call[k].stage = "conflict"]
  OBVIOUS
<1>5. Admin!Page(e, page)
  BY <1>3, <1>4 DEF Admin!Refused
<1>6. /\ DOMAIN page = PageFields /\ page.page = editor[e].page /\ page.loaded = editor[e].loaded
      /\ page.form = editor[e].form /\ page.agents = editor[e].agents /\ page.edited = editor[e].edited
      /\ page.loading = editor[e].loading
  BY <1>3, <1>4 DEF PageFields
<1>7. page.conflict = (call[k].stage = "conflict")
  BY <1>3, <1>4 DEF PageFields
<1>8. page.page = "new" => call[k].stage # "conflict"
  BY <1>3, <1>6 DEF QueryOK
<1>9. page.page = "new" => ~page.conflict
  BY <1>7, <1>8
<1>10. PageOK(page)
  BY <1>3, <1>6, <1>9, PageGoesOn
<1>11. QED
  BY <1>1, <1>3, <1>5, <1>10, BothMove

LEMMA UnheardQuery ==
    ASSUME NEW q, QueryOK(q)
    PROVE  Admin!Unheard(q) = Admin!Idle \/ (QueryOK(Admin!Unheard(q)) /\ Admin!Unheard(q).by = None)
<1>1. CASE q.stage \in {"sent", "commit"}
  <2>1. PICK new : new = Admin!Unheard(q)
    OBVIOUS
  <2>2. /\ DOMAIN new = CallFields /\ new.by = None /\ new.stage = q.stage /\ new.id = q.id
        /\ new.rule = q.rule /\ new.expected = q.expected /\ new.edited = q.edited
        /\ new.agents = q.agents
    BY <1>1, <2>1 DEF Admin!Unheard, QueryOK, CallFields
  <2>3. Saves(q) => Saves(new)
    BY <2>2 DEF Saves
  <2>4. QueryOK(new)
    BY <2>2, <2>3 DEF QueryOK
  <2>5. QED
    BY <2>1, <2>2, <2>4
<1>2. CASE q.stage \notin {"sent", "commit"}
  BY <1>2 DEF Admin!Unheard
<1>3. QED
  BY <1>1, <1>2

LEMMA IdleIsUnheard == Admin!Unheard(Admin!Idle) = Admin!Idle
BY DEF Admin!Unheard, Admin!Idle

LEMMA AdminLoses == ASSUME AdminInv, NEW k \in Calls, Admin!Lose(k) PROVE AdminInv'
<1>1. call[k] # Admin!Idle /\ call[k].by # None /\ UNCHANGED <<policies, versions>>
  BY DEF Admin!Lose
<1>2. PICK e \in Editors : /\ e = call[k].by /\ editor[e] # Admin!Elsewhere /\ DOMAIN editor[e] = PageFields
                           /\ editor[e].saving = k /\ QueryOK(call[k])
  BY <1>1, Caller
<1>3. PICK page : page = [editor[e] EXCEPT !.saving = None]
  OBVIOUS
<1>4. Admin!Page(e, page)
  BY <1>2, <1>3 DEF Admin!Lose
<1>5. /\ DOMAIN page = PageFields /\ page.page = editor[e].page /\ page.loaded = editor[e].loaded
      /\ page.form = editor[e].form /\ page.agents = editor[e].agents /\ page.edited = editor[e].edited
      /\ page.loading = editor[e].loading /\ page.conflict = editor[e].conflict
  BY <1>2, <1>3 DEF PageFields
<1>6. PageOK(page)
  BY <1>2, <1>5, PageGoesOn, ShownPage
<1>7. PICK q : q = Admin!Unheard(call[k])
  OBVIOUS
<1>8. Admin!Sends(k, q)
  BY <1>7 DEF Admin!Lose
<1>9. q = Admin!Idle \/ (QueryOK(q) /\ q.by = None)
  BY <1>2, <1>7, UnheardQuery
<1>10. QED
  BY <1>1, <1>2, <1>4, <1>6, <1>8, <1>9, BothMove

\* What a page leaves behind: its request, if there is one, is not waited for any more.
LEMMA LeftBehind ==
    ASSUME AdminInv, NEW e \in Editors, editor[e] # Admin!Elsewhere, Admin!GoesElsewhere(e)
    PROVE  /\ DOMAIN editor' = Editors /\ DOMAIN call' = Calls
           /\ \A d \in Editors : editor'[d] = IF d = e THEN Admin!Elsewhere ELSE editor[d]
           /\ \A k \in Calls :
                 \/ call'[k] = call[k] /\ (call[k] = Admin!Idle \/ call[k].by # e)
                 \/ call'[k] = Admin!Idle
                 \/ QueryOK(call'[k]) /\ call'[k].by = None
<1>1. PICK s : s = editor[e].saving
  OBVIOUS
<1>2. /\ DOMAIN editor' = Editors
      /\ \A d \in Editors : editor'[d] = IF d = e THEN Admin!Elsewhere ELSE editor[d]
  BY DEF Admin!GoesElsewhere, Admin!Page, AdminInv
<1>3. ASSUME NEW k \in Calls, k # s
      PROVE  call[k] = Admin!Idle \/ call[k].by # e
  BY <1>1, <1>3, ControlPlaneAssumption DEF AdminInv, CallOK, Waits
<1>4. CASE s = None
  <2>1. call' = call
    BY <1>1, <1>4 DEF Admin!GoesElsewhere
  <2>2. QED
    BY <1>2, <1>3, <1>4, <2>1, ControlPlaneAssumption DEF AdminInv
<1>5. CASE s # None
  <2>1. PICK q : q = Admin!Unheard(call[s])
    OBVIOUS
  <2>2. Admin!Sends(s, q)
    BY <1>1, <1>5, <2>1 DEF Admin!GoesElsewhere
  <2>3. DOMAIN call' = Calls /\ \A k \in Calls : call'[k] = IF k = s THEN q ELSE call[k]
    BY <2>2 DEF Admin!Sends, AdminInv
  <2>4. s \in Calls => q = Admin!Idle \/ (QueryOK(q) /\ q.by = None)
    BY <2>1, IdleIsUnheard, UnheardQuery DEF AdminInv, CallOK
  <2>5. QED
    BY <1>2, <1>3, <2>3, <2>4
<1>6. QED
  BY <1>4, <1>5

LEMMA AdminAbandons == ASSUME AdminInv, NEW k \in Calls, Admin!Abandon(k) PROVE AdminInv'
BY QueryMoves DEF Admin!Abandon

\* A page that goes elsewhere, beside anything else that keeps the history.
LEMMA ElsewhereMoves ==
    ASSUME AdminInv, NEW e \in Editors, editor[e] # Admin!Elsewhere, Admin!GoesElsewhere(e),
           Grows, DOMAIN policies' = Policies,
           \A p \in Policies : HistoryOK(p)', VersionsOK', Admin!NothingIsReverted'
    PROVE  AdminInv'
<1>1. /\ DOMAIN editor' = Editors /\ DOMAIN call' = Calls
      /\ \A d \in Editors : editor'[d] = IF d = e THEN Admin!Elsewhere ELSE editor[d]
      /\ \A k \in Calls :
            \/ call'[k] = call[k] /\ (call[k] = Admin!Idle \/ call[k].by # e)
            \/ call'[k] = Admin!Idle
            \/ QueryOK(call'[k]) /\ call'[k].by = None
  BY LeftBehind
<1>2. \A d \in Editors : editor'[d] = editor[d] \/ PageOK(editor[d])'
  BY <1>1 DEF PageOK
<1>3. ASSUME NEW k \in Calls
      PROVE  \/ call'[k] = Admin!Idle
             \/ /\ call'[k] = call[k] \/ QueryOK(call[k])'
                /\ call'[k] # Admin!Idle /\ call'[k].by # None => Waits(k)'
  <2>1. CASE call'[k] = call[k] /\ call[k] # Admin!Idle /\ call[k].by # e
    <3>1. call[k].by # None => Waits(k) /\ call[k].by \in Editors
      BY <2>1 DEF AdminInv, CallOK, QueryOK
    <3>2. call[k].by # None => Waits(k)'
      BY <1>1, <2>1, <3>1 DEF Waits
    <3>3. QED
      BY <2>1, <3>2
  <2>2. CASE QueryOK(call'[k]) /\ call'[k].by = None
    <3>1. PICK q : q = call'[k]
      OBVIOUS
    <3>2. QueryOK(q)'
      BY <2>2, <3>1, QueryOKStays
    <3>3. QED
      BY <2>2, <3>1, <3>2
  <2>3. QED
    BY <1>1, <2>1, <2>2
<1>4. QED
  BY <1>1, <1>2, <1>3, AdminMoves

LEMMA AdminLeaves == ASSUME AdminInv, NEW e \in Editors, Admin!Leave(e) PROVE AdminInv'
<1>1. /\ editor[e] # Admin!Elsewhere /\ Admin!GoesElsewhere(e)
      /\ UNCHANGED <<policies, versions>>
  BY DEF Admin!Leave
<1>2. /\ Grows /\ DOMAIN policies' = Policies
      /\ \A p \in Policies : HistoryOK(p)'
      /\ VersionsOK' /\ Admin!NothingIsReverted'
  BY <1>1, AdminRests
<1>3. QED
  BY <1>1, <1>2, ElsewhereMoves

\* Archived policies keep their versions.
LEMMA AdminArchives == ASSUME AdminInv, NEW e \in Editors, Admin!Archive(e) PROVE AdminInv'
<1>1. /\ editor[e] # Admin!Elsewhere /\ editor[e].page # "new"
      /\ policies' = [policies EXCEPT ![editor[e].page].archived = TRUE]
      /\ Admin!GoesElsewhere(e) \/ UNCHANGED <<editor, call>>
      /\ UNCHANGED versions
  BY DEF Admin!Archive, Admin!Shown
<1>2. PICK p \in Policies : p = editor[e].page /\ HasRow(p)
  BY <1>1, ShownPage
<1>3. PICK row : row = [policies[p] EXCEPT !.archived = TRUE]
  OBVIOUS
<1>4. /\ DOMAIN row = {"version", "rule", "agents", "archived"} /\ row.version = policies[p].version
      /\ row.rule = policies[p].rule /\ row.agents = policies[p].agents
  BY <1>2, <1>3 DEF HasRow
<1>5. DOMAIN policies' = Policies /\ \A r \in Policies : policies'[r] = IF r = p THEN row ELSE policies[r]
  BY <1>1, <1>2, <1>3 DEF AdminInv
<1>6. \A r \in Policies : VersionsOf(r)' = VersionsOf(r) /\ (HasRow(r) => HasRow(r)')
  BY <1>1, <1>2, <1>4, <1>5 DEF HasRow, VersionsOf
<1>7. \A r \in Policies : HistoryOK(r)'
  <2>1. ASSUME NEW r \in Policies, r # p
        PROVE  HistoryOK(r)'
    BY <1>5, <1>6, <2>1 DEF AdminInv, HistoryOK
  <2>2. HistoryOK(p)'
    BY <1>2, <1>4, <1>5, <1>6 DEF AdminInv, HistoryOK
  <2>3. QED
    BY <2>1, <2>2
<1>8. Grows /\ VersionsOK' /\ Admin!NothingIsReverted'
  BY <1>1, <1>6 DEF Grows, AdminInv, VersionsOK, Admin!NothingIsReverted
<1>9. CASE Admin!GoesElsewhere(e)
  BY <1>1, <1>5, <1>7, <1>8, <1>9, ElsewhereMoves
<1>10. CASE UNCHANGED <<editor, call>>
  <2>1. \A k \in Calls : call[k] # Admin!Idle /\ call[k].by # None => Waits(k)'
    BY <1>10 DEF AdminInv, CallOK, Waits
  <2>2. DOMAIN editor' = Editors /\ DOMAIN call' = Calls
    BY <1>10 DEF AdminInv
  <2>3. QED
    BY <1>5, <1>7, <1>8, <1>10, <2>1, <2>2, AdminMoves
<1>11. QED
  BY <1>1, <1>9, <1>10

\* A policy gets its next version.
Follows(p, n, rule, bound, edited) ==
    /\ n \in Nat /\ policies[p].version = n /\ Stored(rule)
    /\ policies' = [policies EXCEPT ![p] = Admin!Row(n + 1, rule, bound)]
    /\ versions' = versions \cup {Admin!Version(p, n + 1, rule, bound, edited)}
    /\ \A v \in versions : v.id = p /\ v.version = n =>
          /\ "rule" \notin edited => Admin!LeftAlone(v.rule, rule)
          /\ "agents" \notin edited => bound = v.agents

LEMMA NextVersion ==
    ASSUME AdminInv, NEW p \in Policies, NEW n, NEW rule, NEW bound, NEW edited,
           Follows(p, n, rule, bound, edited)
    PROVE  /\ Grows /\ DOMAIN policies' = Policies /\ HasRow(p)'
           /\ \A r \in Policies : HistoryOK(r)'
           /\ VersionsOK' /\ Admin!NothingIsReverted'
<1>. /\ n \in Nat /\ policies[p].version = n /\ Stored(rule)
     /\ policies' = [policies EXCEPT ![p] = Admin!Row(n + 1, rule, bound)]
     /\ versions' = versions \cup {Admin!Version(p, n + 1, rule, bound, edited)}
     /\ \A v \in versions : v.id = p /\ v.version = n =>
           /\ "rule" \notin edited => Admin!LeftAlone(v.rule, rule)
           /\ "agents" \notin edited => bound = v.agents
  BY DEF Follows
<1>1. PICK row : row = Admin!Row(n + 1, rule, bound)
  OBVIOUS
<1>2. PICK w : w = Admin!Version(p, n + 1, rule, bound, edited)
  OBVIOUS
<1>3. /\ DOMAIN row = {"version", "rule", "agents", "archived"}
      /\ row.version = n + 1 /\ row.rule = rule /\ row.agents = bound
  BY <1>1 DEF Admin!Row
<1>4. w.id = p /\ w.version = n + 1 /\ w.rule = rule /\ w.agents = bound /\ w.edited = edited
  BY <1>2 DEF Admin!Version
<1>5. DOMAIN policies' = Policies /\ \A r \in Policies : policies'[r] = IF r = p THEN row ELSE policies[r]
  BY <1>1 DEF AdminInv
<1>6. versions' = versions \cup {w}
  BY <1>2
<1>7. HasRow(p)'
  BY <1>3, <1>5 DEF HasRow
<1>8. \A r \in Policies : r # p => (HasRow(r) <=> HasRow(r)') /\ VersionsOf(r)' = VersionsOf(r)
  BY <1>4, <1>5, <1>6 DEF HasRow, VersionsOf
<1>9. Grows
  BY <1>6, <1>7, <1>8 DEF Grows
<1>10. HistoryOK(p) /\ VersionsOf(p)' = VersionsOf(p) \cup {w}
  BY <1>4, <1>6 DEF AdminInv, VersionsOf
<1>11. \A v \in VersionsOf(p) : v.version \in 1..n
  BY <1>10 DEF HistoryOK
<1>12. w \notin VersionsOf(p)
  BY <1>4, <1>11
<1>13. HistoryOK(p)'
  <2>1. IsFiniteSet(VersionsOf(p)') /\ Cardinality(VersionsOf(p)') = n + 1
    BY <1>10, <1>12, FS_AddElement DEF HistoryOK
  <2>2. {v.version : v \in VersionsOf(p)'} = 1..(n + 1)
    <3>1. {v.version : v \in VersionsOf(p)'} = {v.version : v \in VersionsOf(p)} \cup {n + 1}
      BY <1>4, <1>10
    <3>2. {v.version : v \in VersionsOf(p)} = 1..n
      BY <1>10 DEF HistoryOK
    <3>3. QED
      BY <3>1, <3>2
  <2>3. \A v \in VersionsOf(p)' : v.version = n + 1 => v.rule = rule /\ v.agents = bound
    BY <1>4, <1>10, <1>11
  <2>4. QED
    BY <1>3, <1>5, <1>7, <2>1, <2>2, <2>3 DEF HistoryOK
<1>14. ASSUME NEW r \in Policies
       PROVE  HistoryOK(r)'
  <2>1. CASE r # p
    BY <1>5, <1>8, <2>1 DEF AdminInv, HistoryOK
  <2>2. QED
    BY <1>13, <2>1
<1>15. VersionsOK'
  <2>1. \A v \in versions : v.id = p => v # w /\ v.version # n + 1
    BY <1>11, <1>12 DEF VersionsOf
  <2>2. QED
    BY <1>4, <1>6, <2>1 DEF AdminInv, VersionsOK
<1>16. Admin!NothingIsReverted'
  <2>1. \A v \in versions : v.id = p => v.version \in Nat /\ v.version # n + 2 /\ v.version # n + 1
    BY <1>11 DEF VersionsOf
  <2>2. SUFFICES ASSUME NEW v \in versions', NEW x \in versions', v.id = x.id, x.version = v.version + 1
                 PROVE  /\ "rule" \notin x.edited => Admin!LeftAlone(v.rule, x.rule)
                        /\ "agents" \notin x.edited => x.agents = v.agents
    BY DEF Admin!NothingIsReverted
  <2>3. CASE v \in versions /\ x \in versions
    BY <2>2, <2>3 DEF AdminInv, Admin!NothingIsReverted
  <2>4. CASE v \in versions /\ x = w
    <3>1. v.id = p /\ v.version = n
      BY <1>4, <2>1, <2>2, <2>4
    <3>2. QED
      BY <1>4, <2>4, <3>1
  <2>5. CASE v = w
    BY <1>4, <1>6, <2>1, <2>2, <2>5
  <2>6. QED
    BY <1>6, <2>3, <2>4, <2>5
<1>17. QED
  BY <1>5, <1>7, <1>9, <1>14, <1>15, <1>16

\* A request is answered after the database has changed.
LEMMA QueryEnds ==
    ASSUME AdminInv, NEW k \in Calls, NEW q, Admin!Sends(k, q), UNCHANGED editor,
           call[k] # Admin!Idle, q.by = call[k].by, QueryOK(q)',
           q.id = call[k].id \/ (q.stage = "saved" /\ q.expected = 0), call[k].stage # "saved",
           Grows, DOMAIN policies' = Policies, \A p \in Policies : HistoryOK(p)',
           VersionsOK', Admin!NothingIsReverted'
    PROVE  AdminInv'
<1>1. DOMAIN call' = Calls /\ \A n \in Calls : call'[n] = IF n = k THEN q ELSE call[n]
  BY DEF AdminInv, Admin!Sends
<1>2. \A n \in Calls : call[n] # Admin!Idle /\ call[n].by # None => Waits(n)
  BY DEF AdminInv, CallOK
<1>3. ASSUME NEW n \in Calls
      PROVE  \/ call'[n] = Admin!Idle
             \/ /\ call'[n] = call[n] \/ QueryOK(call[n])'
                /\ call'[n] # Admin!Idle /\ call'[n].by # None => Waits(n)'
  <2>1. CASE n = k
    <3>1. q.by # None => Waits(k)'
      BY <1>1, <1>2 DEF Waits
    <3>2. QED
      BY <1>1, <2>1, <3>1
  <2>2. CASE n # k
    BY <1>1, <1>2, <2>2 DEF Waits
  <2>3. QED
    BY <2>1, <2>2
<1>4. DOMAIN editor' = Editors /\ \A d \in Editors : editor'[d] = editor[d]
  BY DEF AdminInv
<1>5. QED
  BY <1>1, <1>3, <1>4, AdminMoves

LEMMA AdminCommits == ASSUME AdminInv, NEW k \in Calls, Admin!CommitUpdate(k) PROVE AdminInv'
<1>1. call[k].stage = "commit" /\ call[k].id # "new" /\ UNCHANGED editor
  BY DEF Admin!CommitUpdate
<1>2. call[k] # Admin!Idle /\ QueryOK(call[k])
  BY <1>1, QueryUnderWay
<1>3. PICK p \in Policies : p = call[k].id /\ HasRow(p)
  BY <1>1, <1>2 DEF QueryOK
<1>4. PICK n : n = policies[p].version
  OBVIOUS
<1>5. CASE Admin!Refuse(k, "conflict") /\ UNCHANGED <<policies, versions>>
  BY <1>1, <1>5, Refuses
<1>6. CASE /\ Admin!Commits(policies[p], call[k])
           /\ policies' = [policies EXCEPT ![p] =
                              IF Admin!Guard(policies[p], call[k])
                              THEN Admin!Row(call[k].expected + 1, Admin!Canonical(call[k].rule), call[k].agents)
                              ELSE [policies[p] EXCEPT !.agents = call[k].agents]]
           /\ versions' = versions \cup {Admin!Version(p, call[k].expected + 1, Admin!Canonical(call[k].rule),
                                                       call[k].agents, call[k].edited)}
           /\ Admin!Refuse(k, "saved")
  <2>1. call[k].expected = n /\ Admin!Guard(policies[p], call[k])
    BY <1>4, <1>6 DEF Admin!Commits, Admin!Guard
  <2>2. n \in Nat
    BY <1>3, <1>4 DEF HasRow
  <2>3. PICK rule : rule = Admin!Canonical(call[k].rule)
    OBVIOUS
  <2>4. Stored(rule)
    BY <1>1, <1>2, <2>3, CanonicalIsStored DEF QueryOK
  <2>5. PICK bound : bound = call[k].agents
    OBVIOUS
  <2>6. PICK edited : edited = call[k].edited
    OBVIOUS
  <2>7. /\ policies' = [policies EXCEPT ![p] = Admin!Row(n + 1, rule, bound)]
        /\ versions' = versions \cup {Admin!Version(p, n + 1, rule, bound, edited)}
    BY <1>6, <2>1, <2>3, <2>5, <2>6
  <2>8. PICK u \in versions :
           /\ u.id = p /\ u.version = n
           /\ "rule" \notin edited =>
                 call[k].rule = Admin!Built(Admin!RowsOf(u.rule)) /\ ~Admin!HasErrors(Admin!RowsOf(u.rule))
           /\ "agents" \notin edited => bound = u.agents
    BY <1>1, <1>2, <1>3, <2>1, <2>5, <2>6 DEF QueryOK, Saves
  <2>9. Stored(u.rule) /\ \A v \in versions : v.id = p /\ v.version = n => v = u
    BY <2>8 DEF AdminInv, VersionsOK
  <2>10. "rule" \notin edited => Admin!LeftAlone(u.rule, rule)
    BY <2>3, <2>8, <2>9, RuleIsLeftAlone
  <2>11. \A v \in versions : v.id = p /\ v.version = n =>
            /\ "rule" \notin edited => Admin!LeftAlone(v.rule, rule)
            /\ "agents" \notin edited => bound = v.agents
    BY <2>8, <2>9, <2>10
  <2>12. /\ Grows /\ DOMAIN policies' = Policies /\ HasRow(p)'
         /\ \A r \in Policies : HistoryOK(r)'
         /\ VersionsOK' /\ Admin!NothingIsReverted'
    <3>1. Follows(p, n, rule, bound, edited)
      BY <1>4, <2>2, <2>4, <2>7, <2>11 DEF Follows
    <3>2. QED
      BY <3>1, NextVersion
  <2>13. PICK q : q = [call[k] EXCEPT !.stage = "saved"]
    OBVIOUS
  <2>14. /\ DOMAIN q = CallFields /\ q.stage = "saved" /\ q.by = call[k].by /\ q.id = p /\ q.rule = call[k].rule
    BY <1>2, <1>3, <2>13 DEF QueryOK, CallFields
  <2>15. QueryOK(q)'
    BY <1>2, <2>12, <2>14, ControlPlaneAssumption DEF QueryOK
  <2>16. Admin!Sends(k, q)
    BY <1>6, <2>13 DEF Admin!Refuse
  <2>17. QED
    BY <1>1, <1>2, <1>3, <2>12, <2>14, <2>15, <2>16, QueryEnds
<1>7. QED
  BY <1>3, <1>5, <1>6 DEF Admin!CommitUpdate

LEMMA AdminCreates == ASSUME AdminInv, NEW k \in Calls, Admin!CommitCreate(k) PROVE AdminInv'
<1>1. call[k].stage = "commit" /\ call[k].id = "new" /\ UNCHANGED editor
  BY DEF Admin!CommitCreate
<1>2. call[k] # Admin!Idle /\ QueryOK(call[k])
  BY <1>1, QueryUnderWay
<1>3. PICK rule : rule = Admin!Canonical(call[k].rule)
  OBVIOUS
<1>4. Stored(rule)
  BY <1>1, <1>2, <1>3, CanonicalIsStored DEF QueryOK
<1>5. PICK bound : bound = call[k].agents
  OBVIOUS
<1>6. PICK edited : edited = call[k].edited
  OBVIOUS
<1>7. PICK p \in Policies :
         /\ policies[p] = Admin!NoRow
         /\ policies' = [policies EXCEPT ![p] = Admin!Row(1, rule, bound)]
         /\ versions' = versions \cup {Admin!Version(p, 1, rule, bound, edited)}
         /\ Admin!Sends(k, [call[k] EXCEPT !.stage = "saved", !.id = p, !.expected = 0])
  BY <1>3, <1>5, <1>6 DEF Admin!CommitCreate
<1>8. policies[p].version = 0
  BY <1>7 DEF Admin!NoRow
<1>9. \A v \in versions : ~(v.id = p /\ v.version = 0)
  <2>1. \A v \in VersionsOf(p) : v.version \in 1..0
    BY <1>8 DEF AdminInv, HistoryOK
  <2>2. QED
    BY <2>1 DEF VersionsOf
<1>10. /\ Grows /\ DOMAIN policies' = Policies /\ HasRow(p)'
       /\ \A r \in Policies : HistoryOK(r)'
       /\ VersionsOK' /\ Admin!NothingIsReverted'
  <2>1. 0 \in Nat /\ 0 + 1 = 1
    OBVIOUS
  <2>2. PICK n \in Nat : n = 0
    OBVIOUS
  <2>3. /\ policies[p].version = n
        /\ policies' = [policies EXCEPT ![p] = Admin!Row(n + 1, rule, bound)]
        /\ versions' = versions \cup {Admin!Version(p, n + 1, rule, bound, edited)}
        /\ \A v \in versions : ~(v.id = p /\ v.version = n)
    BY <1>7, <1>8, <1>9, <2>1, <2>2
  <2>4. Follows(p, n, rule, bound, edited)
    BY <1>4, <2>2, <2>3 DEF Follows
  <2>5. QED
    BY <2>4, NextVersion
<1>11. PICK q : q = [call[k] EXCEPT !.stage = "saved", !.id = p, !.expected = 0]
  OBVIOUS
<1>12. /\ DOMAIN q = CallFields /\ q.stage = "saved" /\ q.by = call[k].by /\ q.id = p
       /\ q.rule = call[k].rule /\ q.expected = 0
  BY <1>2, <1>11 DEF QueryOK, CallFields
<1>13. QueryOK(q)'
  BY <1>2, <1>10, <1>12, ControlPlaneAssumption DEF QueryOK
<1>14. Admin!Sends(k, q)
  BY <1>7, <1>11
<1>15. QED
  BY <1>1, <1>2, <1>10, <1>12, <1>13, <1>14, QueryEnds

LEMMA AdminStarts == ASSUME Admin!Init PROVE AdminInv
<1>1. PICK some \in SUBSET Policies :
         /\ policies = [p \in Policies |-> IF p \in some THEN Admin!Row(1, FirstRule, {}) ELSE Admin!NoRow]
         /\ versions = {Admin!Version(p, 1, FirstRule, {}, {}) : p \in some}
  BY DEF Admin!Init
<1>2. /\ DOMAIN policies = Policies /\ DOMAIN editor = Editors /\ DOMAIN call = Calls
      /\ \A e \in Editors : PageOK(editor[e])
      /\ \A k \in Calls : CallOK(k)
  BY <1>1 DEF Admin!Init, PageOK, CallOK
<1>3. /\ \A v \in versions : v.id \in some /\ v.version = 1 /\ v.rule = FirstRule /\ v.agents = {}
      /\ \A v, w \in versions : v.id = w.id => v = w
  <2>1. \A v \in versions : \E p \in some : v = Admin!Version(p, 1, FirstRule, {}, {})
    BY <1>1
  <2>2. ASSUME NEW v \in versions
        PROVE  /\ v.id \in some /\ v.version = 1 /\ v.rule = FirstRule /\ v.agents = {}
               /\ v = Admin!Version(v.id, 1, FirstRule, {}, {})
    <3>1. PICK p \in some : v = Admin!Version(p, 1, FirstRule, {}, {})
      BY <2>1
    <3>2. v.id = p /\ v.version = 1 /\ v.rule = FirstRule /\ v.agents = {}
      BY <3>1 DEF Admin!Version
    <3>3. QED
      BY <3>1, <3>2
  <2>3. QED
    BY <2>2
<1>4. VersionsOK
  BY <1>3, FirstRuleIsStored DEF VersionsOK
<1>5. Admin!NothingIsReverted
  BY <1>3 DEF Admin!NothingIsReverted
<1>6. ASSUME NEW p \in Policies
      PROVE  HistoryOK(p)
  <2>1. CASE p \in some
    <3>1. PICK row : row = Admin!Row(1, FirstRule, {})
      OBVIOUS
    <3>2. PICK v : v = Admin!Version(p, 1, FirstRule, {}, {})
      OBVIOUS
    <3>3. policies[p] = row /\ v \in versions
      BY <1>1, <2>1, <3>1, <3>2
    <3>4. /\ DOMAIN row = {"version", "rule", "agents", "archived"}
          /\ row.version = 1 /\ row.rule = FirstRule /\ row.agents = {}
      BY <3>1 DEF Admin!Row
    <3>5. HasRow(p)
      BY <3>3, <3>4, FirstRuleIsStored DEF HasRow
    <3>6. v.id = p /\ v.version = 1
      BY <3>2 DEF Admin!Version
    <3>7. VersionsOf(p) = {v}
      BY <1>3, <3>3, <3>6 DEF VersionsOf
    <3>8. IsFiniteSet(VersionsOf(p)) /\ Cardinality(VersionsOf(p)) = 1
      BY <3>7, FS_EmptySet, FS_AddElement
    <3>9. {x.version : x \in VersionsOf(p)} = 1..1
      BY <3>6, <3>7
    <3>10. QED
      BY <1>3, <3>3, <3>4, <3>5, <3>8, <3>9 DEF HistoryOK, VersionsOf
  <2>2. CASE p \notin some
    <3>1. policies[p] = Admin!NoRow /\ policies[p].version = 0
      BY <1>1, <2>2 DEF Admin!NoRow
    <3>2. VersionsOf(p) = {}
      BY <1>3, <2>2 DEF VersionsOf
    <3>3. QED
      BY <3>1, <3>2, FS_EmptySet DEF HistoryOK
  <2>3. QED
    BY <2>1, <2>2
<1>7. QED
  BY <1>2, <1>4, <1>5, <1>6 DEF AdminInv

LEMMA AdminStep == ASSUME AdminInv, Admin!Next PROVE AdminInv'
<1>1. ASSUME NEW e \in Editors,
             \/ Admin!Open(e) \/ Admin!Receive(e) \/ Admin!FetchFails(e) \/ Admin!Edit(e) \/ Admin!Save(e)
             \/ Admin!ReloadLatest(e) \/ Admin!Leave(e) \/ Admin!Archive(e)
      PROVE  AdminInv'
  BY <1>1, AdminOpens, AdminReceives, AdminEdits, AdminSaves, AdminLeaves, AdminArchives
<1>2. ASSUME NEW k \in Calls,
             \/ Admin!CheckUpdate(k) \/ Admin!CommitUpdate(k) \/ Admin!CheckCreate(k) \/ Admin!CommitCreate(k)
             \/ Admin!Answer(k) \/ Admin!Refused(k) \/ Admin!Lose(k) \/ Admin!Abandon(k)
      PROVE  AdminInv'
  BY <1>2, AdminChecks, AdminCommits, AdminCreates, AdminAnswers, AdminIsRefused, AdminLoses, AdminAbandons
<1>3. QED
  BY <1>1, <1>2 DEF Admin!Next

LEMMA AdminUnmoved == ASSUME AdminInv, UNCHANGED adminVars PROVE AdminInv'
<1>1. /\ Grows /\ DOMAIN policies' = Policies
      /\ \A p \in Policies : HistoryOK(p)'
      /\ VersionsOK' /\ Admin!NothingIsReverted'
  BY AdminRests DEF adminVars
<1>2. DOMAIN editor' = Editors /\ DOMAIN call' = Calls /\ UNCHANGED <<editor, call>>
  BY DEF AdminInv, adminVars
<1>3. \A k \in Calls : call'[k] # Admin!Idle /\ call'[k].by # None => Waits(k)'
  BY <1>2 DEF AdminInv, CallOK, Waits
<1>4. QED
  BY <1>1, <1>2, <1>3, AdminMoves

LEMMA AdminInvariance == SpecOfAll => [](focus = "admin" => AdminInv)
<1>1. InitOfAll => (focus = "admin" => AdminInv)
  BY AdminStarts DEF InitOfAll
<1>2. ASSUME focus = "admin" => AdminInv, [NextOfAll]_everything
      PROVE  (focus = "admin" => AdminInv)'
  <2>1. CASE focus = "admin" /\ Admin!Next
    BY <1>2, <2>1, Focus, AdminStep
  <2>2. CASE focus = "admin" /\ UNCHANGED adminVars
    BY <1>2, <2>2, AdminUnmoved
  <2>3. QED
    BY <1>2, <2>1, <2>2, Focus
<1>3. QED
  BY <1>1, <1>2, PTL DEF SpecOfAll

LEMMA CountsTheSame == ASSUME NEW S PROVE Admin!Cardinality(S) = Cardinality(S)
BY DEF Admin!Cardinality, Cardinality

\* PolicyAdmin: the versions of a policy are 1 to its own, once each, the latest is in force, for
\* any number of editors and requests whose answers are lost: no lost save leaves a trace.
THEOREM HistoriesAreComplete == SpecOfAll => []HistoryIsComplete
<1>1. AdminInv => Admin!HistoryIsComplete
  <2>1. ASSUME AdminInv, NEW p \in Policies
        PROVE  LET found == {v \in versions : v.id = p} IN
               /\ {v.version : v \in found} = 1..policies[p].version
               /\ Admin!Cardinality(found) = policies[p].version
               /\ \A v \in found : v.version = policies[p].version =>
                      v.rule = policies[p].rule /\ v.agents = policies[p].agents
    <3>1. PICK found : found = {v \in versions : v.id = p}
      OBVIOUS
    <3>2. VersionsOf(p) = found
      BY <3>1 DEF VersionsOf
    <3>3. /\ {v.version : v \in found} = 1..policies[p].version
          /\ Cardinality(found) = policies[p].version
          /\ \A v \in found : v.version = policies[p].version =>
                 v.rule = policies[p].rule /\ v.agents = policies[p].agents
      BY <2>1, <3>2 DEF AdminInv, HistoryOK
    <3>4. QED
      BY <3>1, <3>3, CountsTheSame
  <2>2. QED
    BY <2>1 DEF Admin!HistoryIsComplete
<1>2. (focus = "admin" => AdminInv) => HistoryIsComplete
  BY <1>1 DEF HistoryIsComplete
<1>3. QED
  BY <1>2, AdminInvariance, PTL

\* PolicyAdmin: what the editor of a version did not touch is as it was in the version before, for
\* every rule that the server accepts, whatever the rows editors type.
THEOREM NobodysChangeIsReverted == SpecOfAll => []NothingIsReverted
<1>1. (focus = "admin" => AdminInv) => NothingIsReverted
  BY DEF AdminInv, NothingIsReverted
<1>2. QED
  BY <1>1, AdminInvariance, PTL
===============================================================================
