---------------------------- MODULE MCControlPlane ----------------------------
(***************************************************************************)
(* An instance of ControlPlane for TLC: an owner and an admin, an invite and *)
(* two ceremonies; two editors of one policy, which the rule builder spells   *)
(* differently; a badge for each of two rotations and one more; pages that    *)
(* make up to three requests; three console requests and a run of the         *)
(* operator's script for the Slack destination; and a visitor whose page      *)
(* makes two submissions.                                                   *)
(***************************************************************************)
EXTENDS ControlPlane, TLC

OwnerAndAdmin == [u \in Founders |-> IF u = "a" THEN "owner" ELSE "admin"]

LowerCases == "Re" :> "re"
Spelled == "10" :> 10

Str(pieces) == [type |-> "string", v |-> pieces]
Num(n) == [type |-> "number", v |-> n]
Many(values) == [type |-> "list", v |-> values]
Condition(field, operator, value) == [field |-> field, operator |-> operator, value |-> value]
StoredRule ==
    [match |-> "all",
     conditions |-> <<Condition(<<"resource">>, "starts_with", Str(<<"db", " ">>)),
                      Condition(<<"context", "amount">>, "in",
                                Many(<<Str(<<"vip">>), Num(10)>>)),
                      Condition(<<"context", "amount">>, "not_in", Many(<<Num(10), Str(<<"10", " ">>)>>))>>]
TypedRows ==
    {[match |-> "any",
      rows |-> <<[field |-> <<"operation">>, operator |-> "equals", valueType |-> "text",
                  value |-> <<"Re", "fund">>, list |-> <<>>]>>]}
Interchangeable == Permutations(Editors)
=============================================================================
