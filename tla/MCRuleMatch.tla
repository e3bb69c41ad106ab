----------------------------- MODULE MCRuleMatch -----------------------------
(***************************************************************************)
(* RuleMatch on a handful of file rules that differ in one field each, so  *)
(* that any two of them compete, tie, or are told apart by one check.      *)
(* Keywords are words and parts of words, with blanks around and within    *)
(* them and in both cases, or nothing at all.                              *)
(***************************************************************************)
EXTENDS RuleMatch

CONSTANTS cA, cB, a, A, b

MCLower == [x \in Chars |-> IF x = A THEN a ELSE x]

Base == [company |-> cA, type |-> Null, min |-> Null, max |-> Null, priority |-> Null,
         include |-> {<<a>>}, exclude |-> {}]

MCFileRules ==
    {Base,
     [Base EXCEPT !.company = cB],
     [Base EXCEPT !.priority = 2],
     [Base EXCEPT !.company = cB, !.priority = 2, !.include = {<<Blank, A, Blank>>, <<a, b>>}],
     [Base EXCEPT !.type = "DEPOSIT"],
     [Base EXCEPT !.type = "WITHDRAWAL", !.min = 0, !.max = 2],
     [Base EXCEPT !.type = "ALL", !.min = 2],
     [Base EXCEPT !.company = cB, !.max = 1],
     [Base EXCEPT !.include = {<<Blank>>}, !.exclude = {<<b, Blank, a>>}],
     [Base EXCEPT !.exclude = {<<Blank>>}]}

MCTexts == {<<>>, <<b>>, <<Blank, A, b>>, <<b, Blank, a, Blank>>}

MCTransactions ==
    {[deposit |-> m[1], withdrawal |-> m[2], text |-> x] :
        m \in {<<1, 0>>, <<2, 0>>, <<3, 0>>, <<0, 2>>, <<0, 3>>}, x \in MCTexts}
=============================================================================
