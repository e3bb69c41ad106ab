----------------------------- MODULE MCRuleCache -----------------------------
(***************************************************************************)
(* RuleCache with two companies and two requests: two of an ADMIN that     *)
(* race for the all-companies entry, or two of one company's owner.        *)
(***************************************************************************)
EXTENDS RuleCache

CONSTANTS c1, c2, r1, r2

MCAdmins == [r \in Reqs |-> AllKey]
MCOwners == [r \in Reqs |-> c1]
=============================================================================
