----------------------------- MODULE MCRuleStore -----------------------------
(***************************************************************************)
(* RuleStore with two companies.  Categories a1 and a2 are cA's, and a1 is *)
(* referred to by transactions; b is new, and so is its company cB.  The   *)
(* files of s1 and s2 name both companies in opposite orders; s3's names   *)
(* cA twice, first with two categories and then with one of them again.    *)
(***************************************************************************)
EXTENDS RuleStore, TLC

CONSTANTS cA, cB, a1, a2, b, s1, s2, s3

EntryOf(c, ks) == [company |-> c, cats |-> ks]

MCOwner == (a1 :> cA) @@ (a2 :> cA) @@ (b :> NoOwner)

MCFile == (s1 :> <<EntryOf(cA, <<a1>>), EntryOf(cB, <<b>>)>>)
       @@ (s2 :> <<EntryOf(cB, <<b>>), EntryOf(cA, <<a1>>)>>)
       @@ (s3 :> <<EntryOf(cA, <<a1, a2>>), EntryOf(cA, <<a2>>)>>)
=============================================================================
