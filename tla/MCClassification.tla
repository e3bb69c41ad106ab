-------------------------- MODULE MCClassification --------------------------
(***************************************************************************)
(* Classification with an owner's upload and an ADMIN's: of three rows, so *)
(* two batches with the second one short, or of two; and with a            *)
(* reclassification for each of the two companies.                         *)
(***************************************************************************)
EXTENDS Classification, TLC

CONSTANTS cA, cB, k1, k2, owner, admin, w1, w2

MCCaller == (owner :> cA) @@ (admin :> AdminId)
MCRowsMany == (owner :> 1) @@ (admin :> 3)
MCRowsFew == (owner :> 1) @@ (admin :> 2)
MCTarget == [w \in Workers |-> IF w = w1 THEN cA ELSE cB]
MCRules0 == {[company |-> cA, category |-> k1], [company |-> cB, category |-> k2]}
=============================================================================
