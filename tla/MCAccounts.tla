------------------------------ MODULE MCAccounts ------------------------------
(***************************************************************************)
(* Accounts with one application, the script and two clients.  The tables  *)
(* are empty, hold the company alone, or have an owner with or without a   *)
(* company, and perhaps an administrator, from before.                     *)
(***************************************************************************)
EXTENDS Accounts

CONSTANTS admin, owner, head, shop, first, second

Row(i, n, t, c) == [id |-> i, name |-> n, type |-> t, company |-> c, password |-> first]

MCTables0 ==
    {[users |-> {}, companies |-> C] : C \in {{}, {head}}}
    \cup {[users |-> {Row(1, owner, "BUSINESS_OWNER", c)}, companies |-> {shop}] : c \in {shop, Null}}
    \cup {[users |-> {Row(1, admin, "ADMIN", head), Row(2, owner, "BUSINESS_OWNER", shop)}, companies |-> {head, shop}]}
=============================================================================
