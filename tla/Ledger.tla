-------------------------------- MODULE Ledger --------------------------------
(***************************************************************************)
(* What POST /accounting/process promises, seen from the database and the  *)
(* client: the rules of a request come first and at most once, then its    *)
(* rows in order and in whole batches, then one answer, which is a success *)
(* only if everything is in, and after which nothing of the request        *)
(* changes.  Nothing is said of files, uploads or errors, nor is anything  *)
(* taken back.                                                             *)
(***************************************************************************)
EXTENDS Naturals

CONSTANTS
    Requests,
    Batch      \* rows saved at a time, but for the last time

VARIABLES
    due,       \* the rows each request is to post; it does not change
    ruled,     \* the requests whose rules are in
    posted,    \* how many rows of each request are in
    answer     \* what its client has been told

vars == <<due, ruled, posted, answer>>

Init ==
    /\ due \in [Requests -> Nat]
    /\ ruled = {}
    /\ posted = [r \in Requests |-> 0]
    /\ answer = [r \in Requests |-> "none"]

PostRules(r) ==
    /\ answer[r] = "none"
    /\ r \notin ruled
    /\ ruled' = ruled \cup {r}
    /\ UNCHANGED <<due, posted, answer>>

PostRows(r) ==
    /\ answer[r] = "none"
    /\ r \in ruled
    /\ \E n \in {posted[r] + Batch, due[r]} :
          /\ posted[r] < n /\ n <= posted[r] + Batch /\ n <= due[r]
          /\ posted' = [posted EXCEPT ![r] = n]
    /\ UNCHANGED <<due, ruled, answer>>

Answer(r) ==
    /\ answer[r] = "none"
    /\ \E a \in {"failed", "ok"} :
          /\ a = "ok" => r \in ruled /\ posted[r] = due[r]
          /\ answer' = [answer EXCEPT ![r] = a]
    /\ UNCHANGED <<due, ruled, posted>>

\* A process that dies answers none of the requests it was at.
Die ==
    /\ \E R \in SUBSET Requests :
          answer' = [r \in Requests |-> IF r \in R /\ answer[r] = "none" THEN "lost" ELSE answer[r]]
    /\ UNCHANGED <<due, ruled, posted>>

Next == (\E r \in Requests : PostRules(r) \/ PostRows(r) \/ Answer(r)) \/ Die

Spec == Init /\ [][Next]_vars
=============================================================================
