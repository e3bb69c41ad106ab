----------------------------- MODULE RuleServing -----------------------------
(***************************************************************************)
(* What a rule lookup promises to the code that classifies a transaction,  *)
(* with no cache in sight: the rules it gets were, for all companies of    *)
(* its scope at once, the committed ones less than TTL before the lookup   *)
(* began, or at some moment since.  A lookup that fails gets none.         *)
(***************************************************************************)
EXTENDS RuleHistory

VARIABLE served   \* the last answer a lookup got, if any: {[req, at, rules]}

servingVars == <<clock, commits, uploaded, served>>

Init == HistoryInit /\ served = {}

Upload(r) ==
    /\ \E S \in (SUBSET Companies) \ {{}} : CommitRules(r, S)
    /\ UNCHANGED served

Advance == Tick /\ UNCHANGED served

\* A lookup of request s.req that began at s.at gets its answer s.
Serve ==
    /\ \E s \in served' :
          /\ served' = {s}
          /\ s.req \in Reqs /\ s.at \in 0 .. clock
          /\ WithinTTL(Caller[s.req], s.rules, s.at)
    /\ UNCHANGED historyVars

Next ==
    \/ Advance
    \/ \E r \in Reqs : Upload(r)
    \/ Serve

Spec == Init /\ [][Next]_servingVars
=============================================================================
