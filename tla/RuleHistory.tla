----------------------------- MODULE RuleHistory -----------------------------
(***************************************************************************)
(* What the database has promised about classification rules so far: for   *)
(* each company, when each of its rule sets was committed.  A rule set is  *)
(* abstracted to its version, its position in that history; version 0 is   *)
(* what the tables held at the start.  The module is the common ground of  *)
(* RuleServing (what a lookup promises) and RuleCache (what the code does).*)
(***************************************************************************)
EXTENDS Naturals, Sequences

CONSTANTS
    Companies,  \* the company ids that own rules
    AllKey,     \* the cache key 'rules_all_companies' an ADMIN request uses
    Reqs,       \* the requests to /accounting/process
    Caller,     \* the key each request looks rules up by: its company, or AllKey
    TTL,        \* CACHE_TTL, in ticks of the clock
    MaxClock    \* bound on the clock

Keys == Companies \cup {AllKey}

\* The companies whose rules are read for a key.
Scope(k) == IF k = AllKey THEN Companies ELSE {k}

\* A company called all_companies would share the ADMIN entry.
ASSUME KeyAssumption == AllKey \notin Companies
ASSUME CallerAssumption == Caller \in [Reqs -> Keys]
ASSUME TTLAssumption == TTL \in Nat \ {0}
ASSUME ClockAssumption == MaxClock \in Nat

VARIABLES
    clock,     \* Date.now()
    commits,   \* commits[c][v]: when version v of company c's rules was committed
    uploaded   \* uploaded[r][c]: the version of c's rules request r committed, 0 if none

historyVars == <<clock, commits, uploaded>>

HistoryTypeOK ==
    /\ clock \in Nat
    /\ commits \in [Companies -> Seq(Nat)]
    /\ uploaded \in [Reqs -> [Companies -> Nat]]

HistoryInit ==
    /\ clock = 0
    /\ commits = [c \in Companies |-> <<>>]
    /\ uploaded = [r \in Reqs |-> [c \in Companies |-> 0]]

Tick ==
    /\ clock < MaxClock
    /\ clock' = clock + 1
    /\ UNCHANGED <<commits, uploaded>>

\* Request r commits one transaction that saves rules for the companies S.
CommitRules(r, S) ==
    /\ commits' = [c \in Companies |->
                      IF c \in S THEN Append(commits[c], clock) ELSE commits[c]]
    /\ uploaded' = [uploaded EXCEPT ![r] =
                      [c \in Companies |-> IF c \in S THEN Len(commits[c]) + 1 ELSE 0]]
    /\ UNCHANGED clock

\* Version v of company c's rules was the committed one at time t.
InForce(c, v, t) ==
    /\ v \in 0 .. Len(commits[c])
    /\ v > 0 => commits[c][v] <= t
    /\ v < Len(commits[c]) => t <= commits[c][v + 1]

\* What one query of the rules for key k can have returned at time t: the rules
\* of every company in its scope, all as of the same moment.
Snapshots(k, t) ==
    {rules \in [Scope(k) -> UNION {0 .. Len(commits[c]) : c \in Scope(k)}] :
        \A c \in Scope(k) : InForce(c, rules[c], t)}

\* The rules the database returns for key k now.
CommittedRules(k) == [c \in Scope(k) |-> Len(commits[c])]

\* rules were the committed rules of k at some moment less than TTL before `at',
\* or later.
WithinTTL(k, rules, at) ==
    \E t \in 0 .. clock : t + TTL > at /\ rules \in Snapshots(k, t)
=============================================================================
