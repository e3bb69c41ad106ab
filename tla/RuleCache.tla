------------------------------ MODULE RuleCache ------------------------------
(***************************************************************************)
(* RuleEngineService's in-memory cache of classification rules, as the     *)
(* requests of /accounting/process drive it.  A request commits the rules  *)
(* file it carries and then, once per row, looks the rules up: a hit is    *)
(* synchronous, a miss awaits a query and stores its result on resumption. *)
(* Node.js runs one callback at a time, so an action here is what happens  *)
(* between two awaits; the requests interleave at the awaits only.  The    *)
(* operators marked Variant are nearby mistakes, used by no action: each   *)
(* shows that a property of this module would notice it.                   *)
(***************************************************************************)
EXTENDS RuleHistory

VARIABLES
    rulesCache,   \* Map: cache key -> rules
    cacheExpiry,  \* Map: cache key -> time from which the entry is ignored
    stage,        \* stage[r]: "open" while request r may classify rows
    queries,      \* awaited queries the database has not run: [req, now]
    replies,      \* their results, the caller not yet resumed: [req, now, rules]
    served        \* the last answer a lookup got, if any: {[req, at, rules]}

cacheVars == <<rulesCache, cacheExpiry>>
lookupVars == <<queries, replies, served>>
vars == <<clock, commits, uploaded, rulesCache, cacheExpiry, stage, queries, replies, served>>

EmptyMap == [k \in {} |-> 0]

\* Map.set and Map.delete.
MapSet(m, k, v) == [x \in DOMAIN m \cup {k} |-> IF x = k THEN v ELSE m[x]]
MapDelete(m, k) == [x \in DOMAIN m \ {k} |-> m[x]]

RulesOf(k) == [Scope(k) -> Nat]

TypeOK ==
    /\ HistoryTypeOK
    /\ rulesCache = [k \in DOMAIN rulesCache |-> rulesCache[k]]
    /\ cacheExpiry = [k \in DOMAIN cacheExpiry |-> cacheExpiry[k]]
    /\ DOMAIN rulesCache = DOMAIN cacheExpiry
    /\ DOMAIN rulesCache \subseteq Keys
    /\ \A k \in DOMAIN rulesCache : rulesCache[k] \in RulesOf(k) /\ cacheExpiry[k] \in Nat
    /\ stage \in [Reqs -> {"new", "open", "closed"}]
    /\ queries \subseteq [req : Reqs, now : Nat]
    /\ \A p \in replies : p \in [req : Reqs, now : Nat, rules : RulesOf(Caller[p.req])]
    /\ \A s \in served : s \in [req : Reqs, at : Nat, rules : RulesOf(Caller[s.req])]

Init ==
    /\ HistoryInit
    /\ rulesCache = EmptyMap
    /\ cacheExpiry = EmptyMap
    /\ stage = [r \in Reqs |-> "new"]
    /\ queries = {}
    /\ replies = {}
    /\ served = {}

InFlight(r) == \/ \E q \in queries : q.req = r
               \/ \E p \in replies : p.req = r

Answer(r, at, rules) == served' = {[req |-> r, at |-> at, rules |-> rules]}

Advance == Tick /\ UNCHANGED <<cacheVars, stage, lookupVars>>

\* processTransactions saves the rules file before it classifies a row.  Nothing
\* on this path touches the cache.
Upload(r) ==
    /\ stage[r] = "new"
    /\ stage' = [stage EXCEPT ![r] = "open"]
    /\ \E S \in (SUBSET Companies) \ {{}} : CommitRules(r, S)
    /\ UNCHANGED <<cacheVars, lookupVars>>

\* Variant: an entry is still good in the instant it expires.
CachedInclusive(k) == k \in DOMAIN rulesCache /\ cacheExpiry[k] >= clock

\* The cache holds an entry for k that has not expired.
Cached(k) == k \in DOMAIN rulesCache /\ cacheExpiry[k] > clock

\* Variant: a hit renews its entry.
HitSliding(r) ==
    /\ stage[r] = "open"
    /\ ~InFlight(r)
    /\ Cached(Caller[r])
    /\ Answer(r, clock, rulesCache[Caller[r]])
    /\ cacheExpiry' = MapSet(cacheExpiry, Caller[r], clock + TTL)
    /\ UNCHANGED <<historyVars, rulesCache, stage, queries, replies>>

\* getCachedRules or getAllCompanyRules finds its entry.
Hit(r) ==
    /\ stage[r] = "open"
    /\ ~InFlight(r)
    /\ Cached(Caller[r])
    /\ Answer(r, clock, rulesCache[Caller[r]])
    /\ UNCHANGED <<historyVars, cacheVars, stage, queries, replies>>

\* It does not, and awaits the database; `now' was read before the await.
Miss(r) ==
    /\ stage[r] = "open"
    /\ ~InFlight(r)
    /\ ~Cached(Caller[r])
    /\ queries' = queries \cup {[req |-> r, now |-> clock]}
    /\ UNCHANGED <<historyVars, cacheVars, stage, replies, served>>

\* The database runs the query of request r: one SELECT, so one snapshot.
RunQuery(r) ==
    \E q \in queries :
        /\ q.req = r
        /\ queries' = queries \ {q}
        /\ replies' = replies \cup
              {[req |-> r, now |-> q.now, rules |-> CommittedRules(Caller[r])]}
        /\ UNCHANGED <<historyVars, cacheVars, stage, served>>

\* Variant: a failed load is remembered as "this key has no rules".
FailQueryCached(r) ==
    \E q \in queries :
        /\ q.req = r
        /\ queries' = queries \ {q}
        /\ rulesCache' = MapSet(rulesCache, Caller[r], [c \in Scope(Caller[r]) |-> 0])
        /\ cacheExpiry' = MapSet(cacheExpiry, Caller[r], q.now + TTL)
        /\ UNCHANGED <<historyVars, stage, replies, served>>

\* The query is rejected: classifyTransaction catches it and the cache stays as it is.
FailQuery(r) ==
    \E q \in queries :
        /\ q.req = r
        /\ queries' = queries \ {q}
        /\ UNCHANGED <<historyVars, cacheVars, stage, replies, served>>

\* Variant: the clock is read again after the await.
StoreLate(r) ==
    \E p \in replies :
        /\ p.req = r
        /\ replies' = replies \ {p}
        /\ rulesCache' = MapSet(rulesCache, Caller[r], p.rules)
        /\ cacheExpiry' = MapSet(cacheExpiry, Caller[r], clock + TTL)
        /\ Answer(r, p.now, p.rules)
        /\ UNCHANGED <<historyVars, stage, queries>>

\* Variant: a load that finds another one's fresh entry leaves without answering.
StoreIfNoneFresh(r) ==
    \E p \in replies :
        /\ p.req = r
        /\ ~Cached(Caller[r])
        /\ replies' = replies \ {p}
        /\ rulesCache' = MapSet(rulesCache, Caller[r], p.rules)
        /\ cacheExpiry' = MapSet(cacheExpiry, Caller[r], p.now + TTL)
        /\ Answer(r, p.now, p.rules)
        /\ UNCHANGED <<historyVars, stage, queries>>

\* The caller resumes: the entry replaces whatever the cache holds by now.
Store(r) ==
    \E p \in replies :
        /\ p.req = r
        /\ replies' = replies \ {p}
        /\ rulesCache' = MapSet(rulesCache, Caller[r], p.rules)
        /\ cacheExpiry' = MapSet(cacheExpiry, Caller[r], p.now + TTL)
        /\ Answer(r, p.now, p.rules)
        /\ UNCHANGED <<historyVars, stage, queries>>

\* invalidateRulesCache: one company's entry, never the ADMIN one.
Invalidate(c) ==
    /\ rulesCache' = MapDelete(rulesCache, c)
    /\ cacheExpiry' = MapDelete(cacheExpiry, c)
    /\ UNCHANGED <<historyVars, stage, lookupVars>>

\* Variant: only the rules are cleared.
ClearAllHalf ==
    /\ rulesCache' = EmptyMap
    /\ UNCHANGED <<historyVars, cacheExpiry, stage, lookupVars>>

ClearAll ==
    /\ rulesCache' = EmptyMap
    /\ cacheExpiry' = EmptyMap
    /\ UNCHANGED <<historyVars, stage, lookupVars>>

\* The process dies and comes back: the cache and the open requests are gone.
Restart ==
    /\ rulesCache' = EmptyMap
    /\ cacheExpiry' = EmptyMap
    /\ stage' = [r \in Reqs |-> IF stage[r] = "open" THEN "closed" ELSE stage[r]]
    /\ queries' = {}
    /\ replies' = {}
    /\ UNCHANGED <<historyVars, served>>

Next ==
    \/ Advance
    \/ \E r \in Reqs :
          \/ Upload(r)
          \/ Hit(r) \/ Miss(r) \/ RunQuery(r) \/ FailQuery(r) \/ Store(r)
    \/ \E c \in Companies : Invalidate(c)
    \/ ClearAll
    \/ Restart

\* The database answers or rejects every query, and the event loop resumes every
\* settled await.
Fairness == \A r \in Reqs : WF_vars(RunQuery(r) \/ FailQuery(r)) /\ WF_vars(Store(r))

Spec == Init /\ [][Next]_vars
FairSpec == Spec /\ Fairness

-----------------------------------------------------------------------------
\* Every lookup is answered with rules that were the committed ones of its whole
\* scope at a single moment less than TTL before it began or later, although loads
\* overtake each other, uploads commit in between and no upload touches the cache.
ServedWithinTTL == \A s \in served : WithinTTL(Caller[s.req], s.rules, s.at)

\* An entry never outlives by more than TTL the moment its rules were last known
\* to be committed, however late its load was resumed, and a failed load never
\* becomes an entry.
CacheWithinTTL ==
    \A k \in DOMAIN rulesCache : \E t \in 0 .. clock :
        t + TTL >= cacheExpiry[k] /\ rulesCache[k] \in Snapshots(k, t)

\* An upload is seen, by it or by a later one, in every lookup that begins TTL or
\* more after it committed, even one answered from an entry renewed meanwhile.
UploadVisibleAfterTTL ==
    \A s \in served : \A c \in Scope(Caller[s.req]) : \A v \in 1 .. Len(commits[c]) :
        commits[c][v] + TTL <= s.at => s.rules[c] >= v

\* The description of POST /accounting/process: the rules file a request uploads is
\* what its own transactions are classified by.
UploadedRulesApplied ==
    \A s \in served : \A c \in Scope(Caller[s.req]) : s.rules[c] >= uploaded[s.req][c]

\* A lookup that awaits the database is resumed: no load waits on another.
LookupAnswered == \A r \in Reqs : InFlight(r) ~> ~InFlight(r)

RS == INSTANCE RuleServing

\* Cache, loads, invalidations and restarts amount to RuleServing's promise.
ImplementsServing == RS!Spec
=============================================================================
