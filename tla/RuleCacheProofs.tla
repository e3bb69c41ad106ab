--------------------------- MODULE RuleCacheProofs ---------------------------
(***************************************************************************)
(* The rule cache for any companies, requests, TTL and clock bound.        *)
(***************************************************************************)
EXTENDS RuleCache, TLAPS

(***************************************************************************)
(* Type correctness.                                                       *)
(***************************************************************************)
\* A lookup reads the rules of known companies only.
LEMMA ScopeOfKey == \A k \in Keys : Scope(k) \subseteq Companies
BY DEF Scope, Keys

\* Committing rules keeps the history well typed.
LEMMA CommitRulesType ==
    ASSUME HistoryTypeOK, NEW r \in Reqs, NEW S \in SUBSET Companies, CommitRules(r, S)
    PROVE  HistoryTypeOK'
<1>1. clock' \in Nat
  BY DEF HistoryTypeOK, CommitRules
<1>2. commits' \in [Companies -> Seq(Nat)]
  BY DEF HistoryTypeOK, CommitRules
<1>3. uploaded' \in [Reqs -> [Companies -> Nat]]
  <2>1. [c \in Companies |-> IF c \in S THEN Len(commits[c]) + 1 ELSE 0] \in [Companies -> Nat]
    BY DEF HistoryTypeOK
  <2>2. QED
    BY <2>1 DEF HistoryTypeOK, CommitRules
<1>4. QED
  BY <1>1, <1>2, <1>3 DEF HistoryTypeOK

\* A query returns rules for exactly the companies of its scope.
LEMMA CommittedRulesType ==
    ASSUME HistoryTypeOK, NEW k \in Keys
    PROVE  CommittedRules(k) \in RulesOf(k)
BY ScopeOfKey DEF CommittedRules, RulesOf, HistoryTypeOK

\* The parts of TypeOK about the two Maps of the cache.
MapsOK ==
    /\ rulesCache = [k \in DOMAIN rulesCache |-> rulesCache[k]]
    /\ cacheExpiry = [k \in DOMAIN cacheExpiry |-> cacheExpiry[k]]
    /\ DOMAIN rulesCache = DOMAIN cacheExpiry
    /\ DOMAIN rulesCache \subseteq Keys
    /\ \A k \in DOMAIN rulesCache : rulesCache[k] \in RulesOf(k) /\ cacheExpiry[k] \in Nat

\* clear() leaves the two Maps well formed,
LEMMA MapsEmpty ==
    ASSUME rulesCache' = EmptyMap, cacheExpiry' = EmptyMap
    PROVE  MapsOK'
BY DEF MapsOK, EmptyMap

\* setting one key in both does,
LEMMA MapsSet ==
    ASSUME MapsOK, NEW k \in Keys, NEW rules \in RulesOf(k), NEW e \in Nat,
           rulesCache' = MapSet(rulesCache, k, rules),
           cacheExpiry' = MapSet(cacheExpiry, k, e)
    PROVE  MapsOK'
BY DEF MapsOK, MapSet, RulesOf

\* and deleting one from both.
LEMMA MapsDelete ==
    ASSUME MapsOK, NEW k,
           rulesCache' = MapDelete(rulesCache, k),
           cacheExpiry' = MapDelete(cacheExpiry, k)
    PROVE  MapsOK'
BY DEF MapsOK, MapDelete, RulesOf

\* TypeOK, with its part about the Maps under one name.
LEMMA TypeOKSplit ==
    TypeOK <=> /\ HistoryTypeOK
               /\ MapsOK
               /\ stage \in [Reqs -> {"new", "open", "closed"}]
               /\ queries \subseteq [req : Reqs, now : Nat]
               /\ \A p \in replies : p \in [req : Reqs, now : Nat, rules : RulesOf(Caller[p.req])]
               /\ \A s \in served : s \in [req : Reqs, at : Nat, rules : RulesOf(Caller[s.req])]
BY DEF TypeOK, MapsOK

\* A new process has an empty cache.
LEMMA InitType == Init => TypeOK
<1> SUFFICES ASSUME Init PROVE TypeOK
  OBVIOUS
<1>1. HistoryTypeOK
  BY DEF Init, HistoryInit, HistoryTypeOK
<1>2. MapsOK
  BY DEF Init, MapsOK, EmptyMap
<1>3. QED
  BY <1>1, <1>2, TypeOKSplit DEF Init

\* Every handler keeps the cache well formed.
LEMMA NextType ==
    ASSUME TypeOK, [Next]_vars
    PROVE  TypeOK'
<1> USE CallerAssumption, TTLAssumption
<1>1. CASE Advance
  <2>1. HistoryTypeOK'
    BY <1>1 DEF Advance, Tick, TypeOK, HistoryTypeOK
  <2>2. QED
    BY <1>1, <2>1 DEF Advance, cacheVars, lookupVars, TypeOK, RulesOf
<1>2. ASSUME NEW r \in Reqs, Upload(r) PROVE TypeOK'
  <2>1. HistoryTypeOK'
    BY <1>2, CommitRulesType DEF Upload, TypeOK
  <2>2. stage' \in [Reqs -> {"new", "open", "closed"}]
    BY <1>2 DEF Upload, TypeOK
  <2>3. QED
    BY <1>2, <2>1, <2>2 DEF Upload, cacheVars, lookupVars, TypeOK, RulesOf
<1>3. ASSUME NEW r \in Reqs, Hit(r) PROVE TypeOK'
  <2>1. PICK s : /\ served' = {s}
                 /\ s = [req |-> r, at |-> clock, rules |-> rulesCache[Caller[r]]]
    BY <1>3 DEF Hit, Answer
  <2>2. rulesCache[Caller[r]] \in RulesOf(Caller[r]) /\ clock \in Nat
    BY <1>3 DEF Hit, Cached, TypeOK, HistoryTypeOK
  <2>3. s \in [req : Reqs, at : Nat, rules : RulesOf(Caller[s.req])]
    BY <2>1, <2>2
  <2>4. QED
    BY <1>3, <2>1, <2>3 DEF Hit, TypeOK, HistoryTypeOK, historyVars, cacheVars, RulesOf
<1>4. ASSUME NEW r \in Reqs, Miss(r) PROVE TypeOK'
  BY <1>4 DEF Miss, TypeOK, HistoryTypeOK, historyVars, cacheVars, RulesOf
<1>5. ASSUME NEW r \in Reqs, RunQuery(r) PROVE TypeOK'
  <2>1. PICK q \in queries :
          /\ queries' = queries \ {q}
          /\ replies' = replies \cup
                {[req |-> r, now |-> q.now, rules |-> CommittedRules(Caller[r])]}
    BY <1>5 DEF RunQuery
  <2>2. CommittedRules(Caller[r]) \in RulesOf(Caller[r])
    BY CommittedRulesType DEF TypeOK
  <2>3. \A p \in replies' : p \in [req : Reqs, now : Nat, rules : RulesOf(Caller[p.req])]
    BY <2>1, <2>2 DEF TypeOK
  <2>4. QED
    BY <1>5, <2>1, <2>3 DEF RunQuery, TypeOK, HistoryTypeOK, historyVars, cacheVars, RulesOf
<1>6. ASSUME NEW r \in Reqs, FailQuery(r) PROVE TypeOK'
  BY <1>6 DEF FailQuery, TypeOK, HistoryTypeOK, historyVars, cacheVars, RulesOf
<1>7. ASSUME NEW r \in Reqs, Store(r) PROVE TypeOK'
  <2>1. PICK p \in replies :
          /\ p.req = r
          /\ replies' = replies \ {p}
          /\ rulesCache' = MapSet(rulesCache, Caller[r], p.rules)
          /\ cacheExpiry' = MapSet(cacheExpiry, Caller[r], p.now + TTL)
          /\ served' = {[req |-> r, at |-> p.now, rules |-> p.rules]}
    BY <1>7 DEF Store, Answer
  <2>2. p.rules \in RulesOf(Caller[r]) /\ p.now \in Nat /\ p.now + TTL \in Nat
    BY <2>1 DEF TypeOK
  <2>3. MapsOK'
    BY <2>1, <2>2, MapsSet, TypeOKSplit
  <2>4. \A s \in served' : s \in [req : Reqs, at : Nat, rules : RulesOf(Caller[s.req])]
    BY <2>1, <2>2
  <2>5. HistoryTypeOK' /\ UNCHANGED <<stage, queries>>
    BY <1>7 DEF Store, TypeOK, HistoryTypeOK, historyVars
  <2>6. QED
    BY <2>1, <2>3, <2>4, <2>5 DEF TypeOK, MapsOK, RulesOf
<1>8. ASSUME NEW c \in Companies, Invalidate(c) PROVE TypeOK'
  <2>1. MapsOK'
    BY <1>8, MapsDelete, TypeOKSplit DEF Invalidate
  <2>2. QED
    BY <1>8, <2>1 DEF Invalidate, TypeOK, MapsOK, HistoryTypeOK, historyVars, lookupVars, RulesOf
<1>9. CASE ClearAll
  <2>1. MapsOK'
    BY <1>9, MapsEmpty DEF ClearAll
  <2>2. QED
    BY <1>9, <2>1 DEF ClearAll, TypeOK, MapsOK, HistoryTypeOK, historyVars, lookupVars, RulesOf
<1>10. CASE Restart
  <2>1. MapsOK'
    BY <1>10, MapsEmpty DEF Restart
  <2>2. stage' \in [Reqs -> {"new", "open", "closed"}]
    BY <1>10 DEF Restart, TypeOK
  <2>3. QED
    BY <1>10, <2>1, <2>2 DEF Restart, TypeOK, MapsOK, HistoryTypeOK, historyVars, RulesOf
<1>11. CASE UNCHANGED vars
  BY <1>11 DEF vars, TypeOK, HistoryTypeOK, RulesOf
<1>12. QED
  BY <1>1, <1>2, <1>3, <1>4, <1>5, <1>6, <1>7, <1>8, <1>9, <1>10, <1>11 DEF Next

\* The two Maps of the cache always hold the same keys, and every entry, awaited
\* result and answer has rules for exactly the companies of its caller's scope.
THEOREM TypeCorrect == Spec => []TypeOK
BY InitType, NextType, PTL DEF Spec

-----------------------------------------------------------------------------
(***************************************************************************)
(* Bounded staleness.  ServedWithinTTL speaks of what a lookup was told;   *)
(* what makes it inductive is the same fact about everything that will be  *)
(* told later: the entries of the cache and the results on their way.      *)
(***************************************************************************)
\* The history lies in the past, in order.
CommitsInOrder ==
    \A c \in Companies :
        /\ \A v \in 1 .. Len(commits[c]) : commits[c][v] <= clock
        /\ \A v, w \in 1 .. Len(commits[c]) : v <= w => commits[c][v] <= commits[c][w]

\* A result on its way was read after its lookup began.
RepliesFresh ==
    \A p \in replies : \E t \in 0 .. clock :
        t >= p.now /\ p.rules \in Snapshots(Caller[p.req], t)

Inv ==
    /\ TypeOK
    /\ CommitsInOrder
    /\ \A q \in queries : q.now <= clock
    /\ RepliesFresh
    /\ CacheWithinTTL
    /\ \A s \in served : s.at <= clock
    /\ ServedWithinTTL

\* A snapshot is a choice of versions, one for each company, in force at one moment.
LEMMA SnapshotsMember ==
    ASSUME HistoryTypeOK, NEW k \in Keys, NEW rules \in RulesOf(k), NEW t
    PROVE  rules \in Snapshots(k, t) <=> \A c \in Scope(k) : InForce(c, rules[c], t)
<1>1. ASSUME \A c \in Scope(k) : InForce(c, rules[c], t)
      PROVE  rules \in [Scope(k) -> UNION {0 .. Len(commits[c]) : c \in Scope(k)}]
  <2>1. \A c \in Scope(k) : rules[c] \in UNION {0 .. Len(commits[d]) : d \in Scope(k)}
    BY <1>1 DEF InForce
  <2>2. QED
    BY <2>1 DEF RulesOf
<1>2. QED
  BY <1>1 DEF Snapshots

\* The database reads what is in force now.
LEMMA CommittedRulesInForce ==
    ASSUME HistoryTypeOK, CommitsInOrder, NEW k \in Keys
    PROVE  CommittedRules(k) \in Snapshots(k, clock)
<1>1. ASSUME NEW c \in Scope(k) PROVE InForce(c, CommittedRules(k)[c], clock)
  <2>1. c \in Companies /\ CommittedRules(k)[c] = Len(commits[c]) /\ Len(commits[c]) \in Nat
    BY ScopeOfKey DEF CommittedRules, HistoryTypeOK
  <2>2. QED
    BY <2>1 DEF InForce, CommitsInOrder
<1>2. QED
  BY <1>1, SnapshotsMember, CommittedRulesType

\* What was in force at a past moment remains so whatever is committed now.
LEMMA InForceStable ==
    ASSUME HistoryTypeOK, NEW r \in Reqs, NEW S \in SUBSET Companies, CommitRules(r, S),
           NEW c \in Companies, NEW v, NEW t \in 0 .. clock, InForce(c, v, t)
    PROVE  InForce(c, v, t)'
<1>1. commits[c] \in Seq(Nat) /\ clock \in Nat
  BY DEF HistoryTypeOK
<1>2. CASE c \notin S
  <2>1. commits'[c] = commits[c]
    BY <1>2 DEF CommitRules
  <2>2. QED
    BY <2>1 DEF InForce
<1>3. CASE c \in S
  <2>1. commits'[c] = Append(commits[c], clock)
    BY <1>3 DEF CommitRules
  <2>2. /\ Len(commits'[c]) = Len(commits[c]) + 1
        /\ \A w \in 1 .. Len(commits[c]) : commits'[c][w] = commits[c][w]
        /\ commits'[c][Len(commits[c]) + 1] = clock
    BY <1>1, <2>1
  <2>3. v \in 0 .. Len(commits[c]) /\ Len(commits[c]) \in Nat
    BY <1>1 DEF InForce
  <2>4. CASE v = Len(commits[c])
    BY <1>1, <2>2, <2>3, <2>4 DEF InForce
  <2>5. CASE v < Len(commits[c])
    <3>1. v + 1 \in 1 .. Len(commits[c]) /\ v + 1 \in 1 .. Len(commits'[c])
      BY <2>2, <2>3, <2>5
    <3>2. commits'[c][v + 1] = commits[c][v + 1]
      BY <2>2, <3>1
    <3>3. v > 0 => commits'[c][v] = commits[c][v]
      BY <2>2, <2>3
    <3>4. QED
      BY <2>2, <2>3, <2>5, <3>1, <3>2, <3>3 DEF InForce
  <2>6. QED
    BY <1>1, <2>3, <2>4, <2>5
<1>4. QED
  BY <1>2, <1>3

\* So a snapshot of a past moment is one for ever.
LEMMA SnapshotsStable ==
    ASSUME HistoryTypeOK, NEW r \in Reqs, NEW S \in SUBSET Companies, CommitRules(r, S),
           NEW k \in Keys, NEW rules \in RulesOf(k), NEW t \in 0 .. clock, rules \in Snapshots(k, t)
    PROVE  rules \in Snapshots(k, t)'
<1>1. HistoryTypeOK'
  BY CommitRulesType
<1>2. \A c \in Scope(k) : InForce(c, rules[c], t)
  BY SnapshotsMember
<1>3. \A c \in Scope(k) : InForce(c, rules[c], t)'
  BY <1>2, InForceStable, ScopeOfKey
<1>4. rules \in [Scope(k) -> UNION {0 .. Len(commits'[c]) : c \in Scope(k)}]
  <2>1. \A c \in Scope(k) : rules[c] \in UNION {0 .. Len(commits'[d]) : d \in Scope(k)}
    BY <1>3 DEF InForce
  <2>2. QED
    BY <2>1 DEF RulesOf
<1>5. QED
  BY <1>3, <1>4 DEF Snapshots

\* Versions are committed in the order of time.
LEMMA CommitsStayInOrder ==
    ASSUME HistoryTypeOK, CommitsInOrder, NEW r \in Reqs, NEW S \in SUBSET Companies,
           CommitRules(r, S)
    PROVE  CommitsInOrder'
<1> SUFFICES ASSUME NEW c \in Companies
             PROVE  /\ \A v \in 1 .. Len(commits'[c]) : commits'[c][v] <= clock
                    /\ \A v, w \in 1 .. Len(commits'[c]) :
                          v <= w => commits'[c][v] <= commits'[c][w]
  BY DEF CommitsInOrder, CommitRules
<1>1. commits[c] \in Seq(Nat) /\ clock \in Nat
  BY DEF HistoryTypeOK
<1>2. CASE c \notin S
  BY <1>2 DEF CommitRules, CommitsInOrder
<1>3. CASE c \in S
  <2>1. commits'[c] = Append(commits[c], clock)
    BY <1>3 DEF CommitRules
  <2>2. /\ Len(commits'[c]) = Len(commits[c]) + 1
        /\ \A w \in 1 .. Len(commits[c]) : commits'[c][w] = commits[c][w] /\ commits[c][w] \in Nat
        /\ commits'[c][Len(commits[c]) + 1] = clock
    BY <1>1, <2>1
  <2>3. \A w \in 1 .. Len(commits'[c]) : w \in 1 .. Len(commits[c]) \/ w = Len(commits[c]) + 1
    BY <1>1, <2>2
  <2>4. \A v \in 1 .. Len(commits'[c]) : commits'[c][v] <= clock
    BY <1>1, <2>2, <2>3 DEF CommitsInOrder
  <2>5. ASSUME NEW v \in 1 .. Len(commits'[c]), NEW w \in 1 .. Len(commits'[c]), v <= w
        PROVE  commits'[c][v] <= commits'[c][w]
    <3>1. CASE w \in 1 .. Len(commits[c])
      <4>1. v \in 1 .. Len(commits[c])
        BY <1>1, <2>5, <3>1
      <4>2. QED
        BY <2>2, <2>5, <3>1, <4>1 DEF CommitsInOrder
    <3>2. CASE w = Len(commits[c]) + 1
      BY <2>2, <2>4, <3>2
    <3>3. QED
      BY <2>3, <3>1, <3>2
  <2>6. QED
    BY <2>4, <2>5
<1>4. QED
  BY <1>2, <1>3

\* The inductive invariant holds at the start,
LEMMA InitInv == Init => Inv
<1> SUFFICES ASSUME Init PROVE Inv
  OBVIOUS
<1>1. TypeOK
  BY InitType
<1>2. CommitsInOrder
  <2>1. \A c \in Companies : 1 .. Len(commits[c]) = {}
    <3> SUFFICES ASSUME NEW c \in Companies PROVE 1 .. Len(commits[c]) = {}
      OBVIOUS
    <3>1. commits[c] = <<>>
      BY DEF Init, HistoryInit
    <3>2. QED
      BY <3>1
  <2>2. QED
    BY <2>1 DEF CommitsInOrder
<1>3. RepliesFresh /\ CacheWithinTTL /\ ServedWithinTTL
  BY DEF Init, RepliesFresh, CacheWithinTTL, ServedWithinTTL, EmptyMap
<1>4. QED
  BY <1>1, <1>2, <1>3 DEF Init, Inv

\* A step that drops entries, queries and results and changes nothing else.
OnlyForgets ==
    /\ \A k \in DOMAIN rulesCache' : /\ k \in DOMAIN rulesCache
                                   /\ rulesCache'[k] = rulesCache[k]
                                   /\ cacheExpiry'[k] = cacheExpiry[k]
    /\ queries' \subseteq queries /\ replies' \subseteq replies
    /\ UNCHANGED <<clock, commits, served>>

\* and every handler keeps it.
LEMMA NextInv ==
    ASSUME Inv, [Next]_vars
    PROVE  Inv'
<1> USE CallerAssumption, TTLAssumption
<1>1. TypeOK' /\ TypeOK /\ HistoryTypeOK
  BY NextType DEF Inv, TypeOK
<1>2. CASE Advance
  <2>1. /\ clock' = clock + 1 /\ clock \in Nat
        /\ UNCHANGED <<commits, rulesCache, cacheExpiry, queries, replies, served>>
    BY <1>1, <1>2 DEF Advance, Tick, cacheVars, lookupVars, HistoryTypeOK
  <2>2. \A k, t : Snapshots(k, t)' = Snapshots(k, t)
    BY <2>1 DEF Snapshots, InForce
  <2>3. \A t \in 0 .. clock : t \in 0 .. clock'
    BY <2>1
  <2>4. CommitsInOrder'
    <3>1. \A c \in Companies : \A v \in 1 .. Len(commits[c]) : commits[c][v] \in Nat
      BY <1>1 DEF HistoryTypeOK
    <3>2. QED
      BY <2>1, <3>1 DEF Inv, CommitsInOrder
  <2>5. RepliesFresh'
    BY <2>1, <2>2, <2>3 DEF Inv, RepliesFresh
  <2>6. CacheWithinTTL'
    BY <2>1, <2>2, <2>3 DEF Inv, CacheWithinTTL
  <2>7. ServedWithinTTL'
    BY <2>1, <2>2, <2>3 DEF Inv, ServedWithinTTL, WithinTTL
  <2>8. QED
    BY <1>1, <2>1, <2>4, <2>5, <2>6, <2>7 DEF Inv, TypeOK
<1>3. ASSUME NEW r \in Reqs, Upload(r) PROVE Inv'
  <2>1. PICK S \in SUBSET Companies : CommitRules(r, S)
    BY <1>3 DEF Upload
  <2>2. UNCHANGED <<clock, rulesCache, cacheExpiry, queries, replies, served>>
    BY <1>3, <2>1 DEF Upload, CommitRules, cacheVars, lookupVars
  <2>3. ASSUME NEW k \in Keys, NEW rules \in RulesOf(k), NEW t \in 0 .. clock,
               rules \in Snapshots(k, t)
        PROVE  rules \in Snapshots(k, t)'
    BY <1>1, <2>1, <2>3, SnapshotsStable
  <2>4. CommitsInOrder'
    BY <1>1, <2>1, CommitsStayInOrder DEF Inv
  <2>5. RepliesFresh'
    <3>1. \A p \in replies : Caller[p.req] \in Keys /\ p.rules \in RulesOf(Caller[p.req])
      BY <1>1 DEF TypeOK
    <3>2. QED
      BY <2>2, <2>3, <3>1 DEF Inv, RepliesFresh
  <2>6. CacheWithinTTL'
    <3>1. \A k \in DOMAIN rulesCache : k \in Keys /\ rulesCache[k] \in RulesOf(k)
      BY <1>1 DEF TypeOK
    <3>2. QED
      BY <2>2, <2>3, <3>1 DEF Inv, CacheWithinTTL
  <2>7. ServedWithinTTL'
    <3>1. \A s \in served : Caller[s.req] \in Keys /\ s.rules \in RulesOf(Caller[s.req])
      BY <1>1 DEF TypeOK
    <3>2. QED
      BY <2>2, <2>3, <3>1 DEF Inv, ServedWithinTTL, WithinTTL
  <2>8. QED
    BY <1>1, <2>2, <2>4, <2>5, <2>6, <2>7 DEF Inv
<1>4. ASSUME UNCHANGED <<clock, commits>>
      PROVE  /\ \A k, t : Snapshots(k, t)' = Snapshots(k, t)
             /\ CommitsInOrder'
  BY <1>4 DEF Snapshots, InForce, CommitsInOrder, Inv
<1>5. ASSUME NEW r \in Reqs, Hit(r) PROVE Inv'
  <2> DEFINE k == Caller[r]
  <2>1. /\ k \in DOMAIN rulesCache /\ cacheExpiry[k] > clock
        /\ served' = {[req |-> r, at |-> clock, rules |-> rulesCache[k]]}
        /\ UNCHANGED <<clock, commits, rulesCache, cacheExpiry, queries, replies>>
    BY <1>5 DEF Hit, Cached, Answer, historyVars, cacheVars
  <2>2. clock \in Nat /\ cacheExpiry[k] \in Nat
    BY <1>1, <2>1 DEF TypeOK, HistoryTypeOK
  <2>3. PICK t \in 0 .. clock : t + TTL >= cacheExpiry[k] /\ rulesCache[k] \in Snapshots(k, t)
    BY <2>1 DEF Inv, CacheWithinTTL
  <2>4. WithinTTL(k, rulesCache[k], clock)
    BY <2>1, <2>2, <2>3 DEF WithinTTL
  <2>5. ServedWithinTTL'
    BY <1>4, <2>1, <2>4 DEF ServedWithinTTL, WithinTTL
  <2>6. RepliesFresh' /\ CacheWithinTTL'
    BY <1>4, <2>1 DEF Inv, RepliesFresh, CacheWithinTTL
  <2>7. QED
    BY <1>1, <1>4, <2>1, <2>2, <2>5, <2>6 DEF Inv
<1>6. ASSUME NEW r \in Reqs, Miss(r) PROVE Inv'
  <2>1. /\ queries' = queries \cup {[req |-> r, now |-> clock]}
        /\ UNCHANGED <<clock, commits, rulesCache, cacheExpiry, replies, served>>
    BY <1>6 DEF Miss, historyVars, cacheVars
  <2>2. clock \in Nat
    BY <1>1 DEF HistoryTypeOK
  <2>3. RepliesFresh' /\ CacheWithinTTL' /\ ServedWithinTTL'
    BY <1>4, <2>1 DEF Inv, RepliesFresh, CacheWithinTTL, ServedWithinTTL, WithinTTL
  <2>4. QED
    BY <1>1, <1>4, <2>1, <2>2, <2>3 DEF Inv
<1>7. ASSUME NEW r \in Reqs, RunQuery(r) PROVE Inv'
  <2>1. PICK q \in queries :
          /\ queries' = queries \ {q}
          /\ replies' = replies \cup
                {[req |-> r, now |-> q.now, rules |-> CommittedRules(Caller[r])]}
          /\ UNCHANGED <<clock, commits, rulesCache, cacheExpiry, served>>
    BY <1>7 DEF RunQuery, historyVars, cacheVars
  <2>2. CommittedRules(Caller[r]) \in Snapshots(Caller[r], clock)
    BY <1>1, CommittedRulesInForce DEF Inv
  <2>3. clock \in 0 .. clock /\ q.now <= clock
    BY <1>1 DEF Inv, HistoryTypeOK
  <2>4. RepliesFresh'
    BY <1>4, <2>1, <2>2, <2>3 DEF Inv, RepliesFresh
  <2>5. CacheWithinTTL' /\ ServedWithinTTL'
    BY <1>4, <2>1 DEF Inv, CacheWithinTTL, ServedWithinTTL, WithinTTL
  <2>6. QED
    BY <1>1, <1>4, <2>1, <2>4, <2>5 DEF Inv
<1>8. ASSUME NEW r \in Reqs, FailQuery(r) PROVE Inv'
  <2>1. /\ queries' \subseteq queries
        /\ UNCHANGED <<clock, commits, rulesCache, cacheExpiry, replies, served>>
    BY <1>8 DEF FailQuery, historyVars, cacheVars
  <2>2. RepliesFresh' /\ CacheWithinTTL' /\ ServedWithinTTL'
    BY <1>4, <2>1 DEF Inv, RepliesFresh, CacheWithinTTL, ServedWithinTTL, WithinTTL
  <2>3. QED
    BY <1>1, <1>4, <2>1, <2>2 DEF Inv
<1>9. ASSUME NEW r \in Reqs, Store(r) PROVE Inv'
  <2> DEFINE k == Caller[r]
  <2>1. PICK p \in replies :
          /\ p.req = r
          /\ replies' = replies \ {p}
          /\ rulesCache' = MapSet(rulesCache, k, p.rules)
          /\ cacheExpiry' = MapSet(cacheExpiry, k, p.now + TTL)
          /\ served' = {[req |-> r, at |-> p.now, rules |-> p.rules]}
          /\ UNCHANGED <<clock, commits, queries>>
    BY <1>9 DEF Store, Answer, historyVars
  <2>2. p.now \in Nat /\ clock \in Nat
    BY <1>1, <2>1 DEF TypeOK, HistoryTypeOK
  <2>3. PICK t \in 0 .. clock : t >= p.now /\ p.rules \in Snapshots(k, t)
    BY <2>1 DEF Inv, RepliesFresh
  <2>4. t + TTL > p.now /\ t + TTL >= p.now + TTL /\ p.now <= clock
    BY <2>2, <2>3
  <2>5. RepliesFresh'
    BY <1>4, <2>1 DEF Inv, RepliesFresh
  <2>6. CacheWithinTTL'
    <3> SUFFICES ASSUME NEW j \in DOMAIN rulesCache'
                 PROVE  \E u \in 0 .. clock : /\ u + TTL >= cacheExpiry'[j]
                                              /\ rulesCache'[j] \in Snapshots(j, u)
      BY <1>4, <2>1 DEF CacheWithinTTL
    <3>1. CASE j = k
      <4>1. cacheExpiry'[j] = p.now + TTL /\ rulesCache'[j] = p.rules
        BY <2>1, <3>1 DEF MapSet
      <4>2. QED
        BY <2>3, <2>4, <3>1, <4>1
    <3>2. CASE j # k
      <4>1. /\ j \in DOMAIN rulesCache /\ j \in DOMAIN cacheExpiry
            /\ cacheExpiry'[j] = cacheExpiry[j] /\ rulesCache'[j] = rulesCache[j]
        BY <1>1, <2>1, <3>2 DEF MapSet, TypeOK
      <4>2. QED
        BY <4>1 DEF Inv, CacheWithinTTL
    <3>3. QED
      BY <3>1, <3>2
  <2>7. ServedWithinTTL'
    BY <1>4, <2>1, <2>3, <2>4 DEF ServedWithinTTL, WithinTTL
  <2>8. QED
    BY <1>1, <1>4, <2>1, <2>4, <2>5, <2>6, <2>7 DEF Inv
<1>10. ASSUME \/ \E c \in Companies : Invalidate(c)
              \/ ClearAll
              \/ Restart
       PROVE  Inv'
  <2>1. OnlyForgets
    <3>1. ASSUME NEW c \in Companies, Invalidate(c) PROVE OnlyForgets
      BY <1>1, <3>1 DEF OnlyForgets, Invalidate, MapDelete, TypeOK, historyVars, lookupVars
    <3>2. CASE ClearAll \/ Restart
      BY <3>2 DEF OnlyForgets, ClearAll, Restart, EmptyMap, historyVars, lookupVars
    <3>3. QED
      BY <1>10, <3>1, <3>2
  <2>2. RepliesFresh' /\ CacheWithinTTL' /\ ServedWithinTTL'
    BY <1>4, <2>1 DEF OnlyForgets, Inv, RepliesFresh, CacheWithinTTL, ServedWithinTTL, WithinTTL
  <2>3. QED
    BY <1>1, <1>4, <2>1, <2>2 DEF OnlyForgets, Inv
<1>11. CASE UNCHANGED vars
  BY <1>1, <1>4, <1>11 DEF vars, Inv, RepliesFresh, CacheWithinTTL, ServedWithinTTL, WithinTTL
<1>12. QED
  BY <1>2, <1>3, <1>5, <1>6, <1>7, <1>8, <1>9, <1>10, <1>11 DEF Next

\* In every reachable state the results of awaited queries are snapshots no older than
\* their lookups, and so is what the cache and the last answer hold, within TTL.
THEOREM InvCorrect == Spec => []Inv
BY InitInv, NextInv, PTL DEF Spec

\* Every lookup is answered with rules that were the committed ones of its whole
\* scope at one moment less than TTL before it began or later.
THEOREM BoundedStaleness == Spec => []ServedWithinTTL
<1>1. Inv => ServedWithinTTL
  BY DEF Inv
<1>2. QED
  BY <1>1, InvCorrect, PTL

\* An entry outlives by at most TTL the moment its rules were last committed.
THEOREM BoundedEntries == Spec => []CacheWithinTTL
<1>1. Inv => CacheWithinTTL
  BY DEF Inv
<1>2. QED
  BY <1>1, InvCorrect, PTL

\* A bounded age is enough for an upload to become visible.
LEMMA InvVisible == Inv => UploadVisibleAfterTTL
<1> SUFFICES ASSUME Inv,
                    NEW s \in served, NEW c \in Scope(Caller[s.req]),
                    NEW v \in 1 .. Len(commits[c]), commits[c][v] + TTL <= s.at
             PROVE  s.rules[c] >= v
  BY DEF UploadVisibleAfterTTL
<1> USE TTLAssumption
<1>1. /\ s.at \in Nat /\ clock \in Nat
      /\ Caller[s.req] \in Keys /\ s.rules \in RulesOf(Caller[s.req])
  BY CallerAssumption DEF Inv, TypeOK, HistoryTypeOK
<1>2. PICK t \in 0 .. clock : t + TTL > s.at /\ s.rules \in Snapshots(Caller[s.req], t)
  BY DEF Inv, ServedWithinTTL, WithinTTL
<1>3. c \in Companies /\ commits[c] \in Seq(Nat)
  BY <1>1, ScopeOfKey DEF Inv, TypeOK, HistoryTypeOK
<1>4. InForce(c, s.rules[c], t)
  BY <1>1, <1>2, SnapshotsMember DEF Inv, TypeOK
<1>5. /\ Len(commits[c]) \in Nat /\ v \in Nat /\ s.rules[c] \in Nat
      /\ \A i \in 1 .. Len(commits[c]) : commits[c][i] \in Nat
  BY <1>3, <1>4 DEF InForce
<1>6. SUFFICES ASSUME s.rules[c] < v PROVE FALSE
  BY <1>5
<1>7. s.rules[c] + 1 \in 1 .. Len(commits[c]) /\ s.rules[c] + 1 <= v
  BY <1>6, <1>5
<1>8. t <= commits[c][s.rules[c] + 1]
  BY <1>3, <1>4, <1>7 DEF InForce
<1>9. commits[c][s.rules[c] + 1] <= commits[c][v]
  BY <1>3, <1>7 DEF Inv, CommitsInOrder
<1>10. commits[c][v] \in Nat /\ commits[c][s.rules[c] + 1] \in Nat
  BY <1>7, <1>5
<1>11. QED
  BY <1>1, <1>2, <1>8, <1>9, <1>10

\* Once TTL has passed since an upload committed, no lookup misses it.
THEOREM UploadsBecomeVisible == Spec => []UploadVisibleAfterTTL
BY InvVisible, InvCorrect, PTL

-----------------------------------------------------------------------------
(***************************************************************************)
(* The cache implements RuleServing.  A hit and a stored load are its      *)
(* Serve, uploads and the clock are its own, and the rest are stutters.    *)
(***************************************************************************)
\* An answer, from the cache or from the database, is a Serve of RuleServing.
LEMMA ServeStep ==
    ASSUME Inv, Inv', NEW r \in Reqs, Hit(r) \/ Store(r)
    PROVE  RS!Serve
<1>1. PICK s : served' = {s} /\ s.req = r
  <2>1. ASSUME NEW at, NEW rules, Answer(r, at, rules)
        PROVE  \E s : served' = {s} /\ s.req = r
    <3> WITNESS [req |-> r, at |-> at, rules |-> rules]
    <3> QED
      BY <2>1 DEF Answer
  <2>2. QED
    BY <2>1 DEF Hit, Store
<1>2. s.at \in 0 .. clock /\ WithinTTL(Caller[s.req], s.rules, s.at)
  <2>1. UNCHANGED <<clock, commits>>
    BY DEF Hit, Store, historyVars
  <2>2. s \in served' /\ s.at \in Nat
    BY <1>1 DEF Inv, TypeOK
  <2>3. s.at <= clock
    BY <2>1, <2>2 DEF Inv
  <2>4. \A k, t : Snapshots(k, t)' = Snapshots(k, t)
    BY <2>1 DEF Snapshots, InForce
  <2>5. QED
    BY <2>1, <2>2, <2>3, <2>4 DEF Inv, TypeOK, HistoryTypeOK, ServedWithinTTL, WithinTTL
<1>3. UNCHANGED historyVars
  BY DEF Hit, Store
<1>4. QED
  BY <1>1, <1>2, <1>3 DEF RS!Serve, RS!WithinTTL, RS!Snapshots, RS!InForce, RS!Scope,
     RS!historyVars, WithinTTL, Snapshots, InForce, Scope, historyVars

\* Every step of the cache is a step of RuleServing or leaves its state alone.
LEMMA StepRefines ==
    ASSUME Inv, Inv', [Next]_vars
    PROVE  [RS!Next]_RS!servingVars
<1> DEFINE Stutter == UNCHANGED RS!servingVars
<1>1. CASE Advance
  BY <1>1 DEF Advance, Tick, lookupVars, RS!Next, RS!Advance, RS!Tick
<1>2. ASSUME NEW r \in Reqs, Upload(r) PROVE RS!Next
  BY <1>2 DEF Upload, CommitRules, lookupVars, RS!Next, RS!Upload, RS!CommitRules
<1>3. ASSUME NEW r \in Reqs, Hit(r) \/ Store(r) PROVE RS!Next
  BY <1>3, ServeStep DEF RS!Next
<1>4. ASSUME NEW r \in Reqs, Miss(r) \/ RunQuery(r) \/ FailQuery(r) PROVE Stutter
  BY <1>4 DEF Miss, RunQuery, FailQuery, historyVars, RS!servingVars
<1>5. ASSUME \/ \E c \in Companies : Invalidate(c)
             \/ ClearAll
             \/ Restart
             \/ UNCHANGED vars
      PROVE  Stutter
  BY <1>5 DEF Invalidate, ClearAll, Restart, vars, historyVars, lookupVars, RS!servingVars
<1>6. QED
  BY <1>1, <1>2, <1>3, <1>4, <1>5 DEF Next

\* To the code that classifies transactions, the cache is RuleServing.
THEOREM Refinement == Spec => ImplementsServing
<1>1. Init => RS!Init
  BY DEF Init, HistoryInit, RS!Init, RS!HistoryInit
<1>2. QED
  BY <1>1, StepRefines, InvCorrect, PTL DEF Spec, ImplementsServing, RS!Spec
=============================================================================
