------------------------- MODULE ClassificationProofs -------------------------
(***************************************************************************)
(* How transactions are attributed, what an upload leaves in the table and *)
(* what it and the statistics report, for any uploads, batch size, number  *)
(* of reclassifications and changes of the rules.                          *)
(***************************************************************************)
EXTENDS Classification, FiniteSetTheorems, TLAPS

Sound(e) == e \in everRules \cup {NoEntity}

\* What is saved, about to be saved, or chosen for a row comes from one rule.
Inv ==
    /\ everRules \subseteq Rule
    /\ AttributedTogether
    /\ batch = [r \in Reqs |-> batch[r]]
    /\ \A r \in Reqs : \A i \in DOMAIN batch[r] : Sound(batch[r][i])
    /\ chosen = [w \in Workers |-> chosen[w]]
    /\ \A w \in Workers : \A c \in chosen[w] : c.rule \in everRules

\* Whoever uploads a row, its columns are those of the rule that matched it.
LEMMA EntitySound ==
    ASSUME NEW r \in Reqs, NEW found, everRules \subseteq Rule,
           found \in {{}} \cup {{p} : p \in Matches(r)}
    PROVE  Sound(EntityOf(r, found))
<1>1. CASE found = {}
  BY <1>1 DEF Sound, EntityOf
<1>2. CASE found # {}
  <2>1. PICK p \in Matches(r) : found = {p}
    BY <1>2
  <2>2. p \in everRules /\ (Caller[r] # AdminId => p.company = Caller[r])
    BY CallerAssumption DEF Matches
  <2>3. (CHOOSE q \in found : TRUE) = p
    BY <2>1
  <2>4. EntityOf(r, found) = [company |-> p.company, category |-> p.category]
    BY <1>2, <2>2, <2>3 DEF EntityOf
  <2>5. p = [company |-> p.company, category |-> p.category]
    BY <2>2 DEF Rule
  <2>6. QED
    BY <2>2, <2>4, <2>5 DEF Sound
<1>3. QED
  BY <1>1, <1>2

\* Before the first upload nothing is attributed.
LEMMA InitInv == Init => Inv
BY RulesAssumption DEF Init, Inv, Sound, AttributedTogether, Nothing

\* Every step of an upload keeps the attribution sound.
LEMMA UploadInv ==
    ASSUME Inv, NEW r \in Reqs, Upload(r)
    PROVE  Inv'
<1>1. CASE ClassifyRow(r)
  <2>1. PICK found \in {{}} \cup {{p} : p \in Matches(r)} :
           batch' = [batch EXCEPT ![r] = Put(@, next[r], EntityOf(r, found))]
    BY <1>1 DEF ClassifyRow
  <2>2. Sound(EntityOf(r, found))
    BY EntitySound DEF Inv
  <2>3. UNCHANGED <<everRules, table, chosen>>
    BY <1>1 DEF ClassifyRow, ruleVars, workerVars
  <2>4. batch' = [q \in Reqs |-> batch'[q]]
    BY <2>1 DEF Inv
  <2>5. \A q \in Reqs : \A i \in DOMAIN batch'[q] : Sound(batch'[q][i])
    BY <2>1, <2>2 DEF Inv, Put
  <2>6. QED
    BY <2>3, <2>4, <2>5 DEF Inv, Sound, AttributedTogether
<1>2. CASE SkipRow(r)
  BY <1>2 DEF SkipRow, Inv, Sound, AttributedTogether, ruleVars, workerVars
<1>3. CASE SaveBatch(r)
  <2>1. /\ table' = TableWith(r)
        /\ batch' = [batch EXCEPT ![r] = Nothing]
        /\ UNCHANGED <<everRules, chosen>>
    BY <1>3 DEF SaveBatch, ruleVars, workerVars
  <2>3. \A x \in DOMAIN table' : Sound(table'[x])
    <3>1. \A x \in DOMAIN TableWith(r) :
             \/ x \in DOMAIN table /\ TableWith(r)[x] = table[x]
             \/ \E i \in DOMAIN batch[r] : TableWith(r)[x] = batch[r][i]
      BY DEF TableWith
    <3>2. QED
      BY <2>1, <3>1 DEF Inv, AttributedTogether, Sound
  <2>4. \A q \in Reqs : \A i \in DOMAIN batch'[q] : Sound(batch'[q][i])
    BY <2>1 DEF Inv, Nothing
  <2>5. QED
    BY <2>1, <2>3, <2>4 DEF Inv, AttributedTogether, Sound
<1>4. CASE FailBatch(r)
  BY <1>4 DEF FailBatch, Forget, Nothing, Inv, Sound, AttributedTogether, ruleVars, workerVars
<1>5. CASE Finish(r)
  BY <1>5 DEF Finish, Inv, Sound, AttributedTogether, ruleVars, workerVars
<1>6. QED
  BY <1>1, <1>2, <1>3, <1>4, <1>5 DEF Upload

\* So does every step of a reclassification, whatever it overwrites.
LEMMA ReclassificationInv ==
    ASSUME Inv, NEW w \in Workers,
           \/ FindUnclassified(w) \/ SaveReclassified(w) \/ SaveReclassifiedFails(w) \/ EndReclassify(w)
           \/ \E x \in DOMAIN table : Reclassify(w, x) \/ PassOver(w, x)
    PROVE  Inv'
<1>1. CASE SaveReclassified(w)
  <2>1. PICK c \in chosen[w] :
           /\ table' = [table EXCEPT ![c.id] = c.rule]
           /\ chosen' = [chosen EXCEPT ![w] = {}]
           /\ UNCHANGED <<everRules, batch>>
    BY <1>1 DEF SaveReclassified, ruleVars, uploadVars
  <2>2. c.rule \in everRules
    BY DEF Inv
  <2>3. \A x \in DOMAIN table' : Sound(table'[x])
    BY <2>1, <2>2 DEF Inv, AttributedTogether, Sound
  <2>4. QED
    BY <2>1, <2>3 DEF Inv, AttributedTogether, Sound
<1>2. ASSUME NEW x \in DOMAIN table, Reclassify(w, x)
      PROVE  Inv'
  <2>1. PICK p \in everRules : chosen' = [chosen EXCEPT ![w] = {[id |-> x, rule |-> p]}]
    BY <1>2 DEF Reclassify
  <2>2. UNCHANGED <<everRules, table, batch>>
    BY <1>2 DEF Reclassify, ruleVars, uploadVars
  <2>3. chosen' = [v \in Workers |-> chosen'[v]]
    BY <2>1 DEF Inv
  <2>4. ASSUME NEW v \in Workers, NEW c \in chosen'[v]
        PROVE  c.rule \in everRules
    <3>1. CASE v = w
      <4>1. c = [id |-> x, rule |-> p]
        BY <2>1, <3>1 DEF Inv
      <4>2. QED
        BY <4>1
    <3>2. CASE v # w
      BY <2>1, <3>2 DEF Inv
    <3>3. QED
      BY <3>1, <3>2
  <2>5. QED
    BY <2>2, <2>3, <2>4 DEF Inv, AttributedTogether, Sound
<1>3. ASSUME NEW x \in DOMAIN table, PassOver(w, x)
      PROVE  Inv'
  BY <1>3 DEF PassOver, Inv, Sound, AttributedTogether, ruleVars, uploadVars
<1>4. CASE FindUnclassified(w)
  BY <1>4 DEF FindUnclassified, Inv, Sound, AttributedTogether, ruleVars, uploadVars
<1>5. CASE SaveReclassifiedFails(w)
  BY <1>5 DEF SaveReclassifiedFails, Inv, Sound, AttributedTogether, ruleVars, uploadVars
<1>6. CASE EndReclassify(w)
  BY <1>6 DEF EndReclassify, Inv, Sound, AttributedTogether, ruleVars, uploadVars
<1>7. QED
  BY <1>1, <1>2, <1>3, <1>4, <1>5, <1>6

\* And every other step: saves of rules, statistics, the death of the process.
LEMMA NextInv == Inv /\ [Next]_vars => Inv'
<1> SUFFICES ASSUME Inv, [Next]_vars PROVE Inv'
  OBVIOUS
<1>1. ASSUME NEW rule \in Rule, SaveRule(rule) PROVE Inv'
  BY <1>1 DEF SaveRule, Inv, Sound, AttributedTogether, uploadVars, workerVars
<1>2. ASSUME NEW k \in Cats, DeleteCategory(k) PROVE Inv'
  BY <1>2 DEF DeleteCategory, Inv, Sound, AttributedTogether, uploadVars, workerVars
<1>3. CASE CountTotal \/ ReportStats
  BY <1>3 DEF CountTotal, ReportStats, Inv, Sound, AttributedTogether, ruleVars, uploadVars, workerVars
<1>4. CASE Crash
  BY <1>4 DEF Crash, Forget, Nothing, Inv, Sound, AttributedTogether, ruleVars
<1>5. CASE UNCHANGED vars
  BY <1>5 DEF vars, Inv, Sound, AttributedTogether, ruleVars, uploadVars, workerVars
<1>6. QED
  BY <1>1, <1>2, <1>3, <1>4, <1>5, UploadInv, ReclassificationInv DEF Next

\* However rules change and reclassifications race, the company and the category of a
\* transaction come from one rule, or are both missing.
THEOREM Attribution == Spec => []AttributedTogether
<1>1. Inv => AttributedTogether
  BY DEF Inv
<1>2. QED
  BY <1>1, InitInv, NextInv, PTL DEF Spec

-----------------------------------------------------------------------------
(***************************************************************************)
(* The second invariant: types, the place of each upload in its file, and  *)
(* its counts.                                                             *)
(***************************************************************************)
Ids(r, S) == {[req |-> r, row |-> i] : i \in S}
Good(r, a, b) == (a .. b) \ skipped[r]

RulesOK ==
    /\ DOMAIN categories \subseteq Cats
    /\ \A k \in DOMAIN categories : categories[k] \in Companies
    /\ everRules \subseteq Rule
    /\ changes \in 0 .. MaxChanges

TableOK ==
    /\ table = [x \in DOMAIN table |-> table[x]]
    /\ IsFiniteSet(DOMAIN table)
    /\ DOMAIN table \subseteq TableId
    /\ \A x \in DOMAIN table : x.row \in 1 .. Rows[x.req] /\ table[x] \in Entity

UploadsOK ==
    /\ stage \in [Reqs -> {"running", "done", "failed"}]
    /\ from \in [Reqs -> Nat] /\ next \in [Reqs -> Nat]
    /\ batch = [r \in Reqs |-> batch[r]]
    /\ \A r \in Reqs : batch[r] \in [DOMAIN batch[r] -> Entity]
    /\ skipped \in [Reqs -> SUBSET Nat]
    /\ result \in [Reqs -> Results]

\* Where an upload is: its batch holds the rows since from but for those skipped, and
\* what was skipped lies behind it.  After a failure only the latter is forgotten.
Placed(r) ==
    /\ 1 <= from[r] /\ from[r] <= next[r] /\ next[r] <= LastOfBatch(r) + 1 /\ from[r] <= Rows[r] + 1
    /\ DOMAIN batch[r] = Good(r, from[r], next[r] - 1)
    /\ skipped[r] \subseteq 1 .. Rows[r]
    /\ stage[r] = "running" => skipped[r] \subseteq 1 .. next[r] - 1
    /\ stage[r] = "done" => from[r] = Rows[r] + 1
    /\ from[r] - 1 = Rows[r] \/ (from[r] - 1) % BatchSize = 0
    /\ RowsOf(r, DOMAIN table) = Ids(r, Good(r, 1, from[r] - 1))

\* The counts are those of the batches behind it.
Counted(r) ==
    stage[r] # "failed" =>
        /\ result[r].total = Cardinality(RowsOf(r, DOMAIN table))
        /\ result[r].total + result[r].errors = from[r] - 1
        /\ result[r].classified + result[r].unclassified = result[r].total
        /\ result[r].unclassified >= Cardinality(RowsOf(r, Unmatched))

WorkersOK ==
    /\ todo \in [Workers -> SUBSET DOMAIN table]
    /\ chosen = [w \in Workers |-> chosen[w]]
    /\ \A w \in Workers : \A c \in chosen[w] : c.id \in todo[w] /\ c.rule \in Rule
    /\ phase \in [Workers -> {"new", "running", "done"}]
    /\ \A w \in Workers : phase[w] # "running" => chosen[w] = {}

StatsOK ==
    /\ counted \subseteq Nat
    /\ \A n \in counted : n <= Total
    /\ \A s \in stats : s.total \in Nat /\ s.unclassified \in Nat

IInv ==
    /\ RulesOK /\ TableOK /\ UploadsOK /\ WorkersOK /\ StatsOK
    /\ \A r \in Reqs : Placed(r) /\ Counted(r)

\* A batch size further on is again a multiple of the batch size.
LEMMA NextMultiple ==
    ASSUME NEW n \in Nat, NEW b \in Nat \ {0}, n % b = 0
    PROVE  (n + b) % b = 0
<1>1. \A q, m \in Nat : q = b * m => q % b = 0
  OBVIOUS
<1>2. n = b * (n \div b) /\ n \div b \in Nat
  OBVIOUS
<1>3. n + b = b * ((n \div b) + 1)
  BY <1>2
<1>4. (n \div b) + 1 \in Nat /\ n + b \in Nat
  BY <1>2
<1>5. QED
  BY <1>1, <1>3, <1>4

\* There are as many identifiers of rows as rows.
LEMMA IdsCardinality ==
    ASSUME NEW r, NEW S, IsFiniteSet(S)
    PROVE  IsFiniteSet(Ids(r, S)) /\ Cardinality(Ids(r, S)) = Cardinality(S)
<1> DEFINE f == [i \in S |-> [req |-> r, row |-> i]]
<1>1. f \in [S -> Ids(r, S)]
  BY DEF Ids
<1>2. \A i, j \in S : f[i] = f[j] => i = j
  OBVIOUS
<1>3. \A x \in Ids(r, S) : \E i \in S : f[i] = x
  BY DEF Ids
<1>4. f \in Bijection(S, Ids(r, S))
  BY <1>1, <1>2, <1>3 DEF Bijection, Injection, Surjection, IsInjective
<1>5. ExistsBijection(S, Ids(r, S))
  BY <1>4 DEF ExistsBijection
<1>6. QED
  BY <1>5, FS_Bijection

\* The parts add up to the properties that the runs check.
LEMMA IInvTyped == IInv => TypeOK
<1> SUFFICES ASSUME IInv PROVE TypeOK
  OBVIOUS
<1>1. \A x \in DOMAIN table : x.req \in Reqs
  BY DEF IInv, TableOK, TableId
<1>2. \A r \in Reqs : DOMAIN batch[r] \subseteq from[r] .. next[r] - 1
  BY DEF IInv, Placed, Good
<1>3. \A r \in Reqs : skipped[r] \subseteq 1 .. Rows[r]
  BY DEF IInv, Placed
<1>4. QED
  BY <1>1, <1>2, <1>3 DEF IInv, RulesOK, TableOK, UploadsOK, WorkersOK, StatsOK, TypeOK

LEMMA IInvWhole == IInv => SavedWholeBatches
<1> SUFFICES ASSUME IInv, NEW r \in Reqs
             PROVE  /\ {i \in 1 .. Rows[r] : [req |-> r, row |-> i] \in DOMAIN table}
                          = (1 .. from[r] - 1) \ skipped[r]
                    /\ from[r] - 1 = Rows[r] \/ (from[r] - 1) % BatchSize = 0
  BY DEF SavedWholeBatches
<1>1. /\ Placed(r) /\ from[r] \in Nat /\ Rows[r] \in Nat
      /\ from[r] - 1 <= Rows[r]
  BY SizeAssumption DEF IInv, UploadsOK, Placed
<1>2. \A i : [req |-> r, row |-> i] \in DOMAIN table <=> i \in Good(r, 1, from[r] - 1)
  BY <1>1 DEF Placed, RowsOf, Ids
<1>3. QED
  BY <1>1, <1>2 DEF Placed, Good

LEMMA IInvAccounts == IInv => ResultAccounts
<1> SUFFICES ASSUME IInv, NEW r \in Reqs, stage[r] = "done"
             PROVE  /\ result[r].total = Cardinality(RowsOf(r, DOMAIN table))
                    /\ result[r].total + result[r].errors = Rows[r]
                    /\ result[r].classified + result[r].unclassified = result[r].total
                    /\ result[r].unclassified >= Cardinality(RowsOf(r, Unmatched))
  BY DEF ResultAccounts
<1>1. from[r] - 1 = Rows[r]
  BY SizeAssumption DEF IInv, Placed
<1>2. QED
  BY <1>1 DEF IInv, Counted

\* Before the first upload starts.
LEMMA IInvInit == Init => IInv
<1> SUFFICES ASSUME Init PROVE IInv
  OBVIOUS
<1>1. RulesOK
  BY RulesAssumption, SizeAssumption DEF Init, RulesOK, Rule
<1>2. TableOK
  BY FS_EmptySet DEF Init, TableOK, Nothing
<1>3. UploadsOK
  BY DEF Init, UploadsOK, Nothing, Zero, Results
<1>4. WorkersOK
  BY DEF Init, WorkersOK
<1>5. StatsOK
  BY DEF Init, StatsOK
<1>6. ASSUME NEW r \in Reqs
      PROVE  Placed(r) /\ Counted(r)
  <2>1. Rows[r] \in Nat /\ BatchSize \in Nat \ {0}
    BY SizeAssumption
  <2>2. /\ from[r] = 1 /\ next[r] = 1 /\ stage[r] = "running" /\ skipped[r] = {}
        /\ DOMAIN batch[r] = {} /\ result[r] = Zero /\ DOMAIN table = {}
    BY DEF Init, Nothing
  <2>3. RowsOf(r, DOMAIN table) = {} /\ RowsOf(r, Unmatched) = {}
    BY <2>2 DEF Unmatched, RowsOf
  <2>4. from[r] - 1 = 0 /\ next[r] - 1 = 0
    BY <2>2
  <2>5. Good(r, 1, 0) = {} /\ Ids(r, Good(r, 1, 0)) = {}
    BY DEF Good, Ids
  <2>6. 0 % BatchSize = 0 /\ 1 <= LastOfBatch(r) + 1
    BY <2>1, <2>2 DEF LastOfBatch
  <2>7. /\ DOMAIN batch[r] = Good(r, from[r], next[r] - 1)
        /\ RowsOf(r, DOMAIN table) = Ids(r, Good(r, 1, from[r] - 1))
        /\ (from[r] - 1) % BatchSize = 0
    BY <2>2, <2>3, <2>4, <2>5, <2>6
  <2>8. Placed(r)
    BY <2>1, <2>2, <2>6, <2>7 DEF Placed
  <2>9. Cardinality(RowsOf(r, DOMAIN table)) = 0 /\ Cardinality(RowsOf(r, Unmatched)) = 0
    BY <2>3, FS_EmptySet
  <2>10. Counted(r)
    BY <2>2, <2>4, <2>9 DEF Counted, Zero
  <2>11. QED
    BY <2>8, <2>10
<1>7. QED
  BY <1>1, <1>2, <1>3, <1>4, <1>5, <1>6 DEF IInv

\* An upload of which nothing changes, nor its rows in the table, but that one of them
\* may have been classified.
LEMMA UploadUnchanged ==
    ASSUME IInv, NEW q \in Reqs,
           stage'[q] = stage[q], from'[q] = from[q], next'[q] = next[q], batch'[q] = batch[q],
           skipped'[q] = skipped[q], result'[q] = result[q],
           RowsOf(q, DOMAIN table') = RowsOf(q, DOMAIN table),
           RowsOf(q, Unmatched') \subseteq RowsOf(q, Unmatched)
    PROVE  Placed(q)' /\ Counted(q)'
<1>1. Placed(q) /\ Counted(q)
  BY DEF IInv
<1>2. Placed(q)'
  BY <1>1 DEF Placed, LastOfBatch, Good
<1>3. CASE stage[q] = "failed"
  BY <1>2, <1>3 DEF Counted
<1>4. CASE stage[q] # "failed"
  <2>1. IsFiniteSet(RowsOf(q, Unmatched))
    BY FS_Subset DEF IInv, TableOK, RowsOf, Unmatched
  <2>2. /\ Cardinality(RowsOf(q, Unmatched')) \in Nat
        /\ Cardinality(RowsOf(q, Unmatched)) \in Nat
        /\ Cardinality(RowsOf(q, Unmatched')) <= Cardinality(RowsOf(q, Unmatched))
    BY <2>1, FS_Subset, FS_CardinalityType
  <2>3. result[q].unclassified \in Nat
    BY DEF IInv, UploadsOK, Results
  <2>4. QED
    BY <1>1, <1>2, <1>4, <2>2, <2>3 DEF Counted
<1>5. QED
  BY <1>3, <1>4

\* What the steps of an upload know of its place.
LEMMA Place ==
    ASSUME IInv, NEW r \in Reqs
    PROVE  /\ from[r] \in Nat \ {0} /\ next[r] \in Nat /\ Rows[r] \in Nat /\ BatchSize \in Nat \ {0}
           /\ from[r] <= next[r] /\ next[r] <= LastOfBatch(r) + 1 /\ from[r] <= Rows[r] + 1
           /\ LastOfBatch(r) \in Nat /\ LastOfBatch(r) <= Rows[r]
<1>1. from[r] \in Nat /\ next[r] \in Nat /\ Placed(r) /\ Rows[r] \in Nat /\ BatchSize \in Nat \ {0}
  BY SizeAssumption DEF IInv, UploadsOK
<1>2. QED
  BY <1>1 DEF Placed, LastOfBatch

\* A range of rows is finite, and so is any selection from it.
LEMMA RowRange ==
    ASSUME NEW a \in Nat, NEW b \in Nat, a <= b
    PROVE  /\ IsFiniteSet(a .. b - 1)
           /\ Cardinality(a .. b - 1) = b - a
<1>1. a \in Int /\ b - 1 \in Int
  OBVIOUS
<1>2. /\ IsFiniteSet(a .. b - 1)
      /\ Cardinality(a .. b - 1) = IF a > b - 1 THEN 0 ELSE (b - 1) - a + 1
  BY <1>1, FS_Interval
<1>3. QED
  BY <1>2

\* What two sets that share nothing count together.
LEMMA DisjointUnion ==
    ASSUME NEW S, NEW T, NEW V, IsFiniteSet(S), IsFiniteSet(T), V = S \cup T, S \cap T = {}
    PROVE  IsFiniteSet(V) /\ Cardinality(V) = Cardinality(S) + Cardinality(T)
<1>1. /\ IsFiniteSet(V)
      /\ Cardinality(V) = Cardinality(S) + Cardinality(T) - Cardinality({})
  BY FS_Union
<1>2. Cardinality({}) = 0 /\ Cardinality(S) \in Nat /\ Cardinality(T) \in Nat
  BY FS_EmptySet, FS_CardinalityType
<1>3. QED
  BY <1>1, <1>2

LEMMA ClassifyRowKeeps ==
    ASSUME IInv, NEW r \in Reqs, ClassifyRow(r)
    PROVE  IInv'
<1>1. PICK found \in {{}} \cup {{p} : p \in Matches(r)} :
         batch' = [batch EXCEPT ![r] = Put(@, next[r], EntityOf(r, found))]
  BY DEF ClassifyRow
<1>2. /\ stage[r] = "running" /\ next[r] <= LastOfBatch(r) /\ next' = [next EXCEPT ![r] = @ + 1]
      /\ UNCHANGED <<categories, everRules, changes, table, stage, from, skipped, result,
                     todo, chosen, phase, counted, stats>>
  BY DEF ClassifyRow, AtRow, ruleVars, workerVars, statVars
<1>3. EntityOf(r, found) \in Entity
  <2>1. Sound(EntityOf(r, found))
    BY EntitySound DEF IInv, RulesOK
  <2>2. QED
    BY <2>1 DEF Sound, Entity, NoEntity, IInv, RulesOK
<1>4. RulesOK' /\ TableOK' /\ WorkersOK' /\ StatsOK'
  BY <1>2 DEF IInv, RulesOK, TableOK, WorkersOK, StatsOK, Total
<1>5. /\ batch' = [q \in Reqs |-> batch'[q]]
      /\ batch'[r] = Put(batch[r], next[r], EntityOf(r, found))
      /\ \A q \in Reqs \ {r} : batch'[q] = batch[q]
  BY <1>1 DEF IInv, UploadsOK
<1>6. /\ DOMAIN batch'[r] = DOMAIN batch[r] \cup {next[r]}
      /\ batch'[r] \in [DOMAIN batch'[r] -> Entity]
  BY <1>3, <1>5 DEF IInv, UploadsOK, Put
<1>7. UploadsOK'
  <2>1. \A q \in Reqs : batch'[q] \in [DOMAIN batch'[q] -> Entity]
    BY <1>5, <1>6 DEF IInv, UploadsOK
  <2>2. next' \in [Reqs -> Nat]
    BY <1>2 DEF IInv, UploadsOK
  <2>3. QED
    BY <1>2, <1>5, <2>1, <2>2 DEF IInv, UploadsOK
<1>8. Placed(r)'
  <2>1. Placed(r) /\ next'[r] = next[r] + 1
    BY <1>2 DEF IInv, UploadsOK
  <2>2. DOMAIN batch'[r] = Good(r, from[r], next[r])
    BY <1>2, <1>6, <2>1, Place DEF Placed, Good
  <2>3. next'[r] - 1 = next[r]
    BY <2>1, Place
  <2>4. skipped[r] \subseteq 1 .. next'[r] - 1
    BY <1>2, <2>1, <2>3, Place DEF Placed
  <2>5. QED
    BY <1>2, <2>1, <2>2, <2>3, <2>4, Place DEF Placed, LastOfBatch, Good
<1>9. Counted(r)'
  BY <1>2 DEF IInv, Counted, Unmatched
<1>10. ASSUME NEW q \in Reqs, q # r
       PROVE  Placed(q)' /\ Counted(q)'
  BY <1>2, <1>5, <1>10, UploadUnchanged DEF IInv, UploadsOK, Unmatched
<1>11. QED
  BY <1>4, <1>7, <1>8, <1>9, <1>10 DEF IInv

LEMMA SkipRowKeeps ==
    ASSUME IInv, NEW r \in Reqs, SkipRow(r)
    PROVE  IInv'
<1>1. /\ stage[r] = "running" /\ next[r] <= LastOfBatch(r) /\ next' = [next EXCEPT ![r] = @ + 1]
      /\ skipped' = [skipped EXCEPT ![r] = @ \cup {next[r]}]
      /\ UNCHANGED <<categories, everRules, changes, table, stage, from, batch, result,
                     todo, chosen, phase, counted, stats>>
  BY DEF SkipRow, AtRow, ruleVars, workerVars, statVars
<1>2. RulesOK' /\ TableOK' /\ WorkersOK' /\ StatsOK'
  BY <1>1 DEF IInv, RulesOK, TableOK, WorkersOK, StatsOK, Total
<1>3. UploadsOK'
  BY <1>1 DEF IInv, UploadsOK
<1>4. Placed(r)'
  <2>1. Placed(r) /\ next'[r] = next[r] + 1 /\ skipped'[r] = skipped[r] \cup {next[r]}
    BY <1>1 DEF IInv, UploadsOK
  <2>2. next'[r] - 1 = next[r]
    BY <2>1, Place
  <2>3. DOMAIN batch[r] = (from[r] .. next[r]) \ skipped'[r]
    BY <1>1, <2>1, Place DEF Placed, Good
  <2>4. Good(r, 1, from[r] - 1)' = Good(r, 1, from[r] - 1)
    BY <1>1, <2>1, Place DEF Good
  <2>5. skipped'[r] \subseteq 1 .. next'[r] - 1 /\ skipped'[r] \subseteq 1 .. Rows[r]
    BY <1>1, <2>1, <2>2, Place DEF Placed
  <2>6. QED
    BY <1>1, <2>1, <2>2, <2>3, <2>4, <2>5, Place DEF Placed, LastOfBatch, Good
<1>5. Counted(r)'
  BY <1>1 DEF IInv, Counted, Unmatched
<1>6. ASSUME NEW q \in Reqs, q # r
      PROVE  Placed(q)' /\ Counted(q)'
  BY <1>1, <1>6, UploadUnchanged DEF IInv, UploadsOK, Unmatched
<1>7. QED
  BY <1>2, <1>3, <1>4, <1>5, <1>6 DEF IInv

LEMMA FailBatchKeeps ==
    ASSUME IInv, NEW r \in Reqs, FailBatch(r)
    PROVE  IInv'
<1>1. /\ stage' = [stage EXCEPT ![r] = "failed"] /\ Forget({r})
      /\ UNCHANGED <<categories, everRules, changes, table, from, skipped,
                     todo, chosen, phase, counted, stats>>
  BY DEF FailBatch, ruleVars, workerVars, statVars
<1>2. RulesOK' /\ TableOK' /\ WorkersOK' /\ StatsOK'
  BY <1>1 DEF IInv, RulesOK, TableOK, WorkersOK, StatsOK, Total
<1>3. /\ stage'[r] = "failed" /\ next'[r] = from[r] /\ DOMAIN batch'[r] = {}
      /\ UploadsOK'
  BY <1>1 DEF IInv, UploadsOK, Forget, Nothing, Zero, Results
<1>4. Placed(r)'
  <2>1. Placed(r) /\ Good(r, from[r], from[r] - 1) = {}
    BY Place DEF IInv, Good
  <2>2. from[r] <= LastOfBatch(r) + 1
    BY Place
  <2>3. QED
    BY <1>1, <1>3, <2>1, <2>2, Place DEF Placed, LastOfBatch, Good
<1>5. Counted(r)'
  BY <1>3 DEF Counted
<1>6. ASSUME NEW q \in Reqs, q # r
      PROVE  Placed(q)' /\ Counted(q)'
  BY <1>1, <1>6, UploadUnchanged DEF IInv, UploadsOK, Unmatched, Forget
<1>7. QED
  BY <1>2, <1>3, <1>4, <1>5, <1>6 DEF IInv

LEMMA FinishKeeps ==
    ASSUME IInv, NEW r \in Reqs, Finish(r)
    PROVE  IInv'
<1>1. /\ stage[r] = "running" /\ from[r] > Rows[r] /\ stage' = [stage EXCEPT ![r] = "done"]
      /\ UNCHANGED <<categories, everRules, changes, table, from, next, batch, skipped, result,
                     todo, chosen, phase, counted, stats>>
  BY DEF Finish, ruleVars, workerVars, statVars
<1>2. RulesOK' /\ TableOK' /\ WorkersOK' /\ StatsOK'
  BY <1>1 DEF IInv, RulesOK, TableOK, WorkersOK, StatsOK, Total
<1>3. UploadsOK' /\ stage'[r] = "done"
  BY <1>1 DEF IInv, UploadsOK
<1>4. Placed(r)'
  <2>1. Placed(r) /\ from[r] = Rows[r] + 1
    BY <1>1, Place DEF IInv
  <2>2. QED
    BY <1>1, <1>3, <2>1 DEF Placed, LastOfBatch, Good
<1>5. Counted(r)'
  BY <1>1 DEF IInv, Counted, Unmatched
<1>6. ASSUME NEW q \in Reqs, q # r
      PROVE  Placed(q)' /\ Counted(q)'
  BY <1>1, <1>6, UploadUnchanged DEF IInv, UploadsOK, Unmatched
<1>7. QED
  BY <1>2, <1>3, <1>4, <1>5, <1>6 DEF IInv

\* The table only grows, so what was counted is still there.
LEMMA TableGrows ==
    ASSUME IInv, DOMAIN table \subseteq DOMAIN table', IsFiniteSet(DOMAIN table')
    PROVE  \A n \in counted : n <= Total'
<1>1. IsFiniteSet(DOMAIN table)
  BY DEF IInv, TableOK
<1>2. /\ Total \in Nat /\ Total' \in Nat /\ Total <= Total'
  BY <1>1, FS_Subset, FS_CardinalityType DEF Total
<1>3. counted \subseteq Nat /\ \A n \in counted : n <= Total
  BY DEF IInv, StatsOK
<1>4. QED
  BY <1>2, <1>3

\* Saving a batch: its rows join those in the table, and its counts those of the upload.
LEMMA SaveBatchKeeps ==
    ASSUME IInv, NEW r \in Reqs, SaveBatch(r)
    PROVE  IInv'
<1> DEFINE D == DOMAIN batch[r]
           U == {i \in D : batch[r][i] = NoEntity}
<1>1. /\ stage[r] = "running" /\ from[r] <= Rows[r] /\ next[r] > LastOfBatch(r)
      /\ table' = TableWith(r)
      /\ result' = [result EXCEPT ![r] = Merged(r)]
      /\ from' = [from EXCEPT ![r] = next[r]]
      /\ batch' = [batch EXCEPT ![r] = Nothing]
      /\ UNCHANGED <<categories, everRules, changes, stage, next, skipped,
                     todo, chosen, phase, counted, stats>>
  BY DEF SaveBatch, AtSave, ruleVars, workerVars, statVars
<1>2. /\ Placed(r) /\ batch[r] \in [D -> Entity]
      /\ D = Good(r, from[r], next[r] - 1) /\ D \subseteq from[r] .. next[r] - 1
  BY DEF IInv, UploadsOK, Placed, Good
<1>3. IsFiniteSet(D) /\ Cardinality(D) \in Nat /\ IsFiniteSet(U) /\ Cardinality(U) \in Nat
  <2>1. IsFiniteSet(from[r] .. next[r] - 1)
    <3>1. from[r] \in Nat /\ next[r] \in Nat /\ from[r] <= next[r]
      BY Place
    <3>2. QED
      BY <3>1, RowRange
  <2>2. IsFiniteSet(D) /\ IsFiniteSet(U)
    BY <1>2, <2>1, FS_Subset
  <2>3. QED
    BY <2>2, FS_CardinalityType
<1>4. /\ DOMAIN table' = DOMAIN table \cup Ids(r, D)
      /\ table' = [x \in DOMAIN table' |-> table'[x]]
      /\ \A x \in Ids(r, D) : x.row \in D /\ table'[x] = batch[r][x.row]
      /\ \A x \in DOMAIN table \ Ids(r, D) : table'[x] = table[x]
  BY <1>1 DEF TableWith, Ids
<1>5. RulesOK'
  BY <1>1 DEF IInv, RulesOK
<1>6. TableOK'
  <2>1. IsFiniteSet(Ids(r, D))
    BY <1>3, IdsCardinality
  <2>2. IsFiniteSet(DOMAIN table')
    <3>1. IsFiniteSet(DOMAIN table)
      BY DEF IInv, TableOK
    <3>2. IsFiniteSet(DOMAIN table \cup Ids(r, D))
      BY <2>1, <3>1, FS_Union
    <3>3. QED
      BY <1>4, <3>2
  <2>3. D \subseteq 1 .. Rows[r]
    BY <1>2, Place
  <2>4. \A x \in Ids(r, D) : /\ x \in TableId /\ x.row \in 1 .. Rows[x.req]
                             /\ table'[x] \in Entity
    BY <1>2, <1>4, <2>3 DEF Ids, TableId
  <2>5. QED
    BY <1>4, <2>2, <2>4 DEF IInv, TableOK
<1>7. UploadsOK'
  <2>1. Merged(r) \in Results
    <3>1. IsFiniteSet(DOMAIN batch[r] \ {i \in DOMAIN batch[r] : batch[r][i] # NoEntity})
      BY <1>3, FS_Subset
    <3>2. IsFiniteSet({i \in DOMAIN batch[r] : batch[r][i] # NoEntity})
      BY <1>3, FS_Subset
    <3>3. {i \in skipped[r] : i >= from[r]} \subseteq 1 .. next[r] - 1
      BY <1>1, <1>2 DEF Placed
    <3>4. IsFiniteSet({i \in skipped[r] : i >= from[r]})
      <4>1. 1 \in Nat /\ next[r] \in Nat /\ 1 <= next[r]
        BY Place
      <4>2. IsFiniteSet(1 .. next[r] - 1)
        BY <4>1, RowRange
      <4>3. QED
        BY <3>3, <4>2, FS_Subset
    <3>5. result[r] \in Results
      BY DEF IInv, UploadsOK
    <3>6. /\ Cardinality(DOMAIN batch[r] \ {i \in DOMAIN batch[r] : batch[r][i] # NoEntity}) \in Nat
          /\ Cardinality({i \in DOMAIN batch[r] : batch[r][i] # NoEntity}) \in Nat
          /\ Cardinality({i \in skipped[r] : i >= from[r]}) \in Nat
          /\ Cardinality(DOMAIN batch[r]) \in Nat
      BY <1>3, <3>1, <3>2, <3>4, FS_CardinalityType
    <3>7. QED
      BY <3>5, <3>6 DEF Merged, Results
  <2>2. batch' = [q \in Reqs |-> batch'[q]] /\ \A q \in Reqs : batch'[q] \in [DOMAIN batch'[q] -> Entity]
    BY <1>1 DEF IInv, UploadsOK, Nothing
  <2>3. from' \in [Reqs -> Nat] /\ result' \in [Reqs -> Results]
    BY <1>1, <2>1 DEF IInv, UploadsOK
  <2>4. QED
    BY <1>1, <2>2, <2>3 DEF IInv, UploadsOK
<1>8. WorkersOK'
  BY <1>1, <1>4 DEF IInv, WorkersOK
<1>9. StatsOK'
  BY <1>1, <1>4, <1>6, TableGrows DEF IInv, TableOK, StatsOK
<1>10. RowsOf(r, DOMAIN table') = Ids(r, Good(r, 1, next[r] - 1))
  <2>1. RowsOf(r, DOMAIN table') = RowsOf(r, DOMAIN table) \cup Ids(r, D)
    BY <1>4 DEF RowsOf, Ids
  <2>2. Ids(r, Good(r, 1, from[r] - 1)) \cup Ids(r, D)
          = Ids(r, Good(r, 1, from[r] - 1) \cup D)
    BY DEF Ids
  <2>3. Good(r, 1, from[r] - 1) \cup D = Good(r, 1, next[r] - 1)
    BY <1>2, Place DEF Good
  <2>4. QED
    BY <1>2, <2>1, <2>2, <2>3 DEF Placed
<1>11. Placed(r)'
  <2>1. /\ from'[r] = next[r] /\ next'[r] = next[r] /\ DOMAIN batch'[r] = {}
        /\ skipped'[r] = skipped[r] /\ stage'[r] = "running"
    BY <1>1 DEF IInv, UploadsOK, Nothing
  <2>2. next[r] = LastOfBatch(r) + 1
    BY <1>1, Place
  <2>3. next[r] - 1 = Rows[r] \/ (next[r] - 1) % BatchSize = 0
    <3>1. CASE from[r] + BatchSize - 1 <= Rows[r]
      <4>1. (from[r] - 1) % BatchSize = 0 /\ from[r] - 1 \in Nat
        BY <1>1, <1>2, Place DEF Placed
      <4>2. next[r] - 1 = (from[r] - 1) + BatchSize
        BY <2>2, <3>1, Place DEF LastOfBatch
      <4>3. QED
        BY <4>1, <4>2, NextMultiple, Place
    <3>2. CASE ~(from[r] + BatchSize - 1 <= Rows[r])
      BY <2>2, <3>2, Place DEF LastOfBatch
    <3>3. QED
      BY <3>1, <3>2
  <2>4. Good(r, next[r], next[r] - 1) = {}
    BY Place DEF Good
  <2>5. skipped[r] \subseteq 1 .. next[r] - 1
    BY <1>1, <1>2 DEF Placed
  <2>6. 1 <= next[r] /\ next[r] <= Rows[r] + 1
    BY <2>2, Place
  <2>7. LastOfBatch(r)' + 1 >= next[r]
    BY <2>1, <2>6, Place DEF LastOfBatch
  <2>8. /\ Good(r, from[r], next[r] - 1)' = {}
        /\ Good(r, 1, from[r] - 1)' = Good(r, 1, next[r] - 1)
    BY <2>1, <2>4 DEF Good
  <2>9. RowsOf(r, DOMAIN table)' = Ids(r, Good(r, 1, from[r] - 1))'
    BY <1>10, <2>8 DEF RowsOf, Ids
  <2>10. /\ 1 <= from'[r] /\ from'[r] <= next'[r] /\ next'[r] <= LastOfBatch(r)' + 1
         /\ from'[r] <= Rows[r] + 1
    BY <2>1, <2>6, <2>7, Place
  <2>11. /\ DOMAIN batch'[r] = Good(r, from[r], next[r] - 1)'
         /\ skipped'[r] \subseteq 1 .. Rows[r] /\ skipped'[r] \subseteq 1 .. next'[r] - 1
         /\ from'[r] - 1 = Rows[r] \/ (from'[r] - 1) % BatchSize = 0
    BY <1>2, <2>1, <2>3, <2>5, <2>8 DEF Placed
  <2>12. QED
    BY <2>1, <2>9, <2>10, <2>11 DEF Placed
<1>12. Counted(r)'
  <2> DEFINE E == {i \in skipped[r] : i >= from[r]}
             M == {i \in D : batch[r][i] # NoEntity}
  <2>1. Counted(r) /\ stage[r] # "failed" /\ result[r] \in Results
    BY <1>1 DEF IInv, UploadsOK
  <2>2. E \subseteq from[r] .. next[r] - 1 /\ D = (from[r] .. next[r] - 1) \ E
    BY <1>1, <1>2, Place DEF Placed, Good
  <2>3. /\ IsFiniteSet(E) /\ Cardinality(E) \in Nat
        /\ Cardinality(D) + Cardinality(E) = next[r] - from[r]
    <3>1. /\ IsFiniteSet(from[r] .. next[r] - 1)
          /\ Cardinality(from[r] .. next[r] - 1) = next[r] - from[r]
      <4>1. from[r] \in Nat /\ next[r] \in Nat /\ from[r] <= next[r]
        BY Place
      <4>2. QED
        BY <4>1, RowRange
    <3>2. (from[r] .. next[r] - 1) \cap E = E
      BY <2>2
    <3>3. IsFiniteSet(E) /\ Cardinality(E) \in Nat
      BY <2>2, <3>1, FS_Subset, FS_CardinalityType
    <3>4. Cardinality(D) = Cardinality(from[r] .. next[r] - 1) - Cardinality(E)
      BY <2>2, <3>1, <3>2, FS_Difference
    <3>5. QED
      BY <1>3, <3>1, <3>3, <3>4, Place
  <2>4. /\ IsFiniteSet(M) /\ Cardinality(M) \in Nat /\ D \ M = U
        /\ Cardinality(M) + Cardinality(U) = Cardinality(D)
    <3>1. IsFiniteSet(M) /\ D \ M = U /\ D \cap M = M
      BY <1>3, FS_Subset
    <3>2. Cardinality(D \ M) = Cardinality(D) - Cardinality(D \cap M)
      BY <1>3, FS_Difference
    <3>3. Cardinality(M) \in Nat
      BY <3>1, FS_CardinalityType
    <3>4. Cardinality(U) = Cardinality(D) - Cardinality(M)
      BY <3>1, <3>2
    <3>5. QED
      BY <1>3, <3>1, <3>3, <3>4
  <2>5. /\ result'[r] = Merged(r)
        /\ Merged(r).total = result[r].total + Cardinality(D)
        /\ Merged(r).classified = result[r].classified + Cardinality(M)
        /\ Merged(r).unclassified = result[r].unclassified + Cardinality(U)
        /\ Merged(r).errors = result[r].errors + Cardinality(E)
    BY <1>1, <2>4 DEF IInv, UploadsOK, Merged
  <2>6. Cardinality(RowsOf(r, DOMAIN table')) = result[r].total + Cardinality(D)
    <3>1. IsFiniteSet(Good(r, 1, from[r] - 1))
      <4>1. 1 \in Nat /\ from[r] \in Nat /\ 1 <= from[r]
        BY Place
      <4>2. IsFiniteSet(1 .. from[r] - 1)
        BY <4>1, RowRange
      <4>3. QED
        BY <4>2, FS_Subset DEF Good
    <3>2. /\ Good(r, 1, next[r] - 1) = Good(r, 1, from[r] - 1) \cup D
          /\ Good(r, 1, from[r] - 1) \cap D = {}
      BY <1>2, Place DEF Good
    <3>3. /\ IsFiniteSet(Good(r, 1, next[r] - 1))
          /\ Cardinality(Good(r, 1, next[r] - 1)) = Cardinality(Good(r, 1, from[r] - 1)) + Cardinality(D)
      <4> DEFINE V == Good(r, 1, next[r] - 1)
                 S == Good(r, 1, from[r] - 1)
      <4>1. IsFiniteSet(S) /\ IsFiniteSet(D) /\ V = S \cup D /\ S \cap D = {}
        BY <1>3, <3>1, <3>2
      <4> HIDE DEF V, S, D
      <4>2. IsFiniteSet(V) /\ Cardinality(V) = Cardinality(S) + Cardinality(D)
        BY <4>1, DisjointUnion
      <4>3. QED
        BY <4>2 DEF V, S, D
    <3>4. Cardinality(Good(r, 1, from[r] - 1)) = result[r].total
      BY <1>2, <2>1, <3>1, IdsCardinality DEF Placed, Counted
    <3>5. QED
      BY <1>10, <3>3, <3>4, IdsCardinality
  <2>7. Cardinality(RowsOf(r, Unmatched')) <= result[r].unclassified + Cardinality(U)
    <3>1. RowsOf(r, Unmatched') \subseteq RowsOf(r, Unmatched) \cup Ids(r, U)
      <4>1. \A i \in D : batch[r][i].company = Null => i \in U
        BY <1>2, NullAssumption DEF Entity, Rule, NoEntity
      <4>2. \A x \in Ids(r, D) : table'[x].company = Null => x \in Ids(r, U)
        BY <1>4, <4>1 DEF Ids
      <4>3. QED
        BY <1>4, <4>2 DEF RowsOf, Unmatched
    <3>2. IsFiniteSet(RowsOf(r, Unmatched)) /\ IsFiniteSet(Ids(r, U)) /\ Cardinality(Ids(r, U)) = Cardinality(U)
      BY <1>3, IdsCardinality, FS_Subset DEF IInv, TableOK, RowsOf, Unmatched
    <3>3. /\ IsFiniteSet(RowsOf(r, Unmatched) \cup Ids(r, U))
          /\ Cardinality(RowsOf(r, Unmatched) \cup Ids(r, U))
               <= Cardinality(RowsOf(r, Unmatched)) + Cardinality(U)
      <4>1. /\ IsFiniteSet(RowsOf(r, Unmatched) \cup Ids(r, U))
            /\ Cardinality(RowsOf(r, Unmatched) \cup Ids(r, U))
                 = Cardinality(RowsOf(r, Unmatched)) + Cardinality(Ids(r, U))
                     - Cardinality(RowsOf(r, Unmatched) \cap Ids(r, U))
        BY <3>2, FS_Union
      <4>2. /\ Cardinality(RowsOf(r, Unmatched) \cap Ids(r, U)) \in Nat
            /\ Cardinality(RowsOf(r, Unmatched)) \in Nat
        BY <3>2, FS_Intersection, FS_CardinalityType
      <4>3. QED
        BY <1>3, <3>2, <4>1, <4>2
    <3>4. Cardinality(RowsOf(r, Unmatched')) <= Cardinality(RowsOf(r, Unmatched) \cup Ids(r, U))
      BY <3>1, <3>3, FS_Subset
    <3>5. /\ Cardinality(RowsOf(r, Unmatched')) \in Nat /\ Cardinality(RowsOf(r, Unmatched)) \in Nat
          /\ Cardinality(RowsOf(r, Unmatched) \cup Ids(r, U)) \in Nat
      BY <3>1, <3>2, <3>3, FS_Subset, FS_CardinalityType
    <3>6. Cardinality(RowsOf(r, Unmatched)) <= result[r].unclassified /\ result[r].unclassified \in Nat
      BY <2>1, <3>5 DEF Counted, Results
    <3>7. QED
      BY <1>3, <3>3, <3>4, <3>5, <3>6
  <2>8. /\ result[r].total \in Nat /\ result[r].classified \in Nat
        /\ result[r].unclassified \in Nat /\ result[r].errors \in Nat
    BY <2>1 DEF Results
  <2>9. IsFiniteSet(RowsOf(r, Unmatched')) /\ Cardinality(RowsOf(r, Unmatched')) \in Nat
    BY <1>6, FS_Subset, FS_CardinalityType DEF TableOK, RowsOf, Unmatched
  <2>10. from'[r] = next[r]
    BY <1>1 DEF IInv, UploadsOK
  <2>11. /\ result'[r].total = Cardinality(RowsOf(r, DOMAIN table'))
         /\ result'[r].total + result'[r].errors = from'[r] - 1
    <3>1. result[r].total + result[r].errors = from[r] - 1
      BY <2>1 DEF Counted
    <3>2. /\ result'[r].total = result[r].total + Cardinality(D)
          /\ result'[r].errors = result[r].errors + Cardinality(E)
      BY <2>5
    <3>3. result'[r].total = Cardinality(RowsOf(r, DOMAIN table'))
      BY <2>6, <3>2
    <3>4. result'[r].total + result'[r].errors = next[r] - 1
      BY <1>3, <2>3, <2>8, <3>1, <3>2, Place
    <3>5. QED
      BY <2>10, <3>3, <3>4
  <2>12. /\ result'[r].classified + result'[r].unclassified = result'[r].total
         /\ result'[r].unclassified >= Cardinality(RowsOf(r, Unmatched'))
    <3>1. result[r].classified + result[r].unclassified = result[r].total
      BY <2>1 DEF Counted
    <3>2. QED
      BY <1>3, <2>4, <2>5, <2>7, <2>8, <2>9, <3>1
  <2>13. QED
    BY <2>11, <2>12 DEF Counted, RowsOf
<1>13. ASSUME NEW q \in Reqs, q # r
       PROVE  Placed(q)' /\ Counted(q)'
  <2>1. /\ RowsOf(q, DOMAIN table') = RowsOf(q, DOMAIN table)
        /\ RowsOf(q, Unmatched') \subseteq RowsOf(q, Unmatched)
    BY <1>4, <1>13 DEF RowsOf, Ids, Unmatched
  <2>2. /\ from'[q] = from[q] /\ batch'[q] = batch[q] /\ result'[q] = result[q]
    BY <1>1, <1>13 DEF IInv, UploadsOK
  <2>3. QED
    BY <1>1, <2>1, <2>2, UploadUnchanged
<1>14. QED
  BY <1>5, <1>6, <1>7, <1>8, <1>9, <1>11, <1>12, <1>13 DEF IInv

\* Whatever leaves the table and the uploads alone keeps what is said of them.
LEMMA UploadsAside ==
    ASSUME IInv, UNCHANGED <<table, uploadVars>>
    PROVE  TableOK' /\ UploadsOK' /\ Total' = Total /\ \A r \in Reqs : Placed(r)' /\ Counted(r)'
<1>1. UNCHANGED <<table, stage, from, next, batch, skipped, result>>
  BY DEF uploadVars
<1>2. TableOK' /\ UploadsOK' /\ Total' = Total
  BY <1>1 DEF IInv, TableOK, UploadsOK, Total
<1>3. ASSUME NEW r \in Reqs
      PROVE  Placed(r)' /\ Counted(r)'
  BY <1>1, UploadUnchanged DEF Unmatched
<1>4. QED
  BY <1>2, <1>3

\* A reclassification: only its save touches the table, and only to give a row, found
\* without a company, the columns of a rule.
LEMMA ReclassificationKeeps ==
    ASSUME IInv, NEW w \in Workers,
           \/ FindUnclassified(w) \/ SaveReclassified(w) \/ SaveReclassifiedFails(w) \/ EndReclassify(w)
           \/ \E x \in DOMAIN table : Reclassify(w, x) \/ PassOver(w, x)
    PROVE  IInv'
<1>1. CASE SaveReclassified(w)
  <2>1. PICK c \in chosen[w] :
           /\ phase[w] = "running"
           /\ table' = [table EXCEPT ![c.id] = c.rule]
           /\ todo' = [todo EXCEPT ![w] = @ \ {c.id}]
           /\ chosen' = [chosen EXCEPT ![w] = {}]
           /\ UNCHANGED <<categories, everRules, changes, stage, from, next, batch, skipped, result,
                          phase, counted, stats>>
    BY <1>1 DEF SaveReclassified, ruleVars, uploadVars, statVars
  <2>2. c.rule \in Rule /\ c.rule \in Entity /\ c.rule.company # Null /\ c.id \in DOMAIN table
    BY NullAssumption DEF IInv, WorkersOK, Rule, Entity
  <2>3. DOMAIN table' = DOMAIN table /\ Unmatched' \subseteq Unmatched
    BY <2>1, <2>2 DEF IInv, TableOK, Unmatched
  <2>4. TableOK'
    BY <2>1, <2>2 DEF IInv, TableOK
  <2>5. RulesOK' /\ UploadsOK' /\ StatsOK'
    BY <2>1, <2>3 DEF IInv, RulesOK, UploadsOK, StatsOK, Total
  <2>6. WorkersOK'
    BY <2>1, <2>3 DEF IInv, WorkersOK
  <2>7. ASSUME NEW r \in Reqs
        PROVE  Placed(r)' /\ Counted(r)'
    <3>1. RowsOf(r, Unmatched') \subseteq RowsOf(r, Unmatched)
      BY <2>3 DEF RowsOf
    <3>2. QED
      BY <2>1, <2>3, <3>1, UploadUnchanged
  <2>8. QED
    BY <2>4, <2>5, <2>6, <2>7 DEF IInv
<1>2. ASSUME RulesOK', WorkersOK', UNCHANGED <<table, uploadVars, statVars>>
      PROVE  IInv'
  <2>1. StatsOK'
    BY <1>2, UploadsAside DEF IInv, StatsOK, statVars
  <2>2. QED
    BY <1>2, <2>1, UploadsAside DEF IInv
<1>3. CASE FindUnclassified(w)
  <2>1. PICK S \in SUBSET Unmatched : todo' = [todo EXCEPT ![w] = S]
    BY <1>3 DEF FindUnclassified
  <2>2. /\ phase[w] = "new" /\ phase' = [phase EXCEPT ![w] = "running"]
        /\ UNCHANGED <<ruleVars, table, uploadVars, chosen, statVars>>
    BY <1>3 DEF FindUnclassified
  <2>3. RulesOK'
    BY <2>2 DEF IInv, RulesOK, ruleVars
  <2>4. WorkersOK'
    BY <2>1, <2>2 DEF IInv, WorkersOK, Unmatched
  <2>5. QED
    BY <1>2, <2>2, <2>3, <2>4
<1>4. CASE SaveReclassifiedFails(w)
  <2>1. PICK c \in chosen[w] :
           /\ todo' = [todo EXCEPT ![w] = @ \ {c.id}]
           /\ chosen' = [chosen EXCEPT ![w] = {}]
           /\ UNCHANGED <<ruleVars, table, uploadVars, phase, statVars>>
    BY <1>4 DEF SaveReclassifiedFails
  <2>2. RulesOK'
    BY <2>1 DEF IInv, RulesOK, ruleVars
  <2>3. WorkersOK'
    BY <2>1 DEF IInv, WorkersOK
  <2>4. QED
    BY <1>2, <2>1, <2>2, <2>3
<1>5. CASE EndReclassify(w)
  <2>1. /\ phase[w] = "running" /\ todo[w] = {} /\ phase' = [phase EXCEPT ![w] = "done"]
        /\ UNCHANGED <<ruleVars, table, uploadVars, todo, chosen, statVars>>
    BY <1>5 DEF EndReclassify
  <2>2. RulesOK'
    BY <2>1 DEF IInv, RulesOK, ruleVars
  <2>3. chosen[w] = {}
    BY <2>1 DEF IInv, WorkersOK
  <2>4. WorkersOK'
    BY <2>1, <2>3 DEF IInv, WorkersOK
  <2>5. QED
    BY <1>2, <2>1, <2>2, <2>4
<1>6. ASSUME NEW x \in DOMAIN table, Reclassify(w, x)
      PROVE  IInv'
  <2>1. PICK p \in everRules : chosen' = [chosen EXCEPT ![w] = {[id |-> x, rule |-> p]}]
    BY <1>6 DEF Reclassify
  <2>2. /\ phase[w] = "running" /\ x \in todo[w]
        /\ UNCHANGED <<ruleVars, table, uploadVars, todo, phase, statVars>>
    BY <1>6 DEF Reclassify, Free
  <2>3. RulesOK'
    BY <2>2 DEF IInv, RulesOK, ruleVars
  <2>4. /\ chosen' = [v \in Workers |-> chosen'[v]]
        /\ chosen'[w] = {[id |-> x, rule |-> p]}
        /\ \A v \in Workers \ {w} : chosen'[v] = chosen[v]
    BY <2>1 DEF IInv, WorkersOK
  <2>5. p \in Rule
    BY DEF IInv, RulesOK
  <2>6. ASSUME NEW v \in Workers, NEW c \in chosen'[v]
        PROVE  c.id \in todo[v] /\ c.rule \in Rule
    <3>1. CASE v = w
      <4>1. c = [id |-> x, rule |-> p]
        BY <2>4, <3>1
      <4>2. QED
        BY <2>2, <2>5, <3>1, <4>1
    <3>2. CASE v # w
      BY <2>4, <3>2 DEF IInv, WorkersOK
    <3>3. QED
      BY <3>1, <3>2
  <2>7. \A v \in Workers : phase[v] # "running" => chosen'[v] = {}
    BY <2>2, <2>4 DEF IInv, WorkersOK
  <2>8. WorkersOK'
    BY <2>2, <2>4, <2>6, <2>7 DEF IInv, WorkersOK
  <2>9. QED
    BY <1>2, <2>2, <2>3, <2>8
<1>7. ASSUME NEW x \in DOMAIN table, PassOver(w, x)
      PROVE  IInv'
  <2>1. /\ chosen[w] = {} /\ todo' = [todo EXCEPT ![w] = @ \ {x}]
        /\ UNCHANGED <<ruleVars, table, uploadVars, chosen, phase, statVars>>
    BY <1>7 DEF PassOver, Free
  <2>2. RulesOK'
    BY <2>1 DEF IInv, RulesOK, ruleVars
  <2>3. WorkersOK'
    BY <2>1 DEF IInv, WorkersOK
  <2>4. QED
    BY <1>2, <2>1, <2>2, <2>3
<1>8. QED
  BY <1>1, <1>3, <1>4, <1>5, <1>6, <1>7

\* The death of the process: what uploads had in memory is gone, the table is not.
LEMMA CrashKeeps ==
    ASSUME IInv, Crash
    PROVE  IInv'
<1>1. /\ stage' = [r \in Reqs |-> IF stage[r] = "running" THEN "failed" ELSE stage[r]]
      /\ Forget({r \in Reqs : stage[r] = "running"})
      /\ phase' = [w \in Workers |-> IF phase[w] = "running" THEN "done" ELSE phase[w]]
      /\ todo' = [w \in Workers |-> {}] /\ chosen' = [w \in Workers |-> {}]
      /\ counted' = {} /\ stats' = {}
      /\ UNCHANGED <<categories, everRules, changes, table, from, skipped>>
  BY DEF Crash, ruleVars
<1>2. RulesOK' /\ TableOK' /\ StatsOK' /\ WorkersOK'
  BY <1>1 DEF IInv, RulesOK, TableOK, StatsOK, WorkersOK
<1>3. UploadsOK'
  <2>1. stage' \in [Reqs -> {"running", "done", "failed"}] /\ next' \in [Reqs -> Nat]
    BY <1>1 DEF IInv, UploadsOK, Forget
  <2>2. /\ batch' = [r \in Reqs |-> batch'[r]]
        /\ \A r \in Reqs : batch'[r] \in [DOMAIN batch'[r] -> Entity]
    BY <1>1 DEF IInv, UploadsOK, Forget, Nothing
  <2>3. result' \in [Reqs -> Results]
    BY <1>1 DEF IInv, UploadsOK, Forget, Zero, Results
  <2>4. QED
    BY <1>1, <2>1, <2>2, <2>3 DEF IInv, UploadsOK
<1>4. ASSUME NEW r \in Reqs
      PROVE  Placed(r)' /\ Counted(r)'
  <2>1. CASE stage[r] = "running"
    <3>1. /\ stage'[r] = "failed" /\ next'[r] = from[r] /\ DOMAIN batch'[r] = {}
          /\ from'[r] = from[r] /\ skipped'[r] = skipped[r]
      BY <1>1, <2>1 DEF Forget, Nothing
    <3>2. Placed(r) /\ Good(r, from[r], from[r] - 1) = {}
      BY Place DEF IInv, Good
    <3>3. from[r] <= LastOfBatch(r) + 1
      BY Place
    <3>4. Placed(r)'
      BY <1>1, <3>1, <3>2, <3>3, Place DEF Placed, LastOfBatch, Good
    <3>5. QED
      BY <3>1, <3>4 DEF Counted
  <2>2. CASE stage[r] # "running"
    <3>1. /\ stage'[r] = stage[r] /\ next'[r] = next[r] /\ batch'[r] = batch[r] /\ result'[r] = result[r]
      BY <1>1, <2>2 DEF Forget
    <3>2. QED
      BY <1>1, <3>1, UploadUnchanged DEF Unmatched
  <2>3. QED
    BY <2>1, <2>2
<1>5. QED
  BY <1>2, <1>3, <1>4 DEF IInv

LEMMA IInvStep == IInv /\ [Next]_vars => IInv'
<1> SUFFICES ASSUME IInv, [Next]_vars PROVE IInv'
  OBVIOUS
<1>1. ASSUME RulesOK', WorkersOK', StatsOK', UNCHANGED <<table, uploadVars>>
      PROVE  IInv'
  BY <1>1, UploadsAside DEF IInv
<1>2. ASSUME NEW rule \in Rule, SaveRule(rule) PROVE IInv'
  <2>1. UNCHANGED <<table, uploadVars, workerVars, statVars>>
    BY <1>2 DEF SaveRule
  <2>2. RulesOK'
    BY <1>2, SizeAssumption DEF SaveRule, Put, IInv, RulesOK, Rule
  <2>3. WorkersOK'
    BY <2>1 DEF IInv, WorkersOK, workerVars
  <2>4. StatsOK'
    BY <2>1 DEF IInv, StatsOK, statVars, Total
  <2>5. QED
    BY <1>1, <2>1, <2>2, <2>3, <2>4
<1>3. ASSUME NEW k \in Cats, DeleteCategory(k) PROVE IInv'
  <2>1. UNCHANGED <<table, uploadVars, workerVars, statVars>>
    BY <1>3 DEF DeleteCategory
  <2>2. RulesOK'
    BY <1>3, SizeAssumption DEF DeleteCategory, IInv, RulesOK
  <2>3. WorkersOK'
    BY <2>1 DEF IInv, WorkersOK, workerVars
  <2>4. StatsOK'
    BY <2>1 DEF IInv, StatsOK, statVars, Total
  <2>5. QED
    BY <1>1, <2>1, <2>2, <2>3, <2>4
<1>4. CASE CountTotal
  <2>1. counted' = {Total} /\ stats' = {} /\ UNCHANGED <<ruleVars, table, uploadVars, workerVars>>
    BY <1>4 DEF CountTotal
  <2>2. Total \in Nat /\ Total' = Total
    BY <2>1, FS_CardinalityType DEF IInv, TableOK, Total
  <2>3. RulesOK' /\ WorkersOK' /\ StatsOK'
    BY <2>1, <2>2 DEF IInv, RulesOK, WorkersOK, StatsOK, ruleVars, workerVars
  <2>4. QED
    BY <1>1, <2>1, <2>3
<1>5. CASE ReportStats
  <2>1. /\ stats' = {[total |-> n, unclassified |-> Unclassified] : n \in counted}
        /\ counted' = {} /\ UNCHANGED <<ruleVars, table, uploadVars, workerVars>>
    BY <1>5 DEF ReportStats
  <2>2. Unclassified \in Nat
    BY FS_Subset, FS_CardinalityType DEF IInv, TableOK, Unclassified, Unmatched
  <2>3. RulesOK' /\ WorkersOK' /\ StatsOK'
    BY <2>1, <2>2 DEF IInv, RulesOK, WorkersOK, StatsOK, ruleVars, workerVars
  <2>4. QED
    BY <1>1, <2>1, <2>3
<1>6. CASE UNCHANGED vars
  <2>1. RulesOK' /\ WorkersOK' /\ StatsOK'
    BY <1>6 DEF IInv, RulesOK, WorkersOK, StatsOK, Total, vars, ruleVars, workerVars, statVars
  <2>2. QED
    BY <1>1, <1>6, <2>1 DEF vars
<1>7. QED
  BY <1>2, <1>3, <1>4, <1>5, <1>6, ClassifyRowKeeps, SkipRowKeeps, SaveBatchKeeps, FailBatchKeeps,
     FinishKeeps, ReclassificationKeeps, CrashKeeps DEF Next, Upload

LEMMA IInvCorrect == Spec => []IInv
BY IInvInit, IInvStep, PTL DEF Spec

\* All variables keep their types.
THEOREM TypeCorrect == Spec => []TypeOK
BY IInvCorrect, IInvTyped, PTL

\* Whatever interrupts an upload, the table holds its rows up to the end of a batch
\* but for those it reported as errors.
THEOREM WholeBatchesSaved == Spec => []SavedWholeBatches
BY IInvCorrect, IInvWhole, PTL

\* The counts an upload answers with add up to its file and describe what it saved.
THEOREM ResultsAccount == Spec => []ResultAccounts
BY IInvCorrect, IInvAccounts, PTL

\* Statistics taken while uploads commit never claim a classified transaction too many.
THEOREM StatsHold == Spec => StatsNotOverstated
<1>1. ASSUME IInv, ReportStats
      PROVE  \A s \in stats' : s.total <= s.unclassified + (Total - Unclassified)
  <2>1. stats' = {[total |-> n, unclassified |-> Unclassified] : n \in counted}
    BY <1>1 DEF ReportStats
  <2>2. /\ Unclassified \in Nat /\ Total \in Nat
        /\ counted \subseteq Nat /\ \A n \in counted : n <= Total
    BY <1>1, FS_Subset, FS_CardinalityType DEF IInv, TableOK, StatsOK, Unclassified, Unmatched, Total
  <2>3. QED
    BY <2>1, <2>2
<1>2. IInv /\ [Next]_vars
        => [ReportStats => \A s \in stats' : s.total <= s.unclassified + (Total - Unclassified)]_vars
  BY <1>1
<1>3. QED
  BY <1>2, IInvCorrect, PTL DEF Spec, StatsNotOverstated
=============================================================================
