---------------------------- MODULE Classification ----------------------------
(***************************************************************************)
(* TransactionClassificationService over the transactions table: uploads   *)
(* classified row by row and saved batch by batch, reclassification of the *)
(* rows no rule matched, and the overall statistics, all of them awaiting  *)
(* the database and so interleaved.  What a row is, is left out: it is the *)
(* number of the row in its upload, and the outcome of classifying it is   *)
(* any rule that was ever committed for its caller, which is all that      *)
(* RuleCache's bound on stale answers leaves open.  The saves of rules     *)
(* (RuleStore) appear as the categories they insert, move and delete.      *)
(* Operators marked Variant are nearby mistakes used by no action.         *)
(***************************************************************************)
EXTENDS Naturals, FiniteSets

CONSTANTS
    Companies, Cats,
    Null,        \* null in company_id or category_id
    AdminId,     \* 'ADMIN_ALL_COMPANIES', the companyId of an ADMIN's upload
    Reqs,        \* uploads
    Caller,      \* Caller[r]: the companyId r is classified for
    Rows,        \* Rows[r]: how many rows it has
    BatchSize,   \* BATCH_SIZE
    Workers,     \* runs of reclassifyUnclassifiedTransactions
    Target,      \* Target[w]: the company whose rules run w tries
    Limit,       \* its limit
    Rules0,      \* the rules at the start: {[company, category]}
    MaxChanges   \* bound on the changes of categories

Rule == [company : Companies, category : Cats]
Entity == Rule \cup {[company |-> Null, category |-> Null]}

ASSUME CallerAssumption ==
    /\ Caller \in [Reqs -> Companies \cup {AdminId}] /\ AdminId \notin Companies
    /\ Target \in [Workers -> Companies]
ASSUME NullAssumption == Null \notin Companies \cup Cats
ASSUME SizeAssumption ==
    Rows \in [Reqs -> Nat] /\ BatchSize \in Nat \ {0} /\ Limit \in Nat /\ MaxChanges \in Nat
ASSUME RulesAssumption ==
    Rules0 \subseteq Rule /\ \A p, q \in Rules0 : p.category = q.category => p = q

VARIABLES
    categories,  \* table categories: category_id -> company_id
    everRules,   \* the rules that were ever committed, any of which may be cached
    changes,     \* how often categories changed
    table,       \* table transactions: [req, row] -> the columns company_id, category_id
    stage,       \* whether an upload is running, done or failed
    from, next,  \* the first row of its batch, and the row it is at
    batch,       \* transactionEntities: row -> entity
    skipped,     \* the rows whose errors it has collected
    result,      \* the counts it adds up
    todo,        \* the rows a reclassification found and has not finished with
    chosen,      \* the row it is about to save: {} or {[id, rule]}
    phase,       \* its stage
    counted,     \* the statistics being taken: {} or {total}
    stats        \* the ones just reported: {} or {[total, unclassified]}

ruleVars == <<categories, everRules, changes>>
uploadVars == <<stage, from, next, batch, skipped, result>>
workerVars == <<todo, chosen, phase>>
statVars == <<counted, stats>>
vars == <<ruleVars, table, uploadVars, workerVars, statVars>>

Nothing == [x \in {} |-> Null]
Put(f, k, v) == [x \in DOMAIN f \cup {k} |-> IF x = k THEN v ELSE f[x]]
NoEntity == [company |-> Null, category |-> Null]
Zero == [total |-> 0, classified |-> 0, unclassified |-> 0, errors |-> 0]

Init ==
    /\ categories = [k \in {p.category : p \in Rules0} |->
                        (CHOOSE p \in Rules0 : p.category = k).company]
    /\ everRules = Rules0
    /\ changes = 0
    /\ table = Nothing
    /\ stage = [r \in Reqs |-> "running"]
    /\ from = [r \in Reqs |-> 1]
    /\ next = [r \in Reqs |-> 1]
    /\ batch = [r \in Reqs |-> Nothing]
    /\ skipped = [r \in Reqs |-> {}]
    /\ result = [r \in Reqs |-> Zero]
    /\ todo = [w \in Workers |-> {}]
    /\ chosen = [w \in Workers |-> {}]
    /\ phase = [w \in Workers |-> "new"]
    /\ counted = {}
    /\ stats = {}

Unmatched == {x \in DOMAIN table : table[x].company = Null}

-----------------------------------------------------------------------------
(***************************************************************************)
(* Rules, as other requests save them.  A category in use by a transaction *)
(* is kept by its foreign key.                                             *)
(***************************************************************************)
SaveRule(rule) ==
    /\ changes < MaxChanges
    /\ categories' = Put(categories, rule.category, rule.company)
    /\ everRules' = everRules \cup {rule}
    /\ changes' = changes + 1
    /\ UNCHANGED <<table, uploadVars, workerVars, statVars>>

DeleteCategory(k) ==
    /\ changes < MaxChanges
    /\ k \in DOMAIN categories
    /\ \A x \in DOMAIN table : table[x].category # k
    /\ categories' = [j \in DOMAIN categories \ {k} |-> categories[j]]
    /\ changes' = changes + 1
    /\ UNCHANGED <<everRules, table, uploadVars, workerVars, statVars>>

\* The foreign keys of a transaction hold.
Storable(e) ==
    /\ e.company \in Companies \cup {Null}
    /\ e.category \in DOMAIN categories \cup {Null}

-----------------------------------------------------------------------------
(***************************************************************************)
(* classifyAndSaveTransactions and processBatch.                           *)
(***************************************************************************)
LastOfBatch(r) == IF from[r] + BatchSize - 1 <= Rows[r] THEN from[r] + BatchSize - 1 ELSE Rows[r]

\* The rules whose match classifyTransaction may report; none of them when no rule
\* matches, or when loading the rules fails.
Matches(r) == {p \in everRules : Caller[r] = AdminId \/ p.company = Caller[r]}

\* Variant: an unclassified row is kept under the company that uploaded it.
EntityOfUploader(r, found) ==
    IF found = {} THEN [company |-> IF Caller[r] = AdminId THEN Null ELSE Caller[r], category |-> Null]
    ELSE CHOOSE p \in found : TRUE

\* The columns set for a row whose match is found, {} or {rule}: both, or neither.
EntityOf(r, found) ==
    IF found = {} THEN NoEntity
    ELSE LET rule == CHOOSE p \in found : TRUE
         IN  [company |-> IF Caller[r] = AdminId THEN rule.company ELSE Caller[r],
              category |-> rule.category]

\* What was in memory for uploads R is gone.
Forget(R) ==
    /\ next' = [r \in Reqs |-> IF r \in R THEN from[r] ELSE next[r]]
    /\ batch' = [r \in Reqs |-> IF r \in R THEN Nothing ELSE batch[r]]
    /\ result' = [r \in Reqs |-> IF r \in R THEN Zero ELSE result[r]]

AtRow(r) == stage[r] = "running" /\ next[r] <= LastOfBatch(r)

ClassifyRow(r) ==
    /\ AtRow(r)
    /\ \E found \in {{}} \cup {{p} : p \in Matches(r)} :
          batch' = [batch EXCEPT ![r] = Put(@, next[r], EntityOf(r, found))]
    /\ next' = [next EXCEPT ![r] = @ + 1]
    /\ UNCHANGED <<ruleVars, table, stage, from, skipped, result, workerVars, statVars>>

\* A row that cannot be decrypted is reported and left out.
SkipRow(r) ==
    /\ AtRow(r)
    /\ skipped' = [skipped EXCEPT ![r] = @ \cup {next[r]}]
    /\ next' = [next EXCEPT ![r] = @ + 1]
    /\ UNCHANGED <<ruleVars, table, stage, from, batch, result, workerVars, statVars>>

AtSave(r) == stage[r] = "running" /\ from[r] <= Rows[r] /\ next[r] > LastOfBatch(r)

\* The table with the entities of the batch.
TableWith(r) ==
    LET saved == {[req |-> r, row |-> i] : i \in DOMAIN batch[r]}
    IN  [x \in DOMAIN table \cup saved |-> IF x \in saved THEN batch[r][x.row] ELSE table[x]]

\* Variant: a row counts as processed whether or not it is saved.
MergedWhole(r) ==
    LET matched == {i \in DOMAIN batch[r] : batch[r][i] # NoEntity}
    IN  [total |-> result[r].total + (next[r] - from[r]),
         classified |-> result[r].classified + Cardinality(matched),
         unclassified |-> result[r].unclassified + Cardinality(DOMAIN batch[r] \ matched),
         errors |-> result[r].errors + Cardinality({i \in skipped[r] : i >= from[r]})]

\* result[r] with the counts of its batch added.
Merged(r) ==
    LET matched == {i \in DOMAIN batch[r] : batch[r][i] # NoEntity}
    IN  [total |-> result[r].total + Cardinality(DOMAIN batch[r]),
         classified |-> result[r].classified + Cardinality(matched),
         unclassified |-> result[r].unclassified + Cardinality(DOMAIN batch[r] \ matched),
         errors |-> result[r].errors + Cardinality({i \in skipped[r] : i >= from[r]})]

\* Variant: a batch with nothing to save is never left.
SaveBatchOfSome(r) ==
    /\ AtSave(r)
    /\ DOMAIN batch[r] # {}
    /\ \A i \in DOMAIN batch[r] : Storable(batch[r][i])
    /\ table' = TableWith(r)
    /\ result' = [result EXCEPT ![r] = Merged(r)]
    /\ from' = [from EXCEPT ![r] = next[r]]
    /\ batch' = [batch EXCEPT ![r] = Nothing]
    /\ UNCHANGED <<ruleVars, stage, next, skipped, workerVars, statVars>>

\* Variant: the entities of the batch are kept for the next one.
SaveBatchKept(r) ==
    /\ AtSave(r)
    /\ \A i \in DOMAIN batch[r] : Storable(batch[r][i])
    /\ table' = TableWith(r)
    /\ result' = [result EXCEPT ![r] = Merged(r)]
    /\ from' = [from EXCEPT ![r] = next[r]]
    /\ UNCHANGED <<ruleVars, stage, next, batch, skipped, workerVars, statVars>>

\* One transaction saves the entities of the batch, if there are any.
SaveBatch(r) ==
    /\ AtSave(r)
    /\ \A i \in DOMAIN batch[r] : Storable(batch[r][i])
    /\ table' = TableWith(r)
    /\ result' = [result EXCEPT ![r] = Merged(r)]
    /\ from' = [from EXCEPT ![r] = next[r]]
    /\ batch' = [batch EXCEPT ![r] = Nothing]
    /\ UNCHANGED <<ruleVars, stage, next, skipped, workerVars, statVars>>

\* Variant: the upload goes on with the next batch.
FailBatchGoOn(r) ==
    /\ AtSave(r)
    /\ DOMAIN batch[r] # {}
    /\ from' = [from EXCEPT ![r] = next[r]]
    /\ batch' = [batch EXCEPT ![r] = Nothing]
    /\ UNCHANGED <<ruleVars, table, stage, next, skipped, result, workerVars, statVars>>

\* The database rejects the batch, for a deleted category or for reasons of its own.
FailBatch(r) ==
    /\ AtSave(r)
    /\ DOMAIN batch[r] # {}
    /\ stage' = [stage EXCEPT ![r] = "failed"]
    /\ Forget({r})
    /\ UNCHANGED <<ruleVars, table, from, skipped, workerVars, statVars>>

Finish(r) ==
    /\ stage[r] = "running"
    /\ from[r] > Rows[r]
    /\ stage' = [stage EXCEPT ![r] = "done"]
    /\ UNCHANGED <<ruleVars, table, from, next, batch, skipped, result, workerVars, statVars>>

-----------------------------------------------------------------------------
(***************************************************************************)
(* reclassifyUnclassifiedTransactions.  Which rows the limit lets through  *)
(* depends on their dates, so any will do.  The counts it returns are left *)
(* out.                                                                    *)
(***************************************************************************)
FindUnclassified(w) ==
    /\ phase[w] = "new"
    /\ phase' = [phase EXCEPT ![w] = "running"]
    /\ \E S \in SUBSET Unmatched :
          /\ Cardinality(S) <= Limit
          /\ S # Unmatched => Cardinality(S) = Limit
          /\ todo' = [todo EXCEPT ![w] = S]
    /\ UNCHANGED <<ruleVars, table, uploadVars, chosen, statVars>>

Free(w) == phase[w] = "running" /\ chosen[w] = {}

Reclassify(w, x) ==
    /\ Free(w)
    /\ x \in todo[w]
    /\ \E p \in everRules :
          /\ p.company = Target[w]
          /\ chosen' = [chosen EXCEPT ![w] = {[id |-> x, rule |-> p]}]
    /\ UNCHANGED <<ruleVars, table, uploadVars, todo, phase, statVars>>

\* No rule matches, or the row cannot be decrypted.
PassOver(w, x) ==
    /\ Free(w)
    /\ x \in todo[w]
    /\ todo' = [todo EXCEPT ![w] = @ \ {x}]
    /\ UNCHANGED <<ruleVars, table, uploadVars, chosen, phase, statVars>>

\* The row is saved as found, whatever has become of it in the meantime.
SaveReclassified(w) ==
    \E c \in chosen[w] :
        /\ phase[w] = "running"
        /\ Storable(c.rule)
        /\ table' = [table EXCEPT ![c.id] = c.rule]
        /\ todo' = [todo EXCEPT ![w] = @ \ {c.id}]
        /\ chosen' = [chosen EXCEPT ![w] = {}]
        /\ UNCHANGED <<ruleVars, uploadVars, phase, statVars>>

SaveReclassifiedFails(w) ==
    \E c \in chosen[w] :
        /\ phase[w] = "running"
        /\ todo' = [todo EXCEPT ![w] = @ \ {c.id}]
        /\ chosen' = [chosen EXCEPT ![w] = {}]
        /\ UNCHANGED <<ruleVars, table, uploadVars, phase, statVars>>

EndReclassify(w) ==
    /\ phase[w] = "running"
    /\ todo[w] = {}
    /\ phase' = [phase EXCEPT ![w] = "done"]
    /\ UNCHANGED <<ruleVars, table, uploadVars, todo, chosen, statVars>>

-----------------------------------------------------------------------------
(***************************************************************************)
(* getClassificationStats without a company: two queries, the transactions *)
(* and then the unclassified ones, each a snapshot of its own.             *)
(***************************************************************************)
Total == Cardinality(DOMAIN table)
Unclassified == Cardinality(Unmatched)

CountTotal ==
    /\ counted = {}
    /\ counted' = {Total}
    /\ stats' = {}
    /\ UNCHANGED <<ruleVars, table, uploadVars, workerVars>>

\* Variant: the transactions are counted last.
ReportStatsTotalLast ==
    /\ counted # {}
    /\ stats' = {[total |-> Total, unclassified |-> u] : u \in counted}
    /\ counted' = {}
    /\ UNCHANGED <<ruleVars, table, uploadVars, workerVars>>

ReportStats ==
    /\ counted # {}
    /\ stats' = {[total |-> n, unclassified |-> Unclassified] : n \in counted}
    /\ counted' = {}
    /\ UNCHANGED <<ruleVars, table, uploadVars, workerVars>>

\* The process dies; what was saved stays.
Crash ==
    /\ stage' = [r \in Reqs |-> IF stage[r] = "running" THEN "failed" ELSE stage[r]]
    /\ phase' = [w \in Workers |-> IF phase[w] = "running" THEN "done" ELSE phase[w]]
    /\ Forget({r \in Reqs : stage[r] = "running"})
    /\ todo' = [w \in Workers |-> {}]
    /\ chosen' = [w \in Workers |-> {}]
    /\ counted' = {}
    /\ stats' = {}
    /\ UNCHANGED <<ruleVars, table, from, skipped>>

Upload(r) ==
    ClassifyRow(r) \/ SkipRow(r) \/ SaveBatch(r) \/ FailBatch(r) \/ Finish(r)

Next ==
    \/ \E rule \in Rule : SaveRule(rule)
    \/ \E k \in Cats : DeleteCategory(k)
    \/ \E r \in Reqs : Upload(r)
    \/ \E w \in Workers :
          \/ FindUnclassified(w) \/ SaveReclassified(w) \/ SaveReclassifiedFails(w) \/ EndReclassify(w)
          \/ \E x \in DOMAIN table : Reclassify(w, x) \/ PassOver(w, x)
    \/ CountTotal
    \/ ReportStats
    \/ Crash

\* Every awaited call of an upload settles, and the event loop resumes it.
Fairness == \A r \in Reqs : WF_vars(Upload(r))

Spec == Init /\ [][Next]_vars
FairSpec == Spec /\ Fairness

-----------------------------------------------------------------------------
TableId == {[req |-> r, row |-> i] : r \in Reqs, i \in Nat}
Results == [total : Nat, classified : Nat, unclassified : Nat, errors : Nat]

TypeOK ==
    /\ DOMAIN categories \subseteq Cats
    /\ \A k \in DOMAIN categories : categories[k] \in Companies
    /\ everRules \subseteq Rule
    /\ changes \in 0 .. MaxChanges
    /\ \A x \in DOMAIN table : x.req \in Reqs /\ x.row \in 1 .. Rows[x.req] /\ table[x] \in Entity
    /\ stage \in [Reqs -> {"running", "done", "failed"}]
    /\ from \in [Reqs -> Nat] /\ next \in [Reqs -> Nat]
    /\ \A r \in Reqs : batch[r] \in [DOMAIN batch[r] -> Entity]
    /\ \A r \in Reqs : DOMAIN batch[r] \subseteq from[r] .. next[r] - 1
    /\ \A r \in Reqs : skipped[r] \subseteq 1 .. Rows[r]
    /\ result \in [Reqs -> Results]
    /\ todo \in [Workers -> SUBSET DOMAIN table]
    /\ \A w \in Workers : \A c \in chosen[w] : c.id \in todo[w] /\ c.rule \in Rule
    /\ phase \in [Workers -> {"new", "running", "done"}]
    /\ counted \subseteq Nat
    /\ \A s \in stats : s.total \in Nat /\ s.unclassified \in Nat

\* However an upload ended, by an error in the middle or by the death of the process,
\* the table holds its rows up to the end of a batch, without exception but for those
\* it reported as errors.
SavedWholeBatches ==
    \A r \in Reqs :
        /\ {i \in 1 .. Rows[r] : [req |-> r, row |-> i] \in DOMAIN table} = (1 .. from[r] - 1) \ skipped[r]
        /\ from[r] - 1 = Rows[r] \/ (from[r] - 1) % BatchSize = 0

RowsOf(r, S) == {x \in S : x.req = r}

\* The counts in the answer of an upload add up to its file, and describe what it
\* saved: no row of it is left in the table uncounted, and a row counted as classified
\* still is, whatever was reclassified meanwhile.
ResultAccounts ==
    \A r \in Reqs : stage[r] = "done" =>
        /\ result[r].total = Cardinality(RowsOf(r, DOMAIN table))
        /\ result[r].total + result[r].errors = Rows[r]
        /\ result[r].classified + result[r].unclassified = result[r].total
        /\ result[r].unclassified >= Cardinality(RowsOf(r, Unmatched))

\* The company and the category of a transaction come from one rule, or are both
\* missing: through an ADMIN's upload, stale rules, categories that move between
\* companies, and reclassifications that race for the row.
AttributedTogether == \A x \in DOMAIN table : table[x] \in everRules \cup {NoEntity}

\* The statistics may miss classified transactions that uploads and reclassifications
\* add while they are taken, but they never claim one too many.
StatsNotOverstated ==
    [][ReportStats => \A s \in stats' : s.total <= s.unclassified + (Total - Unclassified)]_vars

\* An upload ends, even one with a batch of which nothing is to be saved.
UploadEnds == \A r \in Reqs : stage[r] = "running" ~> stage[r] \in {"done", "failed"}
=============================================================================
