# Commerce ERP: a TLA+ model of transaction classification

Commerce ERP is a NestJS application. A client uploads a CSV file of bank transactions together
with a JSON file of classification rules (`POST /accounting/process`); the server stores the rules,
classifies each row by them and saves the rows in MariaDB. This directory holds TLA+ modules that
model the parts of it where requests meet, the TLC configurations that check them, and proofs that
TLAPS checks. All paths below are relative to the repository.

## 1. Inventory

One Node.js process runs all requests. JavaScript never preempts, so requests interleave only where
code awaits: the database, the file system, bcrypt. The state they share is the database, reached
through a pool of ten connections (`src/app.module.ts:34-39`), and the rule cache, the only mutable
state in memory. `docker-compose.yml` restarts the process when it dies.

| Component | State | Operations | What makes it correct |
|---|---|---|---|
| Rule engine, cache (`src/rule/rule-engine.service.ts:401-498`) | `rulesCache`, `cacheExpiry` | `getCachedRules`, `getAllCompanyRules`, `invalidateRulesCache`, `clearAllCache` | a lookup gets one snapshot of bounded age; uploads become visible; every load is resumed |
| Rule engine, matching (`rule-engine.service.ts:26-280`) | none | `classifyTransaction` and its helpers | a row is classified exactly when a rule as written applies; the best priority wins; an ADMIN and an owner agree |
| Rule data (`src/rule/rule-data.service.ts`) | tables `companies`, `categories`, `classification_rules`, `rule_keywords` | `processRulesFile`, `saveRulesToDatabase`, `getRulesByCompany`, `getAllActiveRules` | a file is stored whole or not at all and replaces the earlier one; nothing uncommitted is seen; every save ends |
| Transaction classification (`src/accounting/services/transaction-classification.service.ts`) | table `transactions` | `classifyAndSaveTransactions`, `reclassifyUnclassifiedTransactions`, `getClassificationStats`, paged reads | whole batches survive a failure; counts add up; company and category of a row belong together |
| Accounting controller (`src/accounting/accounting.controller.ts`) | per request | `processTransactions`, `getTransactionRecords` | order of the stages, what stays behind when one of them fails |
| Transaction parser (`transaction-parser.service.ts`) | none | `parseTransactionFile`, `validateParseResult` | which rows are accepted, when a file is rejected |
| File upload and validation (`src/file/`) | table `file_upload_logs`, files on disk | `processFileUpload`, `getUploadStats` | each upload is logged at most once, and what the log says is so |
| Auth (`src/auth/`) | table `users`, tokens | `validateUser`, `login`, `JwtStrategy.validate`, guards | a token works exactly while it describes its user |
| Seeder (`src/database/`) | tables `users`, `companies` | `onModuleInit`, `AdminUserSeeder.run` | one administrator, in spite of crashes and concurrent starts |
| Encryption, logging, filters, configuration | none | | |

**How they interact.** `processTransactions` awaits two uploads in parallel, then `processRulesFile`,
then the parser, then `classifyAndSaveTransactions`, which awaits `classifyTransaction` row by row
and saves each hundred rows. `classifyTransaction` reads rules through the cache, which awaits
`getCachedRules`/`getAllActiveRules` on a miss. Saving rules does not tell the cache: the two
invalidation methods have no caller outside tests.

**Hard behaviours.** Loads of one cache entry overtake each other. Uploads commit between a lookup and
its answer. A save of rules reads through one connection and writes through another, and swallows
the errors of its deletion, including a deadlock that has ended its transaction. Foreign keys
without cascade block deletions. A batch may fail after earlier ones were saved. Two uploads of one
request settle in any order, one of them perhaps after the answer. A user changes between the read of
a row and its use. Two processes seed at once. The process may die at any await. `PROJECT.json` lists
these hazards, each at its line.

## 2. Modules

```
RuleHistory  <-- RuleServing            what a lookup promises
     ^                ^
     |                | INSTANCE (refinement)
  RuleCache ----------+                 <-- RuleCacheProofs
RuleStore        saves of rules against MariaDB         <-- RuleStoreProofs <-- RuleOrderProofs
     | INSTANCE (refinement)                                             <-- RuleBookProofs
  RuleBook       what saving a rules file promises
RuleMatch        from a rules file to a row's category  <-- RuleMatchProofs
Classification   uploads, reclassification, statistics  <-- ClassificationProofs

TransactionParser   FileValidation      pure operators
            ^         ^
          ProcessRequest                                <-- ProcessRequestProofs
                 | INSTANCE (refinement)
              Ledger                    what /accounting/process promises

Seeder  <-- Accounts                                    <-- AccountsProofs
```

An arrow `A <-- B` says that B extends A.

Each `MC...` module gives the constants of the module it is named after their values for TLC.
Operators marked *Variant* are plausible mistakes that no action uses. Each property has one in
`PROJECT.json` that breaks it.

**RuleHistory.** When each version of each company's rules was committed. A rule set is abstracted to
its version. `Snapshots(k, t)` is what one SELECT for cache key `k` can have returned at time `t`.

**RuleServing** (abstract). An answer is a snapshot less than `TTL` older than the beginning of its
lookup. There is no cache in it.

**RuleCache.** `rulesCache` and `cacheExpiry` are the two Maps. A lookup is `Hit` (no await) or `Miss`,
`RunQuery` or `FailQuery`, `Store`. A query record carries the `now` that the code reads before it
awaits, and `Store` uses it. `Invalidate` deletes a company's key and never the ADMIN's, as in the
code. `Restart` loses the Maps and what was awaited. `Upload` is the commit of
`saveRulesToDatabase`, taken as one step here; RuleStore takes it apart.

**RuleStore.** One action per statement that `saveRulesToDatabase` awaits. `pc` is the statement, `entry`
and `item` the place in the file, `found` the ids that `ruleRepository.find` returned. `newCompanies`,
`newOwner` and `newRules` are uncommitted writes and, being locked until the transaction ends, the locks. `Delete`
is the three deletions: a foreign key may stop the second or third, and what preceded stands.
They are one action because each locks rows that the same save holds on to anyway. `Deadlock`
takes the victim's transaction away (`inTxn`) and lets it go on, as the catch does; it is enabled in
whoever may wait for itself, through any number of others (`Deadlocked`). InnoDB is not
part of the repository: `Write`, `DropWrites`, `Holds`, `WaitsFor` and the like model what the code
sees of it. Waits for rows are those that occur (`WaitsFor`). Which gaps a deletion locks depends on what else
is in the indexes, so gap locks are bounded from above: with `GapLocks`, every insertion may have to wait for every
transaction that has come to its first deletion (`MayWaitFor`).

**RuleBook** (abstract). Statements, locks and uncommitted rows are gone. A save replaces the rules of its
companies in one step (`Replace`): all of its file is there, and what it leaves of other files was there before,
if perhaps without keywords. It may leave some, because that much the code does not promise (finding 2).
A save that has lost its transaction (`Lose`) adds its rules bit by bit (`Amend`) and then ends (`Close`).

**RuleMatch.** `StoredRule` is the row that `saveCategoryRules` writes for a category of a file, with its
`||` defaults. The operators from `CheckTransactionType` to `ClassifyTransaction` are the methods of
the engine. `QueryResults` are all orders in which the database may return rows of equal priority.
A text is the sequence of its characters, with one `Blank` for all white space and a lower case for each
character, because the engine compares keywords in two places. `CheckKeywordMatching` trims, looks for words and
then for parts (`IsKeywordMatch`); `GetMatchedKeywords` neither trims nor looks for words. `Trim` stands where the
DTOs, `saveCategoryRules`, `encryptPersonalData` and the engine trim. `AsWritten` is the
reference: a reading of the file's fields and of the row as uploaded (`Occurs`) that does not pass through rows.

**Classification.** `ClassifyRow`, `SkipRow`, `SaveBatch`, `FailBatch` and `Finish` are the loop of
`classifyAndSaveTransactions` and `processBatch`. `FindUnclassified` to `EndReclassify` are
`reclassifyUnclassifiedTransactions` (which has no caller yet), `CountTotal` and `ReportStats` the
two queries of `getClassificationStats` that its answer depends on. The outcome of classifying a row is any rule
that was ever committed for its caller. RuleCache says which of them are still possible, but
nothing here depends on that. Rules change through `SaveRule` and `DeleteCategory`, the effect of RuleStore on
`categories`.

**TransactionParser.** A file is the sequence of its lines. `RawRows` are the lines that `parseCsvContent`
keeps (a header is one only as the very first line), `ValidateLimits`, `ValidateBusinessLogic` and
`ParsesDate` what a row must pass, `ParsesFile` when a file is accepted. A cell is what `parseFloat`
finds in it, in thousandths, so that amounts with too many decimals exist.

**FileValidation.** What multer refuses, the checks of `FileValidationService` (`FileErrors`) and the
status that `throwAppropriateError` makes of them.

**ProcessRequest.** Requests with files. `Refuse` is multer, `AnswerAtOnce` and `StartUploads` the beginning
of the two handlers; `UploadSucceeds`, `UploadUnlogged` and `UploadRejected` the ends of `processFileUpload`;
`SaveRules`, `Parse`, `SaveBatch`, `Succeed` and their failures the rest of `processTransactions`. `up` is
per file, because the uploads of one request run in parallel, and one may still write its log entry
after the other has failed the request. Saving the rules is one step here (RuleStore takes it apart), and which
rule a row gets is left to Classification.

**Ledger** (abstract). Rules first and at most once, rows in whole batches, one answer, nothing after it.

**Seeder.** `FindUser`, `FindCompany`, `SaveCompany` and `SaveUser` are the statements of `AdminUserSeeder.run`;
`Start` is a start of the application (`onModuleInit`) or of the script, which seeds up to twice. An
insertion may fail because another process was faster; `EndRun` goes on all the same, as
`runSeeders` does. `AddCompany` and `ChangeUser` are what others do to the tables.

**Accounts.** A call reads its row (`ValidateUser`, `Present`) and uses it in a later step (`Login`,
`Validate`), between which the row may change or the process die. A token is the claims in it, with
`Undefined` for a missing company, which `JwtStrategy` compares with the row's `null`. Behind the
guards are `CreateUser`, `GetTransactionRecords` and `ProcessTransactions`. `seen` is a history variable: the
rows there were while a call was under way.

## 3. Runs

| Run | What it checks | Bounds and why they suffice |
|---|---|---|
| `RuleCacheAdmin` | `TypeOK`, `ServedWithinTTL`, `ImplementsServing` | two ADMIN requests on one key, two companies, so a torn snapshot would show. TTL is 2 ticks and the clock reaches 3: an entry expires while a load is out |
| `RuleCacheOwner` | `CacheWithinTTL`, `UploadVisibleAfterTTL`, `LookupAnswered` | two requests of one company; the clock reaches 4, so an entry and its successor both expire |
| `RuleCacheUpload` | violation of `UploadedRulesApplied` | see findings |
| `RuleStore` | `TypeOK`, `OnlySavedVisible`, `CategoryOfOwnCompany`, `CommitKeepsFile`, `AloneReplaces`, `ImplementsRuleBook`, `EverySaveEnds` | three saves; two name two companies in opposite orders (deadlock), the third names one company twice, first with two categories; one category is in use; a fourth connection is free; deadlocks by row locks and by gap locks (130 986 states) |
| `RuleStoreOverwrite`, `RuleStoreReported`, `RuleStorePool` | violations | see findings; gap locks are off, so each rests on row locks alone |
| `RuleMatch` | `TypeOK`, `ClassifiedIffRuleApplies`, `BestPriorityWins`, `OrderMattersOnlyInTies`, `AdminAgreesWithOwner`, `MatchIsExplained` | up to three of ten categories that differ in one or two fields; amounts below, on and above each bound; only rows that the parser accepts; texts of two letters, one of them in both cases, and blanks: keywords that are a word, part of one, or two words, with blanks around them or nothing else, descriptions that begin or end with a blank or are empty (139 314 states) |
| `Classification` | `TypeOK`, `SavedWholeBatches`, `StatsNotOverstated`, `UploadEnds` | an ADMIN's upload of two batches, the second short, and an owner's of one row; one change of the rules |
| `Reclassification` | `ResultAccounts`, `AttributedTogether` | two uploads and two reclassifications, for different companies, which may pick the same row |
| `ProcessRequest` | `TypeOK`, `LogTellsOutcome`, `FailureLeaves`, `PaymentsOnly`, `OnlyStrayHeaderCosts`, `ImplementsLedger`, `RequestsEnd` | one request to each endpoint; every file of up to two lines, or a header and two, out of fifteen kinds of line, and four lines out of four kinds; every fault a file may have, and two at once; the documented and the default list of extensions; three rows make a full batch of two and a short one (63 882 states) |
| `Accounts` | `TypeOK`, `AdminSeeded`, `OwnersHaveCompany`, `TokensEarned`, `ActsAreCurrent`, `SeedingEnds` | the application and the script, two clients; one crash, database error or change of a row; tables that are empty, hold the company only, an owner with or without a company, or the administrator (428 375 states) |

`MaxClock`, `MaxChanges`, `MaxRules` and `MaxTrouble` are the only bounds added to counters. One trouble is
enough for the properties of Accounts: each is violated, when the code is changed as its mutant says, by one
change of a row, one crash or none. Deadlock checking is off where requests end and nothing is left to
do; RuleMatch never stops and keeps it on.

**Fairness.** A query that was sent is answered or rejected, and the event loop resumes what was
awaited. That is `WF` on the steps of a lookup (RuleCache), of a save (RuleStore), of an upload
(Classification), on each upload and each stage of a request (ProcessRequest), and on a statement of the
seeder (Accounts). Login and the guards have no liveness property and need none. In RuleStore one step may be an error, and rightly so: a lock wait times out
after `innodb_lock_wait_timeout`. Waiting for a pooled connection does not time out, because mysql2
does not know the `acquireTimeout` that `src/app.module.ts:37` sets, so no error is enabled there.
Nothing is assumed about when clients send requests, when rules change or when the process dies.

### Findings

1. **Uploaded rules are not the ones applied** (`RuleCacheUpload`). Within five minutes of an earlier
   lookup, a request classifies its rows by the rules that its own upload has just replaced.
   `UploadVisibleAfterTTL` is what does hold.
2. **A failed deletion overwrites nothing** (`RuleStoreOverwrite`). `deleteExistingRulesSimple` swallows
   its errors with the comment that inserting overwrites; rules have generated ids, so old and new
   ones stay side by side. A rule that a concurrent save inserted is enough.
3. **A deadlock loses part of a file and success is reported** (`RuleStoreReported`). Two files that name the
   same companies in opposite orders are enough. Sorting the companies of a file before they are saved removes that
   cause, the rings of row locks (`OrderPreventsRowRings`), but not the loss: a ring that a gap lock is part of can
   still make a deletion its victim, and with `GapLocks` the model allows it for ordered files too. What would help
   for certain is not to swallow the error of a deletion (`rule-data.service.ts:206-210`), so that the save fails as a whole.
4. **Saves can exhaust the pool and wait for ever** (`RuleStorePool`). Each needs a second connection while
   it holds its first.

### Smaller observations

Met while modelling; the models behave this way, but no run is about them.

- `/files/upload` looks for `.txt` and `.json` only. A lone `.csv` is answered as a success without any upload
  (`AnswerAtOnce`), while `/accounting/process` wants `.csv`. Neither documented value of
  `ALLOWED_FILE_EXTENSIONS` (`csv,json` and `txt,json`) serves both endpoints.
- Errors of size and type in `/accounting/process` are answered 400 by its catch;
  `docs/API_DOCUMENTATION.md:182-183` lists 413 and 415. Only multer's own 413 gets through.
- What multer refuses leaves no entry in the upload log.
- A file that names a company twice keeps its first entry only because the keywords just saved block the
  deletion that the second entry attempts (proof of `CommitComplete`).
- The branch for an owner without a company (`accounting.controller.ts:198-200`) cannot be reached: the token says
  `undefined` and the row `null`, and `JwtStrategy` compares strictly (`OwnersHaveCompany`).
- A seeder that meets an error of the database leaves the application running without an administrator until the
  next start; `AdminSeeded` is for starts without such trouble.
- A blank line before the header makes the header a faulty row (`isFirstRow` is cleared by the blank line,
  `transaction-parser.service.ts:122-134`), which may have the file rejected, although
  `transaction-parser.service.spec.ts:153` expects blank lines to be skipped; its file has them behind the header only.
  `OnlyStrayHeaderCosts` says what holds: a header that is not the very first line costs exactly one error.
- `status=unclassified` ignores the company asked for: unclassified rows have none.

## 4. Proofs

`RuleCacheProofs` proves, for any companies, requests, `TTL > 0` and clock bound:

- `TypeCorrect`: `Spec => []TypeOK`, by itself inductive.
- `InvCorrect`: the inductive invariant `Inv`. The bounds on staleness are not inductive, for two
  reasons. A stored entry is as good as the awaited result it came from, so `Inv` says of every
  result in `replies` that it was a snapshot at some moment since its lookup began (`RepliesFresh`).
  And a snapshot of the past must remain one when more is committed (`SnapshotsStable`), which
  needs versions committed in the order of time and no time in the future.
- `BoundedStaleness` (`ServedWithinTTL`), `BoundedEntries` (`CacheWithinTTL`) and `UploadsBecomeVisible`
  (`UploadVisibleAfterTTL`) from `Inv`.
- `Refinement`: `Spec => ImplementsServing`. `Hit` and `Store` map to `Serve`, `Upload` and the clock to
  themselves, everything else to a stutter.

Assumed of the constants: `AllKey` is no company's id (the code does not prevent a company called
`all_companies`), `Caller` names keys, `TTL > 0`.

`RuleStoreProofs` proves five properties for any files, saves and pool, from a chain of invariants, which the two
modules after it build on:

- `TypeCorrect` and `OnlySaved` (`OnlySavedVisible`) from `IInv`: a rule in the tables that is not
  committed is among somebody's pending writes, and what a lookup `found` was there.
- `CommitComplete` (`CommitKeepsFile`). The property speaks of the commit only. `Kept` extends it to every
  step before: all places of the file behind the one being saved are held by the save's own transaction.
  The hard step is a later entry of the same company: its lookup, on another connection, does not
  see the save's own uncommitted rules, and their keywords then keep the deletion from removing them. Assumed: within
  a file a category id belongs to one company.
- `CategoriesAtHome` (`CategoryOfOwnCompany`). `HomeInv` adds that no two transactions write rules of one
  company, and that whoever deletes a category has already written the company's rules. Assumed: all files and
  the tables at the start name a category under one company (`HomeOf(h)`); without it the property is false.
- `AloneComplete` (`AloneReplaces`). `AloneInv`: what a save that nobody overlaps has passed is cleared of others'
  rules, and what it has not begun is as it found it.

`RuleBookProofs` proves `SavesAreAtomic` (`ImplementsRuleBook`), with no assumption on the files. `Locking` says why the
uncommitted rules of a save still fit the tables when it commits: nobody else writes rules of a company it has written
rules of (`Exclusive`), so what it has copied of them is still there (`Fits`); and a save without its transaction has
nothing uncommitted (`NoneOpen`). With `Kept`, `Commit` maps to `Replace` or `Close`, `Deadlock` to `Lose`, the statements of a
save without a transaction to `Amend`, and everything else to a stutter.

`RuleOrderProofs` says how far a common order of the files helps with finding 3. Assumed: files name companies in one
order, whatever it is, no company twice (`InOrder(rank)`), and each category under one company (`HomeOf(h)`). `Reached`
says that a save has locked rows of companies it came to, and no others; one without its transaction has locked none.
So whoever waits for a row, waits for a save at a company of higher rank, or further on with the same company
(`WaitsUpward`), and the saves further on than `s` wait only for each other (`NoRing`). `OrderPreventsRowRings` follows, for
any number of saves: no ring of row locks closes around a save at its deletions. It says nothing of rings with a
gap lock among them, which the order does not prevent, so it does not make finding 3 go away.

`RuleMatchProofs` proves the six properties of RuleMatch for any files, rows and orders of the database. The
classification comes from rows of one query, and the rule chosen is a least element of those that apply;
two such elements from two queries tie, so nothing but a tie is left to the order of the database (`TiesAlone`).
`MatchExplained` needs that trimming and lowering the case commute (`TrimLowerCase`), and that a text without outer
blanks occurs in another one exactly if it occurs in it trimmed (`TrimKeepsParts`); then both comparisons find what
`Occurs` in the row (`ComparedAlike`), for texts of any length.
`ClassificationCorrect`, `PriorityRespected` and `TiesAlone` assume that no file has `max: 0`.

`ClassificationProofs` proves `Attribution` (`AttributedTogether`): its invariant adds that what is in a batch, or
chosen by a reclassification, comes from one rule; without it a save could bring anything into the table.
A second invariant gives `TypeCorrect`, `WholeBatchesSaved`, `ResultsAccount` and `StatsHold`: `Placed` says where
in its file an upload is, and that the table has exactly the rows before it that did not throw;
`Counted` that its counters agree with them; `StatsOK` that a total counted earlier is never more than the
table has now. All for any uploads, batch size, reclassifications and changes of rules.

`ProcessRequestProofs` proves `TypeCorrect`, `LogBelieved`, `FailureBounded`, `PaymentsSound`, `LayoutSound`
(`OnlyStrayHeaderCosts`) and `Refinement` (`ImplementsLedger`) for any requests, files and batch size. Its invariant ties the stage of a request to its
uploads and its log (`StageOK`, `LogOK`), what is stored to the stage and the files (`StoredOK`), and
says that `posted` is at the end of a batch (`Whole`); `FailureLeaves` alone forgets which stage was passed.
`LayoutSound` needs no induction over files: the place of a line among those kept is its rank, and ranks are a bijection
(`RankBijection`), so the parser finds the same rows in a file and in what is left of it, but for a header that is
then in front.

`AccountsProofs` proves `TypeCorrect`, `TokensSound`, `ActsSound`, `OwnersSound` and `SeededSound` for any processes,
clients and troubles. The action properties need that the row a call has read is among those it has `seen`
(`ClientsOK`). `AdminSeeded` is not inductive, because a run may fail where another has just inserted the company.
`SeedInv` adds that, as long as nothing went wrong: if some run has ended, or is to save a company that is there by now
(`Waits`), and there is no administrator, then some process is about to save one.

The assumptions on constants are the named `ASSUME`s of the modules, which TLC evaluates in every run.

Model-checked only: liveness (`LookupAnswered`, `EverySaveEnds`, `UploadEnds`, `RequestsEnd`, `SeedingEnds`), which is
out of the prover's reach. Of the other properties of passing runs, each is stated by a theorem.

## 5. Not modelled, and the limits of what is

- Reads that change nothing: the paged queries, `getUploadLogs`, `getUploadStats`, `profile`, `verify`, the list of
  users. `classifyTransactionsBatch`, `generateClassificationStats`, `CompanyGuard` and `AuthUtilsService` have no caller.
- Encryption, logging, filters and configuration have no state. A row whose encryption fails in the
  parser is left out; one whose decryption fails is the throwing row of Classification.
- Accounts: tokens cannot be forged, and when they expire is left out. bcrypt is a comparison.
- RuleStore: the files of one run give no category to two companies (the code would move it). Row locks are
  those on rows that a save has written. Gap locks are bounded from above: a deadlock that `GapLocks` allows need not
  be one that InnoDB can reach. `OrderPreventsRowRings` speaks of row locks alone. Rings of more than two saves
  by row locks do not occur in the run, and are covered by the proofs.
- RuleMatch: `max: 0` passes validation but is stored as "no limit" (`rule-data.service.ts:233`), so
  `ClassifiedIffRuleApplies` would fail on such a category; the file rules of the run have none. Case is mapped
  character by character, and all white space is one character.
- Classification: which rows a limit lets through depends on dates, so any selection is allowed. A row may keep a
  category that has moved to another company, and a reclassification may overwrite another one's result. Neither
  is excluded by `AttributedTogether`, nor a negative number of classified rows by `StatsNotOverstated`.
- A client that repeats a failed request, and an acknowledgement of a commit that gets lost, are not modelled;
  `FailureLeaves` says what there is to be duplicated.
- ProcessRequest: the content of a file does not change while it is processed. It may become unreadable.
- Company ids are opaque: two of them never differ only in a way that MariaDB's collation ignores.

## 6. Plan

Done, in this order: RuleCache with RuleServing; RuleStore; RuleMatch; Classification; ProcessRequest with Ledger,
the parser and the validation of files; Seeder and Accounts; and the proofs about each of them.

What would come next:

1. A composition of RuleStore and RuleCache, in which a lookup reads the tables of RuleStore and not a version.
   It would show which mixtures of two files (findings 2 and 3) reach the cache.
2. `getUploadStats` beside uploads: its counts are taken by concurrent queries.
3. A property about the statuses of answers, once code and documentation agree on them.
