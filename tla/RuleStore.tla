------------------------------ MODULE RuleStore ------------------------------
(***************************************************************************)
(* RuleDataService.saveRulesToDatabase, run by concurrent requests against *)
(* MariaDB.  Each save is a transaction on a pooled connection of its own, *)
(* one action per statement it awaits, except that the rules to delete are *)
(* looked up through the repository, on another connection, and so among   *)
(* the committed rows only.  InnoDB (external) is modelled by what the     *)
(* code can see of it: uncommitted writes and the row locks they hold, the *)
(* gap locks of deletions, foreign keys without cascade, lock waits that   *)
(* time out, and deadlocks, whose victim loses its whole transaction.      *)
(* Operators marked Variant are nearby mistakes used by no action.         *)
(***************************************************************************)
EXTENDS Naturals, Sequences, FiniteSets

CONSTANTS
    Companies, Cats,  \* ids a rules file may name
    Savers,           \* the requests that save a rules file
    File,             \* File[s]: its entries, [company, cats], in order
    Owner0,           \* Owner0[k]: the company category k belongs to at the start
    Used,             \* categories that classified transactions refer to
    NoOwner, Seed,    \* no company; the author of the rules there at the start
    PoolSize,         \* connectionLimit
    GapLocks          \* TRUE: deletions also lock gaps, as in REPEATABLE READ they may

ASSUME OwnerAssumption == NoOwner \notin Companies /\ Owner0 \in [Cats -> Companies \cup {NoOwner}]
ASSUME FileAssumption ==
    \A s \in Savers : File[s] \in Seq([company : Companies, cats : Seq(Cats) \ {<<>>}]) \ {<<>>}
ASSUME PoolAssumption == PoolSize \in Nat /\ Seed \notin Savers /\ GapLocks \in BOOLEAN

VARIABLES
    companies,   \* table companies
    owner,       \* table categories: its company_id column, NoOwner where there is no row
    rules,       \* tables classification_rules and rule_keywords, by company
    pc,          \* the statement a save executes next
    entry, item, \* the company and the category of its file it is at
    found,       \* the rule ids it is about to delete the keywords of
    inTxn,       \* FALSE once a deadlock took its transaction away
    newCompanies, newOwner, newRules,  \* its uncommitted writes, and the rows it has locked
    disturbed    \* history: another save overlapped it, or its deletion met an error

tables == <<companies, owner, rules>>
writes == <<newCompanies, newOwner, newRules>>
place == <<pc, entry, item, found>>
vars == <<tables, place, inTxn, writes, disturbed>>

\* A rule row: who saved it, from which entry of the file, its category, and
\* whether rule_keywords has rows for it.
Rule == [by : Savers \cup {Seed}, entry : Nat, cat : Cats, kw : BOOLEAN]
Id(r) == <<r.by, r.entry, r.cat>>

Nothing == [x \in {} |-> 0]
At(k, v) == [x \in {k} |-> v]
\* What f says, and where it says nothing, what g does.
Over(f, g) == [x \in DOMAIN f \cup DOMAIN g |-> IF x \in DOMAIN f THEN f[x] ELSE g[x]]

Active(s) == pc[s] \notin {"idle", "saved", "rejected"}
Company(s) == File[s][entry[s]].company
Cat(s) == File[s][entry[s]].cats[item[s]]
NewRule(s) == [by |-> s, entry |-> entry[s], cat |-> Cat(s), kw |-> FALSE]
FileCompanies(s) == {File[s][i].company : i \in 1 .. Len(File[s])}

Init ==
    /\ owner = Owner0
    /\ companies = {Owner0[k] : k \in Cats} \ {NoOwner}
    /\ rules = [c \in Companies |->
                   {[by |-> Seed, entry |-> 0, cat |-> k, kw |-> TRUE] : k \in {x \in Cats : Owner0[x] = c}}]
    /\ pc = [s \in Savers |-> "idle"]
    /\ entry = [s \in Savers |-> 1]
    /\ item = [s \in Savers |-> 1]
    /\ found = [s \in Savers |-> {}]
    /\ inTxn = [s \in Savers |-> TRUE]
    /\ newCompanies = [s \in Savers |-> {}]
    /\ newOwner = [s \in Savers |-> Nothing]
    /\ newRules = [s \in Savers |-> Nothing]
    /\ disturbed = [s \in Savers |-> FALSE]

-----------------------------------------------------------------------------
(***************************************************************************)
(* InnoDB, as the statements of one save meet it.                          *)
(***************************************************************************)
CompaniesSeen(s) == companies \cup newCompanies[s]
OwnerSeen(s) == Over(newOwner[s], owner)
RulesSeen(s) == Over(newRules[s], rules)

\* Variant: the repositories are used instead of the query runner's manager.
WriteOutside(s, C, O, R) ==
    /\ companies' = companies \cup C
    /\ owner' = Over(O, owner)
    /\ rules' = Over(R, rules)
    /\ UNCHANGED writes

\* Save s inserts companies C and writes the columns O and the rules R.  Without a
\* transaction every statement commits by itself.
Write(s, C, O, R) ==
    IF inTxn[s]
    THEN /\ newCompanies' = [newCompanies EXCEPT ![s] = @ \cup C]
         /\ newOwner' = [newOwner EXCEPT ![s] = Over(O, @)]
         /\ newRules' = [newRules EXCEPT ![s] = Over(R, @)]
         /\ UNCHANGED tables
    ELSE /\ companies' = companies \cup C
         /\ owner' = Over(O, owner)
         /\ rules' = Over(R, rules)
         /\ UNCHANGED writes

DropWrites(S) ==
    /\ newCompanies' = [s \in Savers |-> IF s \in S THEN {} ELSE newCompanies[s]]
    /\ newOwner' = [s \in Savers |-> IF s \in S THEN Nothing ELSE newOwner[s]]
    /\ newRules' = [s \in Savers |-> IF s \in S THEN Nothing ELSE newRules[s]]

\* Locks are held on what was written, until the transaction ends.
Holds(s) ==
    ({"company"} \X newCompanies[s])
        \cup ({"category"} \X DOMAIN newOwner[s])
        \cup ({"rules"} \X DOMAIN newRules[s])

OwnedCats(s) == {k \in Cats : OwnerSeen(s)[k] = Company(s)}

\* The rows the next statement of s writes.
Needs(s) ==
    CASE pc[s] = "company" -> {<<"company", Company(s)>>} \ ({"company"} \X CompaniesSeen(s))
      [] pc[s] = "delete" -> {<<"rules", Company(s)>>} \cup ({"category"} \X OwnedCats(s))
      [] pc[s] = "category" -> {<<"category", Cat(s)>>}
      [] pc[s] = "rule" -> {<<"rules", Company(s)>>, <<"category", Cat(s)>>}
      [] pc[s] = "keywords" -> {<<"rules", Company(s)>>}
      [] OTHER -> {}

WaitsFor(s, t) == s # t /\ Needs(s) \cap Holds(t) # {}
Blocked(s) == \E t \in Savers : WaitsFor(s, t)

\* Which gaps a deletion locks depends on the neighbours of its rows in the indexes: a
\* transaction that has come to its first deletion may have locked any, and whoever inserts
\* may have to wait for it.
HoldsGaps(s) ==
    /\ Active(s) /\ inTxn[s]
    /\ pc[s] \in {"company", "find"} => entry[s] > 1
Inserts(s) == pc[s] \in {"category", "rule", "keywords"}
MayWaitFor(s, t) == WaitsFor(s, t) \/ (GapLocks /\ s # t /\ Inserts(s) /\ HoldsGaps(t))

\* s may wait, directly or through others, for itself.
Deadlocked(s) ==
    \A S \in SUBSET Savers :
        (\A t \in S \cup {s}, u \in Savers : MayWaitFor(t, u) => u \in S) => s \in S

\* The connections in use: each open save keeps one until it ends.
FreeConnections == PoolSize - Cardinality({s \in Savers : Active(s)})

-----------------------------------------------------------------------------
Goto(s, label) == pc' = [pc EXCEPT ![s] = label]

\* createQueryRunner, connect, startTransaction.
Begin(s) ==
    /\ pc[s] = "idle"
    /\ FreeConnections > 0
    /\ Goto(s, "company")
    /\ LET others == {t \in Savers : Active(t)}
       IN  disturbed' = [t \in Savers |-> disturbed[t] \/ (others # {} /\ t \in others \cup {s})]
    /\ UNCHANGED <<tables, entry, item, found, inTxn, writes>>

\* Variant: the catch commits what there is instead of rolling it back.
RejectCommits(s) ==
    /\ pc[s] \in {"company", "category", "rule", "keywords"}
    /\ Goto(s, "rejected")
    /\ companies' = companies \cup newCompanies[s]
    /\ owner' = Over(newOwner[s], owner)
    /\ rules' = Over(newRules[s], rules)
    /\ DropWrites({s})
    /\ UNCHANGED <<entry, item, found, inTxn, disturbed>>

\* Any statement outside the deletion may be rejected (a constraint, a lost
\* connection, a lock wait or a deadlock): the save rolls back and reports failure.
Reject(s) ==
    /\ pc[s] \in {"company", "category", "rule", "keywords"}
    /\ Goto(s, "rejected")
    /\ DropWrites({s})
    /\ UNCHANGED <<tables, entry, item, found, inTxn, disturbed>>

\* findOne, and the insert of a company that is not there.
SaveCompany(s) ==
    /\ pc[s] = "company"
    /\ ~Blocked(s)
    /\ Write(s, {Company(s)} \ CompaniesSeen(s), Nothing, Nothing)
    /\ Goto(s, "find")
    /\ UNCHANGED <<entry, item, found, inTxn, disturbed>>

\* The repository's find takes a second connection, which sees committed rows.
Find(s) ==
    /\ pc[s] = "find"
    /\ FreeConnections > 0
    /\ found' = [found EXCEPT ![s] = {Id(r) : r \in rules[Company(s)]}]
    /\ Goto(s, "delete")
    /\ UNCHANGED <<tables, entry, item, inTxn, writes, disturbed>>

\* Variant: the rules are deleted before their keywords.
DeleteRulesFirst(s) ==
    LET c == Company(s)
        rulesGone == \A r \in RulesSeen(s)[c] : ~r.kw
    IN  /\ pc[s] = "delete"
        /\ ~Blocked(s)
        /\ Write(s, {}, Nothing, At(c, IF rulesGone THEN {} ELSE RulesSeen(s)[c]))
        /\ Goto(s, "category")
        /\ UNCHANGED <<entry, item, found, inTxn, disturbed>>

\* The three deletions: the keywords of the rules found, the rules of the company,
\* its categories.  A foreign key stops the second while a rule not found keeps its
\* keywords and the third while a category is in use; the catch swallows the error
\* and the statements before it stand.
Delete(s) ==
    LET c == Company(s)
        stripped == {[r EXCEPT !.kw = @ /\ Id(r) \notin found[s]] : r \in RulesSeen(s)[c]}
        rulesGone == \A r \in stripped : ~r.kw
        unused == /\ OwnedCats(s) \cap Used = {}
                  /\ \A d \in Companies \ {c} : \A r \in RulesSeen(s)[d] : r.cat \notin OwnedCats(s)
    IN  /\ pc[s] = "delete"
        /\ ~Blocked(s)
        /\ Write(s, {},
                 IF rulesGone /\ unused THEN [k \in OwnedCats(s) |-> NoOwner] ELSE Nothing,
                 At(c, IF rulesGone THEN {} ELSE stripped))
        /\ Goto(s, "category")
        /\ UNCHANGED <<entry, item, found, inTxn, disturbed>>

\* An error of the lookup, or a lock wait that times out, skips the deletion.
DeleteFails(s) ==
    /\ (pc[s] = "find" /\ FreeConnections > 0) \/ (pc[s] = "delete" /\ Blocked(s))
    /\ Goto(s, "category")
    /\ disturbed' = [disturbed EXCEPT ![s] = TRUE]
    /\ UNCHANGED <<tables, entry, item, found, inTxn, writes>>

\* Saves wait for each other in a ring, by row locks or some of them by gap locks, and s
\* is the victim at one of its deletions: its transaction is rolled back and over, and the catch lets it go on, one statement at a time.
Deadlock(s) ==
    /\ pc[s] = "delete"
    /\ Deadlocked(s)
    /\ inTxn[s]
    /\ inTxn' = [inTxn EXCEPT ![s] = FALSE]
    /\ DropWrites({s})
    /\ Goto(s, "category")
    /\ disturbed' = [disturbed EXCEPT ![s] = TRUE]
    /\ UNCHANGED <<tables, entry, item, found>>

\* Variant: every category is given to the first company of the file.
SaveCategoryFirst(s) ==
    /\ pc[s] = "category"
    /\ ~Blocked(s)
    /\ Company(s) \in CompaniesSeen(s)
    /\ Write(s, {}, At(Cat(s), File[s][1].company), Nothing)
    /\ Goto(s, "rule")
    /\ UNCHANGED <<entry, item, found, inTxn, disturbed>>

\* save on the primary key category_id alone: an insert, or an update of the row
\* whatever company it belongs to.
SaveCategory(s) ==
    /\ pc[s] = "category"
    /\ ~Blocked(s)
    /\ Company(s) \in CompaniesSeen(s)
    /\ Write(s, {}, At(Cat(s), Company(s)), Nothing)
    /\ Goto(s, "rule")
    /\ UNCHANGED <<entry, item, found, inTxn, disturbed>>

SaveRule(s) ==
    /\ pc[s] = "rule"
    /\ ~Blocked(s)
    /\ OwnerSeen(s)[Cat(s)] # NoOwner
    /\ Write(s, {}, Nothing, At(Company(s), RulesSeen(s)[Company(s)] \cup {NewRule(s)}))
    /\ Goto(s, "keywords")
    /\ UNCHANGED <<entry, item, found, inTxn, disturbed>>

\* Variant: the first company ends the file.
AdvanceFirst(s) ==
    IF item[s] < Len(File[s][entry[s]].cats)
    THEN /\ Goto(s, "category")
         /\ item' = [item EXCEPT ![s] = @ + 1]
         /\ UNCHANGED entry
    ELSE /\ Goto(s, "commit")
         /\ UNCHANGED <<entry, item>>

\* Variant: the last category of an entry is done over and over.
AdvanceNever(s) ==
    /\ Goto(s, "category")
    /\ item' = [item EXCEPT ![s] = IF @ < Len(File[s][entry[s]].cats) THEN @ + 1 ELSE @]
    /\ UNCHANGED entry

\* Variant: off by one at the last category.
AdvancePast(s) ==
    IF item[s] <= Len(File[s][entry[s]].cats)
    THEN /\ Goto(s, "category")
         /\ item' = [item EXCEPT ![s] = @ + 1]
         /\ UNCHANGED entry
    ELSE /\ Goto(s, "commit")
         /\ UNCHANGED <<entry, item>>

\* The place after the last keyword of a category.
Advance(s) ==
    IF item[s] < Len(File[s][entry[s]].cats)
    THEN /\ Goto(s, "category")
         /\ item' = [item EXCEPT ![s] = @ + 1]
         /\ UNCHANGED entry
    ELSE /\ item' = [item EXCEPT ![s] = 1]
         /\ IF entry[s] < Len(File[s])
            THEN Goto(s, "company") /\ entry' = [entry EXCEPT ![s] = @ + 1]
            ELSE Goto(s, "commit") /\ UNCHANGED entry

SaveKeywords(s) ==
    /\ pc[s] = "keywords"
    /\ ~Blocked(s)
    /\ NewRule(s) \in RulesSeen(s)[Company(s)]
    /\ Write(s, {}, Nothing, At(Company(s),
          (RulesSeen(s)[Company(s)] \ {NewRule(s)}) \cup {[NewRule(s) EXCEPT !.kw = TRUE]}))
    /\ Advance(s)
    /\ UNCHANGED <<found, inTxn, disturbed>>

\* commitTransaction and release.
Commit(s) ==
    /\ pc[s] = "commit"
    /\ companies' = companies \cup newCompanies[s]
    /\ owner' = Over(newOwner[s], owner)
    /\ rules' = Over(newRules[s], rules)
    /\ DropWrites({s})
    /\ Goto(s, "saved")
    /\ UNCHANGED <<entry, item, found, inTxn, disturbed>>

\* The process dies: the database rolls every open transaction back.
Crash ==
    /\ \E s \in Savers : Active(s)
    /\ pc' = [s \in Savers |-> IF Active(s) THEN "rejected" ELSE pc[s]]
    /\ DropWrites(Savers)
    /\ UNCHANGED <<tables, entry, item, found, inTxn, disturbed>>

Statement(s) ==
    \/ SaveCompany(s) \/ Find(s) \/ Delete(s) \/ DeleteFails(s) \/ Deadlock(s)
    \/ SaveCategory(s) \/ SaveRule(s) \/ SaveKeywords(s) \/ Commit(s) \/ Reject(s)

Next ==
    \/ \E s \in Savers : Begin(s) \/ Statement(s)
    \/ Crash

\* Every statement that can run is run, and an error is raised only where a lock wait
\* or a constraint would otherwise hold the save for ever.
Fairness == \A s \in Savers : WF_vars(Statement(s))

Spec == Init /\ [][Next]_vars
FairSpec == Spec /\ Fairness

-----------------------------------------------------------------------------
IsWrite(f, K, V) == DOMAIN f \subseteq K /\ \A k \in DOMAIN f : f[k] \in V

TypeOK ==
    /\ companies \subseteq Companies
    /\ owner \in [Cats -> Companies \cup {NoOwner}]
    /\ rules \in [Companies -> SUBSET Rule]
    /\ pc \in [Savers -> {"idle", "company", "find", "delete", "category", "rule", "keywords",
                           "commit", "saved", "rejected"}]
    /\ entry \in [Savers -> Nat] /\ \A s \in Savers : entry[s] \in 1 .. Len(File[s])
    /\ item \in [Savers -> Nat] /\ \A s \in Savers : item[s] \in 1 .. Len(File[s][entry[s]].cats)
    /\ found \in [Savers -> SUBSET ((Savers \cup {Seed}) \X Nat \X Cats)]
    /\ inTxn \in [Savers -> BOOLEAN] /\ disturbed \in [Savers -> BOOLEAN]
    /\ newCompanies \in [Savers -> SUBSET Companies]
    /\ DOMAIN newOwner = Savers
    /\ \A s \in Savers : IsWrite(newOwner[s], Cats, Companies \cup {NoOwner})
    /\ DOMAIN newRules = Savers
    /\ \A s \in Savers : IsWrite(newRules[s], Companies, SUBSET Rule)

\* The tables hold every rule of s's file with its keywords, in categories of the
\* company it names.
FileStored(s) ==
    \A i \in 1 .. Len(File[s]) : \A j \in 1 .. Len(File[s][i].cats) :
        /\ [by |-> s, entry |-> i, cat |-> File[s][i].cats[j], kw |-> TRUE]
              \in rules[File[s][i].company]
        /\ owner[File[s][i].cats[j]] = File[s][i].company

\* Other saves of the same companies notwithstanding, a commit leaves the whole file
\* in the tables as long as no deadlock took the transaction from under the save.
CommitKeepsFile == [][\A s \in Savers : Commit(s) /\ inTxn[s] => FileStored(s)']_vars

\* The message logged after the commit, "Successfully saved rules for n companies".
ReportedSavedIsStored == [][\A s \in Savers : Commit(s) => FileStored(s)']_vars

\* Nothing of a save that is open, failed or died can be seen in the tables, unless
\* it lost its transaction.
OnlySavedVisible ==
    \A c \in Companies : \A r \in rules[c] :
        r.by = Seed \/ pc[r.by] = "saved" \/ ~inTxn[r.by]

\* The rules that s's file has for company c.
RulesOf(s, c) ==
    UNION {{[by |-> s, entry |-> i, cat |-> File[s][i].cats[j], kw |-> TRUE] :
               j \in 1 .. Len(File[s][i].cats)} :
           i \in {m \in 1 .. Len(File[s]) : File[s][m].company = c}}

B == INSTANCE RuleBook WITH
        Contents <- [s \in Savers |-> [c \in Companies |-> RulesOf(s, c)]],
        book <- rules,
        saved <- {s \in Savers : pc[s] = "saved"},
        lost <- {s \in Savers : ~inTxn[s]}

\* However the statements of overlapping saves fall between each other, a save with its
\* transaction replaces rules in one step, wholly, in the companies of its file alone,
\* and what it leaves of other files was there when it committed.
ImplementsRuleBook == B!Spec

\* A save that no other one overlaps, and whose deletion meets no error, replaces the
\* rules of its companies: none of the earlier ones survives its commit, whether or
\* not their categories are in use.
AloneReplaces ==
    [][\A s \in Savers : Commit(s) /\ ~disturbed[s] =>
          \A c \in FileCompanies(s) : \A r \in rules'[c] : r.by = s]_vars

\* When no two companies' files share a category id, a rule's category exists and
\* belongs to the rule's company.
CategoryOfOwnCompany == \A c \in Companies : \A r \in rules[c] : owner[r.cat] = c

\* The comment in deleteExistingRulesSimple, that inserting overwrites what a failed
\* deletion left: the rules of a company come from one file.
OneFilePerCompany == \A c \in Companies : \A r, q \in rules[c] : r.by = q.by

\* No save waits for ever, for a lock or for a connection.
EverySaveEnds == \A s \in Savers : Active(s) ~> ~Active(s)
=============================================================================
