------------------------------ MODULE RuleMatch ------------------------------
(***************************************************************************)
(* How a transaction gets its category: rules as a rules file writes them, *)
(* the rows saveCategoryRules makes of them, and RuleEngineService's       *)
(* choice among the rows a query returned.  A text is the sequence of its  *)
(* characters, because the engine compares keywords with descriptions in   *)
(* two places that treat blanks differently.  Operators marked Variant are *)
(* nearby mistakes used by no definition.                                  *)
(***************************************************************************)
EXTENDS Integers, SequencesExt

CONSTANTS
    Companies,
    Chars, Blank,  \* the characters of texts, and the white space among them
    Lower,         \* Lower[x]: the lower case of character x
    AllKey,        \* an ADMIN's lookup: the rules of every company
    Null,          \* null in a nullable column, or a field the file leaves out
    FileRules,     \* the categories of rules files
    Transactions,  \* the rows to classify
    MaxRules       \* bound on the rules saved

Text == Seq(Chars)
TransactionTypes == {"DEPOSIT", "WITHDRAWAL", "ALL"}

ASSUME MatchAssumption ==
    /\ AllKey \notin Companies /\ Null \notin Int /\ Null \notin TransactionTypes /\ MaxRules \in Nat
    /\ Lower \in [Chars -> Chars] /\ \A x \in Chars : Lower[x] = Blank <=> x = Blank
    /\ \A f \in FileRules :
          /\ f.company \in Companies
          /\ f.type \in TransactionTypes \cup {Null} /\ f.priority \in (Nat \ {0}) \cup {Null}
          /\ f.min \in Nat \cup {Null} /\ f.max \in Nat \cup {Null}
          /\ f.include \subseteq Text /\ f.include # {} /\ f.exclude \subseteq Text
    /\ \A t \in Transactions :
          /\ t.deposit \in Nat /\ t.withdrawal \in Nat /\ t.text \in Text
          /\ t.deposit = 0 <=> t.withdrawal # 0  \* the parser accepts no other row

-----------------------------------------------------------------------------
(***************************************************************************)
(* Texts.                                                                  *)
(***************************************************************************)
LowerCase(x) == [i \in DOMAIN x |-> Lower[x[i]]]

Solid(x) == {i \in DOMAIN x : x[i] # Blank}
Trim(x) == IF Solid(x) = {} THEN <<>> ELSE SubSeq(x, Min(Solid(x)), Max(Solid(x)))

\* split(/\s+/) of a trimmed text: the longest runs without a blank, and '' of ''.
SplitWords(x) ==
    IF x = <<>> THEN {<<>>}
    ELSE {SubSeq(x, p[1], p[2]) : p \in {q \in (DOMAIN x) \X (DOMAIN x) :
             /\ q[1] <= q[2] /\ q[1] .. q[2] \subseteq Solid(x)
             /\ {q[1] - 1, q[2] + 1} \cap Solid(x) = {}}}

-----------------------------------------------------------------------------
(***************************************************************************)
(* From the file to the table.                                             *)
(***************************************************************************)
\* The code's x || y on numbers: 0 counts as absent.
Or(x, y) == IF x = Null \/ x = 0 THEN y ELSE x

MapTransactionType(type) == IF type \in {"DEPOSIT", "WITHDRAWAL"} THEN type ELSE "ALL"

\* Variant: a missing type is stored as it is.
StoredAsWritten(f) ==
    [company |-> f.company,
     min_amount |-> Or(f.min, Null),
     max_amount |-> Or(f.max, Null),
     transaction_type |-> f.type,
     priority |-> Or(f.priority, 1),
     include |-> {Trim(k) : k \in f.include},
     exclude |-> {Trim(k) : k \in f.exclude}]

\* saveCategoryRules.  It trims keywords that the DTO of the file has trimmed already.
StoredRule(f) ==
    [company |-> f.company,
     min_amount |-> Or(f.min, Null),
     max_amount |-> Or(f.max, Null),
     transaction_type |-> MapTransactionType(f.type),
     priority |-> Or(f.priority, 1),
     include |-> {Trim(k) : k \in f.include},
     exclude |-> {Trim(k) : k \in f.exclude}]

-----------------------------------------------------------------------------
(***************************************************************************)
(* From the table to a category.                                           *)
(***************************************************************************)
CheckTransactionType(t, type) ==
    CASE type = "DEPOSIT" -> t.deposit > 0 /\ ~(t.withdrawal > 0)
      [] type = "WITHDRAWAL" -> t.withdrawal > 0 /\ ~(t.deposit > 0)
      [] OTHER -> TRUE

Amount(t) == IF t.deposit >= t.withdrawal THEN t.deposit ELSE t.withdrawal

\* Variant: the upper bound is exclusive.
CheckBelowMax(t, rule) ==
    /\ rule.min_amount # Null => Amount(t) >= rule.min_amount
    /\ rule.max_amount # Null => Amount(t) < rule.max_amount

CheckAmountRange(t, rule) ==
    /\ rule.min_amount # Null => Amount(t) >= rule.min_amount
    /\ rule.max_amount # Null => Amount(t) <= rule.max_amount

\* The description of a row, trimmed by its DTO and again when it is encrypted.
Description(t) == Trim(t.text)

\* A word of the description, or a part of it.
IsKeywordMatch(description, keyword) ==
    keyword \in SplitWords(description) \/ keyword \in SubSeqs(description)

\* Any excluded keyword rejects; otherwise one included keyword is enough, and none
\* is needed when the rule has none.
CheckKeywordMatching(t, rule) ==
    LET description == Trim(LowerCase(Description(t)))
        Matches(k) == IsKeywordMatch(description, Trim(LowerCase(k)))
    IN  /\ \A k \in rule.exclude : ~Matches(k)
        /\ rule.include # {} => \E k \in rule.include : Matches(k)

EvaluateRule(t, rule) ==
    /\ CheckTransactionType(t, rule.transaction_type)
    /\ CheckAmountRange(t, rule)
    /\ CheckKeywordMatching(t, rule)

\* The matching ones among the rules, by their places.
FindMatchingRules(t, rules) == {i \in DOMAIN rules : EvaluateRule(t, rules[i])}

\* i comes before j when sorted by priority; the sort is stable.
Before(rules, i, j) ==
    rules[i].priority < rules[j].priority \/ (rules[i].priority = rules[j].priority /\ i <= j)

\* Variant: the largest number has priority.
SelectLargestNumber(rules, matched) ==
    rules[CHOOSE i \in matched : \A j \in matched : rules[i].priority >= rules[j].priority]

\* Variant: off by one, the second of the sorted matches when there are two.
SelectSecondRule(rules, matched) ==
    rules[CHOOSE i \in matched :
             IF Cardinality(matched) = 1 THEN TRUE
             ELSE Cardinality({j \in matched \ {i} : Before(rules, j, i)}) = 1]

\* The head of the matches sorted by priority.
SelectBestRule(rules, matched) ==
    rules[CHOOSE i \in matched : \A j \in matched : Before(rules, i, j)]

\* Variant: the keyword keeps its case.
MatchedAsStored(t, rule) == {k \in rule.include : k \in SubSeqs(LowerCase(Description(t)))}

\* The second comparison of keywords, without trimming and without words.
GetMatchedKeywords(t, rule) ==
    {k \in rule.include : LowerCase(k) \in SubSeqs(LowerCase(Description(t)))}

Unclassified == [isClassified |-> FALSE]

ClassifyTransaction(t, rules) ==
    LET matched == FindMatchingRules(t, rules)
        best == SelectBestRule(rules, matched)
    IN  IF matched = {} THEN Unclassified
        ELSE [isClassified |-> TRUE, rule |-> best, matchedKeywords |-> GetMatchedKeywords(t, best)]

-----------------------------------------------------------------------------
VARIABLES
    file,      \* the rules saved so far, as their files write them
    t,         \* the row at hand
    lookup,    \* the key its rules are looked up by
    result     \* its classification: {}, or {what classifyTransaction returned}
vars == <<file, t, lookup, result>>

\* What a query for key k returns: the rows of its scope ordered by priority; rows
\* of equal priority come in whatever order the database chooses.
Scope(k) == {i \in DOMAIN file : k = AllKey \/ file[i].company = k}
Row(i) == StoredRule(file[i])
QueryResults(k) ==
    LET n == Cardinality(Scope(k))
        orders == {o \in [1 .. n -> Scope(k)] :
                     /\ \A i, j \in 1 .. n : i # j => o[i] # o[j]
                     /\ \A i, j \in 1 .. n : i < j => Row(o[i]).priority <= Row(o[j]).priority}
    IN  {[i \in 1 .. n |-> Row(o[i])] : o \in orders}

\* The classification, if there is one and a rule was chosen.
Chosen == {c \in result : c.isClassified}

TypeOK ==
    /\ file \in Seq(FileRules)
    /\ t \in Transactions
    /\ lookup \in Companies \cup {AllKey}
    /\ \A c \in Chosen :
          /\ c.rule.company \in Companies
          /\ c.rule.transaction_type \in TransactionTypes
          /\ c.rule.priority \in Nat \ {0}
          /\ c.matchedKeywords \subseteq c.rule.include

Init ==
    /\ file = <<>>
    /\ t \in Transactions
    /\ lookup \in Companies \cup {AllKey}
    /\ result = {}

Save(f) ==
    /\ Len(file) < MaxRules
    /\ file' = Append(file, f)
    /\ result' = {}
    /\ UNCHANGED <<t, lookup>>

Classify ==
    /\ \E rows \in QueryResults(lookup) : result' = {ClassifyTransaction(t, rows)}
    /\ UNCHANGED <<file, t, lookup>>

Next == Classify \/ \E f \in FileRules : Save(f)
Spec == Init /\ [][Next]_vars

-----------------------------------------------------------------------------
\* A keyword of a file occurs in the row as it was uploaded; case and outer blanks of the
\* keyword do not count.
Occurs(k) == Trim(LowerCase(k)) \in SubSeqs(LowerCase(t.text))

\* What a category of a rules file asks for, field by field.
AsWritten(f) ==
    LET type == f.type = Null \/ f.type = "ALL"
                \/ (f.type = "DEPOSIT" /\ t.deposit > 0 /\ t.withdrawal = 0)
                \/ (f.type = "WITHDRAWAL" /\ t.withdrawal > 0 /\ t.deposit = 0)
        amount == {t.deposit, t.withdrawal}
    IN  /\ type
        /\ f.min # Null => \E a \in amount : a >= f.min
        /\ f.max # Null => \A a \in amount : a <= f.max
        /\ \E k \in f.include : Occurs(k)
        /\ \A k \in f.exclude : ~Occurs(k)

Applicable(k) == {i \in Scope(k) : AsWritten(file[i])}
Urgency(i) == IF file[i].priority = Null THEN 1 ELSE file[i].priority

\* Through both conversions, a row is classified exactly when a rule of its scope, read
\* as its file writes it, applies to it.
ClassifiedIffRuleApplies ==
    \A c \in result : c.isClassified <=> Applicable(lookup) # {}

\* The choice is by a rule that applies and that no other one precedes in priority,
\* whatever order the database returned the rows in.
BestPriorityWins ==
    \A c \in Chosen :
        \E i \in Applicable(lookup) :
            /\ c.rule = Row(i)
            /\ \A j \in Applicable(lookup) : Urgency(i) <= Urgency(j)

\* Classifying a row again by the same rules gives the same answer, whatever order the
\* database returns them in this time, unless different rules that apply tie in front.
OrderMattersOnlyInTies ==
    \A c \in result : \A rows \in QueryResults(lookup) :
        ClassifyTransaction(t, rows) # c =>
            \E i, j \in Applicable(lookup) :
                /\ Row(i) # Row(j)
                /\ \A h \in Applicable(lookup) : Urgency(i) = Urgency(j) /\ Urgency(j) <= Urgency(h)

\* An ADMIN's upload attributes a row to a company only if that company's own lookup
\* would classify it, and by a rule of the same priority.
AdminAgreesWithOwner ==
    lookup = AllKey =>
        \A c \in Chosen : \A rows \in QueryResults(c.rule.company) :
            LET own == ClassifyTransaction(t, rows)
            IN  own.isClassified /\ own.rule.priority = c.rule.priority

\* The two places that compare keywords agree, although one trims and looks for words and
\* the other does neither: what is reported is what the rule's file has and occurs in the
\* row, and for a row that was classified there is always something to report.
MatchIsExplained ==
    \A c \in Chosen :
        /\ c.matchedKeywords # {}
        /\ \E i \in Scope(lookup) :
              /\ c.rule = Row(i)
              /\ c.matchedKeywords = {Trim(k) : k \in {w \in file[i].include : Occurs(w)}}
=============================================================================
