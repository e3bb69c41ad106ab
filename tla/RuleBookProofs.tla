----------------------------- MODULE RuleBookProofs -----------------------------
(***************************************************************************)
(* RuleStore implements RuleBook: whatever the files, a save that keeps    *)
(* its transaction replaces rules in one step.  What makes the uncommitted *)
(* rules of a save still fit when it commits is that nobody else can write *)
(* rules of a company it has written rules of, with a transaction or       *)
(* without one.                                                            *)
(***************************************************************************)
EXTENDS RuleStoreProofs

\* A rule of the file, or the one that is still without its keywords.
Own(s, c, q) ==
    \/ q \in RulesOf(s, c)
    \/ pc[s] = "keywords" /\ c = Company(s) /\ q = NewRule(s)

\* What s has written are rules of its file's companies: its own, and of the others
\* only what the table has.
Fits(s) ==
    \A c \in DOMAIN newRules[s] :
        /\ c \in FileCompanies(s)
        /\ \A q \in newRules[s][c] : Own(s, c, q) \/ B!Remnant(q, rules[c])

\* Without a transaction there are no uncommitted rules.
NoneOpen(s) == ~inTxn[s] => DOMAIN newRules[s] = {}

Locking == Exclusive /\ \A s \in Savers : Fits(s) /\ NoneOpen(s)

BookInv == KeptInv /\ Locking

BookStep == [B!Next]_(B!vars)

\* The rules of a file for a company are those of its places.
LEMMA RulesOfPlaces ==
    ASSUME NEW s, NEW c
    PROVE  \A q : q \in RulesOf(s, c) <=>
              \E i \in 1 .. Len(File[s]) : \E j \in 1 .. Len(File[s][i].cats) :
                 File[s][i].company = c /\ q = Stored(s, i, j)
BY DEF RulesOf, Stored

\* The place a save is at.
LEMMA AtPlace ==
    ASSUME PlaceOK, NEW s \in Savers
    PROVE  /\ entry[s] \in 1 .. Len(File[s]) /\ item[s] \in 1 .. Len(File[s][entry[s]].cats)
           /\ Company(s) \in Companies /\ Company(s) \in FileCompanies(s)
           /\ Stored(s, entry[s], item[s]) \in RulesOf(s, Company(s))
<1>1. entry[s] \in 1 .. Len(File[s]) /\ item[s] \in 1 .. Len(File[s][entry[s]].cats)
  BY DEF PlaceOK
<1>2. QED
  BY <1>1, PlaceFacts, RulesOfPlaces DEF Company, FileCompanies

\* A rule seen with its keywords or without remains of those in the tables, or is
\* the save's own.
LEMMA SeenFits ==
    ASSUME Typed, NEW s \in Savers, Fits(s), NEW c \in Companies, NEW q \in RulesSeen(s)[c]
    PROVE  Own(s, c, q) \/ B!Remnant(q, rules[c])
<1>1. RulesSeen(s)[c] = IF c \in DOMAIN newRules[s] THEN newRules[s][c] ELSE rules[c]
  BY Seen
<1>2. QED
  BY <1>1 DEF Fits, B!Remnant

\* A write that finds the rules it writes locked by nobody else, and keeps to rules of
\* the save and remnants of the table.
LEMMA WriteLocking ==
    ASSUME Typed, Locking, NEW s \in Savers, NEW C, NEW O, NEW R, Write(s, C, O, R), inTxn' = inTxn,
           DOMAIN R \subseteq {Company(s)},
           \A t \in Savers \ {s} : DOMAIN R \cap DOMAIN newRules[t] = {},
           \A c \in DOMAIN R : \A q \in R[c] : Own(s, c, q)' \/ B!Remnant(q, rules[c]),
           \A c \in Companies \ DOMAIN R : \A q : Own(s, c, q) => Own(s, c, q)',
           \A t \in Savers \ {s} : Same(t)
    PROVE  Locking'
<1>1. WritesOK /\ TablesOK /\ PlaceOK
  BY DEF Typed
<1>2. Company(s) \in FileCompanies(s) /\ Company(s) \in Companies
  BY <1>1, AtPlace
<1>3. ASSUME NEW t \in Savers \ {s}, NEW c, NEW q
      PROVE  Own(t, c, q)' <=> Own(t, c, q)
  BY DEF Same, Own, RulesOf, Company, NewRule, Cat
<1>4. \A t \in Savers : \A c \in DOMAIN newRules[t] : c \in Companies
  BY <1>1 DEF WritesOK, IsWrite
<1>5. CASE inTxn[s]
  <2>1. rules' = rules /\ newRules'[s] = Over(R, newRules[s])
    BY <1>1, <1>5, WriteHeld DEF Write, tables
  <2>2. DOMAIN newRules'[s] = DOMAIN R \cup DOMAIN newRules[s]
    BY <2>1 DEF Over
  <2>3. \A c \in DOMAIN newRules'[s] : newRules'[s][c] = IF c \in DOMAIN R THEN R[c] ELSE newRules[s][c]
    BY <2>1 DEF Over
  <2>4. Exclusive'
    BY <2>2 DEF Exclusive, Locking, Same
  <2>5. Fits(s)'
    <3>1. ASSUME NEW c \in DOMAIN newRules'[s]
          PROVE  /\ c \in FileCompanies(s)
                 /\ \A q \in newRules'[s][c] : Own(s, c, q)' \/ B!Remnant(q, rules[c])
      <4>1. CASE c \in DOMAIN R
        BY <1>2, <2>3, <4>1
      <4>2. CASE c \notin DOMAIN R
        BY <1>4, <2>2, <2>3, <4>2 DEF Locking, Fits
      <4>3. QED
        BY <4>1, <4>2
    <3>2. QED
      BY <2>1, <3>1 DEF Fits, FileCompanies, B!Remnant
  <2>6. \A t \in Savers \ {s} : Fits(t)'
    BY <1>3, <2>1 DEF Locking, Fits, Same, FileCompanies, B!Remnant
  <2>7. \A t \in Savers : NoneOpen(t)'
    BY <1>5 DEF Locking, NoneOpen, Same
  <2>8. QED
    BY <2>4, <2>5, <2>6, <2>7 DEF Locking
<1>6. CASE ~inTxn[s]
  <2>1. rules' = Over(R, rules) /\ newRules' = newRules
    BY <1>6 DEF Write, writes
  <2>2. \A c \in Companies : c \notin DOMAIN R => rules'[c] = rules[c]
    BY <1>1, <2>1 DEF Over, TablesOK
  <2>3. DOMAIN newRules[s] = {}
    BY <1>6 DEF Locking, NoneOpen
  <2>4. Fits(s)' /\ Exclusive' /\ \A t \in Savers : NoneOpen(t)'
    BY <2>1, <2>3 DEF Fits, Exclusive, Locking, NoneOpen
  <2>5. ASSUME NEW t \in Savers \ {s}, NEW c \in DOMAIN newRules[t]
        PROVE  rules'[c] = rules[c]
    BY <1>4, <2>2
  <2>6. \A t \in Savers \ {s} : Fits(t)'
    BY <1>3, <2>1, <2>5 DEF Locking, Fits, FileCompanies, B!Remnant
  <2>7. QED
    BY <2>4, <2>6 DEF Locking
<1>7. QED
  BY <1>5, <1>6

\* The contents that the abstract saves have.
LEMMA ContentsAre ==
    ASSUME NEW s \in Savers, NEW c \in Companies
    PROVE  [t \in Savers |-> [d \in Companies |-> RulesOf(t, d)]][s][c] = RulesOf(s, c)
OBVIOUS

\* What is in the table remains of it; the rule about to get its keywords is one of the
\* file without them.
LEMMA Remnants ==
    ASSUME Typed, NEW s \in Savers
    PROVE  /\ \A S : \A q \in S : B!Remnant(q, S)
           /\ \A q, S, T : B!Remnant(q, S) => B!Remnant(q, S \cup T) /\ B!Remnant(q, T \cup S)
           /\ B!Remnant(NewRule(s), RulesOf(s, Company(s)))
<1>1. Stored(s, entry[s], item[s]) \in RulesOf(s, Company(s))
  BY AtPlace DEF Typed
<1>2. B!Remnant(NewRule(s), RulesOf(s, Company(s)))
  BY <1>1 DEF B!Remnant, Stored, NewRule, Cat
<1>3. QED
  BY <1>2 DEF B!Remnant

\* A statement that writes rules of the company it is at, its own or remnants: unseen
\* with a transaction, and an amendment without one.
LEMMA WriteBook ==
    ASSUME Typed, Typed', Locking, NEW s \in Savers, NEW C, NEW O, NEW R, Write(s, C, O, R), inTxn' = inTxn,
           pc[s] # "saved", pc'[s] # "saved", \A t \in Savers \ {s} : Same(t),
           DOMAIN R \subseteq {Company(s)}, pc[s] = "keywords" => DOMAIN R = {Company(s)},
           \A t \in Savers \ {s} : DOMAIN R \cap DOMAIN newRules[t] = {},
           \A c \in DOMAIN R : \A q \in R[c] :
              \/ q \in RulesOf(s, c)
              \/ q = NewRule(s) /\ pc'[s] = "keywords" /\ entry'[s] = entry[s] /\ item'[s] = item[s]
              \/ B!Remnant(q, rules[c])
    PROVE  Locking' /\ BookStep
<1>1. Company(s) \in Companies /\ RulesOf(s, Company(s)) # {}
  BY AtPlace DEF Typed
<1>2. ASSUME NEW c \in DOMAIN R, NEW q \in R[c]
      PROVE  /\ Own(s, c, q)' \/ B!Remnant(q, rules[c])
             /\ B!Remnant(q, rules[c] \cup RulesOf(s, c))
  <2>1. CASE q \in RulesOf(s, c)
    BY <2>1, Remnants DEF Own, RulesOf
  <2>2. CASE q = NewRule(s) /\ pc'[s] = "keywords" /\ entry'[s] = entry[s] /\ item'[s] = item[s]
    <3>1. c = Company(s) /\ Company(s)' = Company(s) /\ NewRule(s)' = NewRule(s)
      BY <2>2 DEF Company, NewRule, Cat
    <3>2. QED
      BY <2>2, <3>1, Remnants DEF Own
  <2>3. CASE B!Remnant(q, rules[c])
    BY <2>3, Remnants
  <2>4. QED
    BY <1>2, <2>1, <2>2, <2>3
<1>3. Locking'
  <2>1. \A c \in Companies \ DOMAIN R : \A q : Own(s, c, q) => Own(s, c, q)'
    BY DEF Own, RulesOf
  <2>2. QED
    BY <1>2, <2>1, WriteLocking
<1>4. {t \in Savers : pc'[t] = "saved"} = {t \in Savers : pc[t] = "saved"}
  BY DEF Same
<1>5. CASE inTxn[s]
  BY <1>3, <1>4, <1>5 DEF Write, tables, BookStep, B!vars
<1>6. CASE ~inTxn[s]
  <2>1. rules' = Over(R, rules)
    BY <1>6 DEF Write
  <2>2. DOMAIN rules' = Companies
    BY DEF Typed, TablesOK
  <2>3. ASSUME NEW c \in Companies
        PROVE  /\ RulesOf(s, c) = {} => rules'[c] = rules[c]
               /\ \A q \in rules'[c] : B!Remnant(q, rules[c] \cup RulesOf(s, c))
    <3>1. rules'[c] = IF c \in DOMAIN R THEN R[c] ELSE rules[c]
      BY <2>1 DEF Over, Typed, TablesOK
    <3>2. QED
      BY <1>1, <1>2, <3>1, Remnants
  <2>4. B!Amend(s)
    BY <1>4, <1>6, <2>2, <2>3, ContentsAre DEF B!Amend
  <2>5. QED
    BY <1>3, <2>4 DEF BookStep, B!Next
<1>7. QED
  BY <1>5, <1>6

\* Transactions that end without a commit.
LEMMA DropLocking ==
    ASSUME Locking, NEW S, DropWrites(S), UNCHANGED rules, \A t \in Savers \ S : Same(t)
    PROVE  Locking'
<1>1. \A t \in Savers : newRules'[t] = IF t \in S THEN Nothing ELSE newRules[t]
  BY DEF DropWrites
<1>2. DOMAIN Nothing = {}
  BY DEF Nothing
<1>3. Exclusive'
  BY <1>1, <1>2 DEF Locking, Exclusive
<1>4. ASSUME NEW t \in Savers
      PROVE  Fits(t)' /\ NoneOpen(t)'
  <2>1. CASE t \in S
    BY <1>1, <1>2, <2>1 DEF Fits, NoneOpen
  <2>2. CASE t \notin S
    <3>1. \A c, q : Own(t, c, q)' <=> Own(t, c, q)
      BY <2>2 DEF Same, Own, RulesOf, Company, NewRule, Cat
    <3>2. QED
      BY <2>2, <3>1 DEF Locking, Fits, NoneOpen, Same, FileCompanies, B!Remnant
  <2>3. QED
    BY <2>1, <2>2
<1>5. QED
  BY <1>3, <1>4 DEF Locking

\* A commit: the whole file at once, or the end of a save without its transaction.
LEMMA CommitBook ==
    ASSUME BookInv, NEW s \in Savers, Commit(s), \A t \in Savers \ {s} : Same(t)
    PROVE  Locking' /\ BookStep
<1>1. Typed /\ TablesOK /\ Locking /\ PlaceOK
  BY DEF BookInv, KeptInv, IInv, Typed
<1>2. /\ pc[s] = "commit" /\ pc' = [pc EXCEPT ![s] = "saved"] /\ inTxn' = inTxn
      /\ rules' = Over(newRules[s], rules) /\ DropWrites({s})
  BY DEF Commit, Goto
<1>3. \A t \in Savers : newRules'[t] = IF t = s THEN Nothing ELSE newRules[t]
  BY <1>2 DEF DropWrites
<1>4. DOMAIN Nothing = {}
  BY DEF Nothing
<1>5. \A c \in Companies : rules'[c] = IF c \in DOMAIN newRules[s] THEN newRules[s][c] ELSE rules[c]
  BY <1>1, <1>2 DEF Over, TablesOK
<1>6. DOMAIN rules' = Companies
  BY <1>1, <1>2 DEF Over, TablesOK, Typed, WritesOK, IsWrite
<1>7. Locking'
  <2>1. Exclusive'
    BY <1>1, <1>3, <1>4 DEF Locking, Exclusive
  <2>2. \A t \in Savers : NoneOpen(t)'
    BY <1>1, <1>2, <1>3, <1>4 DEF Locking, NoneOpen
  <2>3. ASSUME NEW t \in Savers
        PROVE  Fits(t)'
    <3>1. CASE t = s
      BY <1>3, <1>4, <3>1 DEF Fits
    <3>2. CASE t # s
      <4>1. \A c, q : Own(t, c, q)' <=> Own(t, c, q)
        BY <3>2 DEF Same, Own, RulesOf, Company, NewRule, Cat
      <4>2. \A c \in DOMAIN newRules[t] : rules'[c] = rules[c]
        BY <1>1, <1>5, <3>2 DEF Locking, Exclusive, Typed, WritesOK, IsWrite
      <4>3. QED
        BY <1>1, <1>3, <3>2, <4>1, <4>2 DEF Locking, Fits, FileCompanies, B!Remnant
    <3>3. QED
      BY <3>1, <3>2
  <2>4. QED
    BY <2>1, <2>2, <2>3 DEF Locking
<1>8. {t \in Savers : pc'[t] = "saved"} = {t \in Savers : pc[t] = "saved"} \cup {s}
  BY <1>1, <1>2 DEF PlaceOK
<1>9. CASE inTxn[s]
  <2>1. ASSUME NEW c \in Companies, RulesOf(s, c) = {}
        PROVE  rules'[c] = rules[c]
    <3>1. c \notin FileCompanies(s)
      <4>1. ASSUME NEW i \in 1 .. Len(File[s]), File[s][i].company = c
            PROVE  FALSE
        <5>1. 1 \in 1 .. Len(File[s][i].cats)
          BY FileFacts
        <5>2. Stored(s, i, 1) \in RulesOf(s, c)
          BY <4>1, <5>1, RulesOfPlaces
        <5>3. QED
          BY <2>1, <5>2
      <4>2. QED
        BY <4>1 DEF FileCompanies
    <3>2. QED
      BY <1>1, <1>5, <3>1 DEF Locking, Fits
  <2>2. ASSUME NEW c \in Companies
        PROVE  RulesOf(s, c) \subseteq rules'[c]
    <3>1. ASSUME NEW q \in RulesOf(s, c)
          PROVE  q \in rules'[c]
      <4>1. PICK i \in 1 .. Len(File[s]) : \E j \in 1 .. Len(File[s][i].cats) :
               File[s][i].company = c /\ q = Stored(s, i, j)
        BY RulesOfPlaces
      <4>2. PICK j \in 1 .. Len(File[s][i].cats) : File[s][i].company = c /\ q = Stored(s, i, j)
        BY <4>1
      <4>3. QED
        BY <1>9, <4>2, CommitStoresRules DEF BookInv
    <3>2. QED
      BY <3>1
  <2>3. ASSUME NEW c \in Companies, NEW q \in rules'[c] \ RulesOf(s, c)
        PROVE  B!Remnant(q, rules[c])
    <3>1. CASE c \in DOMAIN newRules[s]
      BY <1>1, <1>2, <1>5, <2>3, <3>1 DEF Locking, Fits, Own
    <3>2. CASE c \notin DOMAIN newRules[s]
      BY <1>1, <1>5, <2>3, <3>2, Remnants
    <3>3. QED
      BY <3>1, <3>2
  <2>4. B!Replace(s)
    BY <1>2, <1>6, <1>8, <1>9, <2>1, <2>2, <2>3, ContentsAre DEF B!Replace
  <2>5. QED
    BY <1>7, <2>4 DEF BookStep, B!Next
<1>10. CASE ~inTxn[s]
  <2>1. DOMAIN newRules[s] = {}
    BY <1>1, <1>10 DEF Locking, NoneOpen
  <2>2. rules' = rules
    <3>1. rules' = [c \in Companies |-> rules[c]]
      BY <1>1, <1>2, <2>1 DEF Over, TablesOK
    <3>2. QED
      BY <1>1, <3>1 DEF TablesOK
  <2>3. B!Close(s)
    BY <1>2, <1>8, <1>10, <2>2 DEF B!Close
  <2>4. QED
    BY <1>7, <2>3 DEF BookStep, B!Next
<1>11. QED
  BY <1>9, <1>10

\* Every statement of a save.
LEMMA StatementBook ==
    ASSUME BookInv, Typed', NEW s \in Savers, Statement(s)
    PROVE  Locking' /\ BookStep
<1>1. Typed /\ PlaceOK /\ WritesOK /\ Locking /\ Fits(s) /\ IInv
  BY DEF BookInv, KeptInv, IInv, Typed, Locking
<1>2. \A t \in Savers \ {s} : Same(t)
  BY <1>1, StatementOthers
<1>3. Company(s) \in Companies
  BY <1>1, PlaceFacts
<1>4. ASSUME NEW q \in RulesSeen(s)[Company(s)], pc[s] = "keywords" => q # NewRule(s)
      PROVE  q \in RulesOf(s, Company(s)) \/ B!Remnant(q, rules[Company(s)])
  BY <1>1, <1>3, <1>4, SeenFits DEF Own
<1>5. DOMAIN Nothing = {}
  BY DEF Nothing
<1>6. \A S : DOMAIN At(Company(s), S) = {Company(s)} /\ At(Company(s), S)[Company(s)] = S
  BY DEF At
<1>7. ASSUME UNCHANGED <<writes, rules, inTxn>>, pc[s] \notin {"saved", "keywords"}, pc'[s] # "saved"
      PROVE  Locking' /\ BookStep
  <2>1. \A t \in Savers : \A c, q : Own(t, c, q) => Own(t, c, q)'
    BY <1>2, <1>7 DEF Same, Own, RulesOf, Company, NewRule, Cat
  <2>2. Locking'
    BY <1>1, <1>7, <2>1 DEF Locking, Fits, NoneOpen, Exclusive, writes, FileCompanies, B!Remnant
  <2>3. {t \in Savers : pc'[t] = "saved"} = {t \in Savers : pc[t] = "saved"}
    BY <1>2, <1>7 DEF Same
  <2>4. QED
    BY <1>7, <2>2, <2>3 DEF BookStep, B!vars
<1>8. CASE SaveCompany(s) \/ SaveCategory(s)
  <2>1. PICK C, O : Write(s, C, O, Nothing)
    BY <1>8 DEF SaveCompany, SaveCategory
  <2>2. inTxn' = inTxn /\ pc[s] \in {"company", "category"} /\ pc'[s] # "saved"
    BY <1>1, <1>8 DEF SaveCompany, SaveCategory, Goto, PlaceOK
  <2>3. QED
    BY <1>1, <1>2, <1>5, <2>1, <2>2, WriteBook
<1>9. CASE Find(s) \/ DeleteFails(s)
  BY <1>1, <1>7, <1>9 DEF Find, DeleteFails, Goto, PlaceOK, tables
<1>10. ASSUME NEW O, NEW S, Write(s, {}, O, At(Company(s), S)), ~Blocked(s), inTxn' = inTxn,
              pc[s] \in {"delete", "rule", "keywords"}, pc'[s] # "saved",
              \A q \in S :
                 \/ q \in RulesOf(s, Company(s))
                 \/ q = NewRule(s) /\ pc'[s] = "keywords" /\ entry'[s] = entry[s] /\ item'[s] = item[s]
                 \/ B!Remnant(q, rules[Company(s)])
       PROVE  Locking' /\ BookStep
  <2>1. \A t \in Savers \ {s} : Company(s) \notin DOMAIN newRules[t]
    BY <1>10, RulesFree
  <2>2. PICK C, R : Write(s, C, O, R) /\ DOMAIN R = {Company(s)} /\ R[Company(s)] = S
    BY <1>6, <1>10
  <2>3. QED
    BY <1>1, <1>2, <1>10, <2>1, <2>2, WriteBook
<1>11. CASE Delete(s)
  <2> DEFINE stripped == {[r EXCEPT !.kw = @ /\ Id(r) \notin found[s]] : r \in RulesSeen(s)[Company(s)]}
             rulesGone == \A r \in stripped : ~r.kw
             S == IF rulesGone THEN {} ELSE stripped
  <2>1. /\ \E O : Write(s, {}, O, At(Company(s), S))
        /\ pc[s] = "delete" /\ ~Blocked(s) /\ inTxn' = inTxn
    BY <1>11 DEF Delete
  <2>2. pc'[s] # "saved"
    BY <1>1, <1>11 DEF Delete, Goto, PlaceOK
  <2>3. ASSUME NEW r \in RulesSeen(s)[Company(s)], NEW q, q = [r EXCEPT !.kw = r.kw /\ Id(r) \notin found[s]]
        PROVE  q \in RulesOf(s, Company(s)) \/ B!Remnant(q, rules[Company(s)])
    <3>1. r \in Rule
      BY <1>1, <1>3, SeenType DEF Typed
    <3>2. q.by = r.by /\ q.entry = r.entry /\ q.cat = r.cat /\ (q.kw => r.kw)
      <4>1. ASSUME NEW b \in BOOLEAN, NEW p, p = [r EXCEPT !.kw = b]
            PROVE  p.by = r.by /\ p.entry = r.entry /\ p.cat = r.cat /\ p.kw = b
        BY <3>1, <4>1 DEF Rule
      <4>2. (r.kw /\ Id(r) \notin found[s]) \in BOOLEAN
        OBVIOUS
      <4>3. /\ q.by = r.by /\ q.entry = r.entry /\ q.cat = r.cat
            /\ q.kw = (r.kw /\ Id(r) \notin found[s])
        BY <2>3, <4>1, <4>2
      <4>4. QED
        BY <4>3
    <3>3. CASE B!Remnant(r, rules[Company(s)])
      BY <3>2, <3>3 DEF B!Remnant
    <3>4. CASE r \in RulesOf(s, Company(s)) /\ inTxn[s]
      <4>1. r.by = s /\ r.kw = TRUE
        BY <3>4, RulesOfPlaces DEF Stored
      <4>2. Id(r) \notin found[s]
        BY <1>1, <3>4, <4>1 DEF IInv, FoundOthers, Id
      <4>3. (r.kw /\ Id(r) \notin found[s]) = TRUE
        BY <4>1, <4>2
      <4>4. ASSUME NEW b, b = TRUE
            PROVE  [r EXCEPT !.kw = b] = r
        BY <3>1, <4>1, <4>4 DEF Rule
      <4>5. q = r
        BY <2>3, <4>3, <4>4
      <4>6. QED
        BY <3>4, <4>5
    <3>5. CASE ~inTxn[s]
      <4>1. RulesSeen(s)[Company(s)] = rules[Company(s)]
        BY <1>1, <1>3, <3>5, Seen DEF Locking, NoneOpen
      <4>2. B!Remnant(r, rules[Company(s)])
        BY <2>3, <4>1 DEF B!Remnant
      <4>3. QED
        BY <3>2, <4>2 DEF B!Remnant
    <3>6. QED
      BY <1>4, <2>1, <3>3, <3>4, <3>5
  <2>4. \A q \in S : q \in RulesOf(s, Company(s)) \/ B!Remnant(q, rules[Company(s)])
    <3>1. \A q \in S : \E r \in RulesSeen(s)[Company(s)] : q = [r EXCEPT !.kw = r.kw /\ Id(r) \notin found[s]]
      OBVIOUS
    <3> HIDE DEF S
    <3>2. QED
      BY <2>3, <3>1
  <2> HIDE DEF S
  <2>5. QED
    BY <1>10, <2>1, <2>2, <2>4
<1>12. CASE SaveRule(s)
  <2> DEFINE S == RulesSeen(s)[Company(s)] \cup {NewRule(s)}
  <2>1. /\ Write(s, {}, Nothing, At(Company(s), S))
        /\ pc[s] = "rule" /\ ~Blocked(s) /\ inTxn' = inTxn /\ UNCHANGED <<entry, item>>
    BY <1>12 DEF SaveRule
  <2>2. pc'[s] = "keywords"
    BY <1>1, <1>12 DEF SaveRule, Goto, PlaceOK
  <2>3. \A q \in S : \/ q \in RulesOf(s, Company(s))
                    \/ q = NewRule(s)
                    \/ B!Remnant(q, rules[Company(s)])
    BY <1>4, <2>1
  <2> HIDE DEF S
  <2>4. QED
    BY <1>10, <2>1, <2>2, <2>3
<1>13. CASE SaveKeywords(s)
  <2> DEFINE Full == [NewRule(s) EXCEPT !.kw = TRUE]
             S == (RulesSeen(s)[Company(s)] \ {NewRule(s)}) \cup {Full}
  <2>1. /\ Write(s, {}, Nothing, At(Company(s), S))
        /\ pc[s] = "keywords" /\ ~Blocked(s) /\ inTxn' = inTxn
    BY <1>13 DEF SaveKeywords
  <2>2. pc'[s] # "saved"
    BY <1>1, <1>13 DEF SaveKeywords, Advance, Goto, PlaceOK
  <2>3. Full \in RulesOf(s, Company(s))
    <3>1. Full = Stored(s, entry[s], item[s])
      <4>1. ASSUME NEW r \in Rule, NEW q \in Rule,
                   q.by = r.by, q.entry = r.entry, q.cat = r.cat, q.kw = TRUE
            PROVE  [r EXCEPT !.kw = TRUE] = q
        BY <4>1 DEF Rule
      <4>2. NewRule(s) \in Rule /\ Stored(s, entry[s], item[s]) \in Rule
        BY <1>1, PlaceFacts DEF NewRule, Stored, Rule, Cat
      <4>3. /\ Stored(s, entry[s], item[s]).by = NewRule(s).by
            /\ Stored(s, entry[s], item[s]).entry = NewRule(s).entry
            /\ Stored(s, entry[s], item[s]).cat = NewRule(s).cat
            /\ Stored(s, entry[s], item[s]).kw = TRUE
        BY DEF NewRule, Stored, Cat
      <4>4. QED
        BY <4>1, <4>2, <4>3
    <3>2. QED
      BY <1>1, <3>1, AtPlace
  <2>4. \A q \in S : q \in RulesOf(s, Company(s)) \/ B!Remnant(q, rules[Company(s)])
    BY <1>4, <2>3
  <2> HIDE DEF S
  <2>5. QED
    BY <1>10, <2>1, <2>2, <2>4
<1>14. CASE Commit(s)
  BY <1>2, <1>14, CommitBook
<1>15. CASE Reject(s) \/ Deadlock(s)
  <2>1. DropWrites({s}) /\ rules' = rules
    BY <1>15 DEF Reject, Deadlock, tables
  <2>2. Locking'
    BY <1>1, <1>2, <2>1, DropLocking
  <2>3. {t \in Savers : pc'[t] = "saved"} = {t \in Savers : pc[t] = "saved"} /\ pc[s] # "saved"
    BY <1>1, <1>2, <1>15 DEF Reject, Deadlock, Goto, Same, PlaceOK
  <2>4. CASE Reject(s)
    BY <2>1, <2>2, <2>3, <2>4 DEF Reject, BookStep, B!vars
  <2>5. CASE Deadlock(s)
    <3>1. inTxn[s] /\ inTxn' = [inTxn EXCEPT ![s] = FALSE] /\ inTxn \in [Savers -> BOOLEAN]
      BY <1>1, <2>5 DEF Deadlock, Typed
    <3>2. {t \in Savers : ~inTxn'[t]} = {t \in Savers : ~inTxn[t]} \cup {s}
      BY <3>1
    <3>3. B!Lose(s)
      BY <2>1, <2>3, <3>1, <3>2 DEF B!Lose
    <3>4. QED
      BY <2>2, <3>3 DEF BookStep, B!Next
  <2>6. QED
    BY <1>15, <2>4, <2>5
<1>16. QED
  BY <1>8, <1>9, <1>11, <1>12, <1>13, <1>14, <1>15 DEF Statement

LEMMA BookInit == Init => BookInv /\ B!Init
<1> SUFFICES ASSUME Init PROVE BookInv /\ B!Init
  OBVIOUS
<1>1. KeptInv
  BY KeptInit
<1>2. \A s \in Savers : newRules[s] = Nothing /\ pc[s] = "idle" /\ inTxn[s]
  BY DEF Init
<1>3. DOMAIN Nothing = {}
  BY DEF Nothing
<1>4. Locking
  BY <1>2, <1>3 DEF Locking, Exclusive, Fits, NoneOpen
<1>5. DOMAIN rules = Companies
  BY DEF Init
<1>6. {s \in Savers : pc[s] = "saved"} = {} /\ {s \in Savers : ~inTxn[s]} = {}
  BY <1>2
<1>7. QED
  BY <1>1, <1>4, <1>5, <1>6 DEF BookInv, B!Init

LEMMA BookNext == BookInv /\ [Next]_vars => BookInv' /\ BookStep
<1> SUFFICES ASSUME BookInv, [Next]_vars PROVE BookInv' /\ BookStep
  OBVIOUS
<1>1. KeptInv' /\ Typed /\ Typed' /\ PlaceOK /\ Locking
  BY KeptStep DEF BookInv, KeptInv, IInv, Typed
<1>2. ASSUME UNCHANGED <<writes, rules, inTxn>>,
             \A t \in Savers : /\ pc[t] = "keywords" => pc'[t] = "keywords"
                               /\ entry'[t] = entry[t] /\ item'[t] = item[t]
                               /\ pc[t] = "saved" <=> pc'[t] = "saved"
      PROVE  Locking' /\ BookStep
  <2>1. \A t \in Savers : \A c, q : Own(t, c, q) => Own(t, c, q)'
    BY <1>2 DEF Own, RulesOf, Company, NewRule, Cat
  <2>2. Locking'
    BY <1>1, <1>2, <2>1 DEF Locking, Fits, NoneOpen, Exclusive, writes, FileCompanies, B!Remnant
  <2>3. {t \in Savers : pc'[t] = "saved"} = {t \in Savers : pc[t] = "saved"}
    BY <1>2
  <2>4. QED
    BY <1>2, <2>2, <2>3 DEF BookStep, B!vars
<1>3. CASE UNCHANGED vars
  <2>1. Locking' /\ BookStep
    BY <1>2, <1>3 DEF vars, place, tables
  <2>2. QED
    BY <1>1, <2>1 DEF BookInv
<1>4. CASE \E s \in Savers : Begin(s)
  <2>1. Locking' /\ BookStep
    BY <1>1, <1>2, <1>4 DEF Begin, Goto, tables, PlaceOK
  <2>2. QED
    BY <1>1, <2>1 DEF BookInv
<1>5. CASE \E s \in Savers : Statement(s)
  BY <1>1, <1>5, StatementBook DEF BookInv
<1>6. CASE Crash
  <2>1. DropWrites(Savers) /\ rules' = rules /\ inTxn' = inTxn
    BY <1>6 DEF Crash, tables
  <2>2. Locking'
    BY <1>1, <2>1, DropLocking
  <2>3. {t \in Savers : pc'[t] = "saved"} = {t \in Savers : pc[t] = "saved"}
    BY <1>6 DEF Crash, Active
  <2>4. BookStep
    BY <2>1, <2>3 DEF BookStep, B!vars
  <2>5. QED
    BY <1>1, <2>2, <2>4 DEF BookInv
<1>7. QED
  BY <1>3, <1>4, <1>5, <1>6 DEF Next

\* Whatever the files, the pool and the interleaving, with failures, deadlocks and
\* crashes: a save that keeps its transaction replaces the rules of its companies at
\* once and entirely, and brings nothing back that was gone when it committed.
THEOREM SavesAreAtomic == Spec => ImplementsRuleBook
BY BookInit, BookNext, PTL DEF Spec, ImplementsRuleBook, B!Spec, BookStep
=============================================================================
