---------------------------- MODULE RuleOrderProofs ----------------------------
(***************************************************************************)
(* How much a common order of companies in files helps: a save then waits  *)
(* for the rows of saves that are further on in that order, or further on  *)
(* with the company it is at, and no ring of row locks closes.  Each       *)
(* category must be under one company.  Gap locks follow the order of the  *)
(* indexes and not that of the files; a ring that a gap lock is part of is *)
(* not excluded, here or in the database.                                  *)
(***************************************************************************)
EXTENDS RuleStoreProofs

\* Every file names companies in the order of rank, none of them twice.
InOrder(rank) ==
    /\ rank \in [Companies -> Nat]
    /\ \A c, d \in Companies : rank[c] = rank[d] => c = d
    /\ \A s \in Savers : \A i, m \in 1 .. Len(File[s]) :
          i < m => rank[File[s][i].company] < rank[File[s][m].company]

\* The companies of the entries up to i.
UpTo(s, i) == {File[s][j].company : j \in 1 .. i}

\* The last entry whose company s may have locked, and whose rules and categories.
CompaniesTo(s) == IF pc[s] \in {"idle", "company"} THEN entry[s] - 1 ELSE entry[s]
RowsTo(s) == IF pc[s] \in {"idle", "company", "find", "delete"} THEN entry[s] - 1 ELSE entry[s]

\* A transaction has locked rows of the companies it came to, and of no other.
Reached(h, s) ==
    /\ newCompanies[s] \subseteq UpTo(s, CompaniesTo(s))
    /\ DOMAIN newRules[s] \subseteq UpTo(s, RowsTo(s))
    /\ \A k \in DOMAIN newOwner[s] : h[k] \in UpTo(s, RowsTo(s))

OrderInv(h) == HomeInv(h) /\ \A s \in Savers : Reached(h, s)

\* s waits for itself, directly or through others, by row locks alone.
RowRing(s) ==
    \A S \in SUBSET Savers :
        (\A t \in S \cup {s}, u \in Savers : WaitsFor(t, u) => u \in S) => s \in S

\* No save that is about to delete is in such a ring.
NoRowRing == \A s \in Savers : pc[s] = "delete" => ~RowRing(s)

\* The company a row belongs to.
RowOf(h, x) == IF x[1] = "category" THEN h[x[2]] ELSE x[2]

\* A statement needs rows of the company it is at, and only the first one the
\* company's own.
LEMMA NeedsOfCompany ==
    ASSUME NEW h, HomeOf(h), HomeInv(h), NEW s \in Savers, NEW x \in Needs(s)
    PROVE  /\ RowOf(h, x) = Company(s)
           /\ x[1] = "company" => pc[s] = "company"
<1>1. Typed /\ PlaceOK
  BY DEF HomeInv, IInv, Typed
<1>2. Company(s) \in Companies /\ Cat(s) \in Cats
  BY <1>1, PlaceFacts
<1>3. h[Cat(s)] = Company(s)
  BY <1>1 DEF HomeOf, Cat, Company, PlaceOK
<1>4. ASSUME NEW k \in OwnedCats(s)
      PROVE  h[k] = Company(s)
  <2>1. k \in Cats /\ OwnerSeen(s)[k] = Company(s)
    BY <1>4 DEF OwnedCats
  <2>2. OwnerSeen(s)[k] \in {h[k], NoOwner}
    BY <1>1, <2>1, Seen DEF HomeInv, AtHome, Typed, TablesOK
  <2>3. QED
    BY <1>2, <2>1, <2>2, OwnerAssumption
<1>5. \/ pc[s] = "company" /\ x = <<"company", Company(s)>>
      \/ x = <<"rules", Company(s)>>
      \/ x = <<"category", Cat(s)>>
      \/ \E k \in OwnedCats(s) : x = <<"category", k>>
  BY DEF Needs
<1>6. QED
  BY <1>3, <1>4, <1>5 DEF RowOf

\* What a transaction holds belongs to companies it came to.
LEMMA HoldsReached ==
    ASSUME NEW h, NEW s \in Savers, Reached(h, s), NEW x \in Holds(s)
    PROVE  RowOf(h, x) \in UpTo(s, IF x[1] = "company" THEN CompaniesTo(s) ELSE RowsTo(s))
<1>1. \/ \E c \in newCompanies[s] : x = <<"company", c>>
      \/ \E k \in DOMAIN newOwner[s] : x = <<"category", k>>
      \/ \E c \in DOMAIN newRules[s] : x = <<"rules", c>>
  BY DEF Holds
<1>2. QED
  BY <1>1 DEF Reached, RowOf

\* The companies of entries up to the present one rank no higher than its company,
\* those of earlier entries lower.
LEMMA UpToRank ==
    ASSUME NEW rank, InOrder(rank), PlaceOK, NEW s \in Savers, NEW i \in {entry[s] - 1, entry[s]},
           NEW c \in UpTo(s, i)
    PROVE  /\ c \in Companies
           /\ rank[c] < rank[Company(s)] \/ (c = Company(s) /\ i = entry[s])
<1>1. entry[s] \in 1 .. Len(File[s]) /\ Len(File[s]) \in Nat
  BY FileFacts DEF PlaceOK
<1>2. PICK j \in 1 .. i : c = File[s][j].company
  BY DEF UpTo
<1>3. j \in 1 .. Len(File[s]) /\ (j < entry[s] \/ (j = entry[s] /\ i = entry[s]))
  BY <1>1
<1>4. c \in Companies
  BY <1>2, <1>3, FileFacts
<1>5. j < entry[s] => rank[c] < rank[Company(s)]
  BY <1>1, <1>2, <1>3 DEF InOrder, Company
<1>6. j = entry[s] => c = Company(s)
  BY <1>2 DEF Company
<1>7. QED
  BY <1>3, <1>4, <1>5, <1>6

\* Who waits, waits for a save at a company of higher rank, or further on with the
\* same company.
LEMMA WaitsUpward ==
    ASSUME NEW h, HomeOf(h), NEW rank, InOrder(rank), OrderInv(h),
           NEW t \in Savers, NEW u \in Savers, WaitsFor(t, u)
    PROVE  \/ rank[Company(t)] < rank[Company(u)]
           \/ /\ Company(t) = Company(u)
              /\ pc[t] # "company" => pc[u] \notin {"idle", "company", "find", "delete"}
<1>1. PlaceOK /\ Reached(h, u) /\ HomeInv(h)
  BY DEF OrderInv, HomeInv, IInv, Typed
<1>2. PICK x \in Needs(t) : x \in Holds(u)
  BY DEF WaitsFor
<1>3. RowOf(h, x) = Company(t) /\ (x[1] = "company" => pc[t] = "company")
  BY <1>1, <1>2, NeedsOfCompany
<1> DEFINE i == IF x[1] = "company" THEN CompaniesTo(u) ELSE RowsTo(u)
<1>4. Company(t) \in UpTo(u, i)
  BY <1>1, <1>2, <1>3, HoldsReached
<1>5. i \in {entry[u] - 1, entry[u]}
  BY DEF CompaniesTo, RowsTo
<1>6. rank[Company(t)] < rank[Company(u)] \/ (Company(t) = Company(u) /\ i = entry[u])
  <2> HIDE DEF i
  <2>1. QED
    BY <1>1, <1>4, <1>5, UpToRank
<1>7. ASSUME i = entry[u], pc[t] # "company"
      PROVE  pc[u] \notin {"idle", "company", "find", "delete"}
  <2>1. RowsTo(u) = entry[u] /\ entry[u] \in Nat
    BY <1>1, <1>3, <1>7, PlaceFacts
  <2>2. QED
    BY <2>1 DEF RowsTo
<1>8. QED
  BY <1>6, <1>7

\* So a save that is about to delete does not wait for itself: the saves further on
\* wait only for each other.
LEMMA NoRing ==
    ASSUME NEW h, HomeOf(h), NEW rank, InOrder(rank), OrderInv(h), NEW s \in Savers, pc[s] = "delete"
    PROVE  ~RowRing(s)
<1> DEFINE Further(t) ==
               \/ rank[Company(s)] < rank[Company(t)]
               \/ Company(t) = Company(s) /\ pc[t] \notin {"idle", "company", "find", "delete"}
           S == {t \in Savers : Further(t)}
<1>1. \A t \in Savers : Company(t) \in Companies /\ rank[Company(t)] \in Nat
  BY PlaceFacts DEF OrderInv, HomeInv, IInv, Typed, InOrder
<1>2. s \notin S
  BY <1>1
<1>3. ASSUME NEW t \in S \cup {s}, NEW u \in Savers, WaitsFor(t, u)
      PROVE  u \in S
  <2>1. t \in Savers /\ (Further(t) \/ t = s)
    BY <1>3
  <2>2. \/ rank[Company(t)] < rank[Company(u)]
        \/ /\ Company(t) = Company(u)
           /\ pc[t] # "company" => pc[u] \notin {"idle", "company", "find", "delete"}
    BY <1>3, <2>1, WaitsUpward
  <2>3. Further(u)
    BY <1>1, <2>1, <2>2
  <2>4. QED
    BY <2>3
<1>4. S \in SUBSET Savers
  OBVIOUS
<1> HIDE DEF S
<1>5. QED
  BY <1>2, <1>3, <1>4 DEF RowRing

\* A write leaves the save with no more than the rows it wrote and those it had; without
\* a transaction it keeps none.
LEMMA WriteAdds ==
    ASSUME WritesOK, NEW s \in Savers, NEW C, NEW O, NEW R, Write(s, C, O, R)
    PROVE  /\ newCompanies'[s] \subseteq newCompanies[s] \cup C
           /\ DOMAIN newOwner'[s] \subseteq DOMAIN newOwner[s] \cup DOMAIN O
           /\ DOMAIN newRules'[s] \subseteq DOMAIN newRules[s] \cup DOMAIN R
<1>1. CASE inTxn[s]
  <2>1. newCompanies' = [newCompanies EXCEPT ![s] = @ \cup C]
    BY <1>1 DEF Write
  <2>2. newOwner'[s] = Over(O, newOwner[s]) /\ newRules'[s] = Over(R, newRules[s])
    BY <1>1, WriteHeld
  <2>3. QED
    BY <2>1, <2>2 DEF WritesOK, Over
<1>2. CASE ~inTxn[s]
  BY <1>2 DEF Write, writes
<1>3. QED
  BY <1>1, <1>2

\* The companies written by one save are nothing to another.
LEMMA CompaniesOthers ==
    ASSUME WritesOK, NEW s \in Savers, NEW t \in Savers, s # t, Statement(s)
    PROVE  newCompanies'[t] = newCompanies[t]
<1>1. \/ \E C, O, R : Write(s, C, O, R)
      \/ DropWrites({s})
      \/ UNCHANGED writes
  BY DEF Statement, SaveCompany, Find, Delete, DeleteFails, Deadlock, SaveCategory,
         SaveRule, SaveKeywords, Commit, Reject
<1>2. CASE \E C, O, R : Write(s, C, O, R)
  <2>1. \/ \E C : newCompanies' = [newCompanies EXCEPT ![s] = @ \cup C]
        \/ newCompanies' = newCompanies
    BY <1>2 DEF Write, writes
  <2>2. QED
    BY <2>1 DEF WritesOK
<1>3. CASE DropWrites({s})
  BY <1>3 DEF DropWrites
<1>4. CASE UNCHANGED writes
  BY <1>4 DEF writes
<1>5. QED
  BY <1>1, <1>2, <1>3, <1>4

\* Going on, and writing rows of the companies come to, reaches no other company.
LEMMA GoReached ==
    ASSUME PlaceOK, PlaceOK', NEW h, NEW s \in Savers, Reached(h, s),
           CompaniesTo(s) <= CompaniesTo(s)', RowsTo(s) <= RowsTo(s)',
           newCompanies'[s] \subseteq newCompanies[s] \cup UpTo(s, CompaniesTo(s)'),
           DOMAIN newRules'[s] \subseteq DOMAIN newRules[s] \cup UpTo(s, RowsTo(s)'),
           \A k \in DOMAIN newOwner'[s] : k \in DOMAIN newOwner[s] \/ h[k] \in UpTo(s, RowsTo(s)')
    PROVE  Reached(h, s)'
<1>1. entry[s] \in Nat \ {0} /\ entry'[s] \in Nat \ {0}
  BY FileFacts DEF PlaceOK
<1>2. /\ CompaniesTo(s) \in Nat /\ CompaniesTo(s)' \in Nat
      /\ RowsTo(s) \in Nat /\ RowsTo(s)' \in Nat
  BY <1>1 DEF CompaniesTo, RowsTo
<1>3. \A i, m \in Nat : i <= m => UpTo(s, i) \subseteq UpTo(s, m)
  BY DEF UpTo
<1>4. /\ UpTo(s, CompaniesTo(s)) \subseteq UpTo(s, CompaniesTo(s)')
      /\ UpTo(s, RowsTo(s)) \subseteq UpTo(s, RowsTo(s)')
  BY <1>2, <1>3
<1>5. /\ newCompanies'[s] \subseteq UpTo(s, CompaniesTo(s)')
      /\ DOMAIN newRules'[s] \subseteq UpTo(s, RowsTo(s)')
      /\ \A k \in DOMAIN newOwner'[s] : h[k] \in UpTo(s, RowsTo(s)')
  BY <1>4 DEF Reached
<1>6. QED
  BY <1>5 DEF Reached, UpTo

\* The statements of a save, with its transaction or without.
LEMMA StatementReached ==
    ASSUME NEW h, HomeOf(h), OrderInv(h), NEW s \in Savers, Statement(s), HomeInv(h)'
    PROVE  Reached(h, s)'
<1>1. Typed /\ PlaceOK /\ PlaceOK' /\ WritesOK /\ Reached(h, s) /\ HomeInv(h)
  BY DEF OrderInv, HomeInv, IInv, Typed
<1>2. /\ entry[s] \in 1 .. Len(File[s]) /\ entry[s] \in Nat
      /\ Company(s) \in UpTo(s, entry[s])
      /\ h[Cat(s)] = Company(s)
  <2>1. entry[s] \in 1 .. Len(File[s]) /\ entry[s] \in Nat /\ Len(File[s]) \in Nat
    BY <1>1, FileFacts DEF PlaceOK
  <2>2. Company(s) \in UpTo(s, entry[s])
    BY <2>1 DEF UpTo, Company
  <2>3. h[Cat(s)] = Company(s)
    <3>1. item[s] \in 1 .. Len(File[s][entry[s]].cats)
      BY <1>1 DEF PlaceOK
    <3>2. QED
      BY <2>1, <3>1 DEF HomeOf, Cat, Company
  <2>4. QED
    BY <2>1, <2>2, <2>3
<1>3. DOMAIN Nothing = {} /\ \A k, v : DOMAIN At(k, v) = {k}
  BY DEF Nothing, At
<1>4. CASE Commit(s) \/ Reject(s) \/ Deadlock(s)
  <2>1. newCompanies'[s] = {} /\ DOMAIN newOwner'[s] = {} /\ DOMAIN newRules'[s] = {}
    BY <1>3, <1>4 DEF Commit, Reject, Deadlock, DropWrites
  <2>2. QED
    BY <2>1 DEF Reached
<1>5. CASE SaveCompany(s)
  <2>1. /\ pc[s] = "company" /\ pc'[s] = "find" /\ entry'[s] = entry[s]
        /\ Write(s, {Company(s)} \ CompaniesSeen(s), Nothing, Nothing)
    BY <1>1, <1>5 DEF SaveCompany, Goto, PlaceOK
  <2>2. /\ newCompanies'[s] \subseteq newCompanies[s] \cup {Company(s)}
        /\ DOMAIN newOwner'[s] \subseteq DOMAIN newOwner[s]
        /\ DOMAIN newRules'[s] \subseteq DOMAIN newRules[s]
    <3>1. /\ newCompanies'[s] \subseteq newCompanies[s] \cup ({Company(s)} \ CompaniesSeen(s))
          /\ DOMAIN newOwner'[s] \subseteq DOMAIN newOwner[s] \cup DOMAIN Nothing
          /\ DOMAIN newRules'[s] \subseteq DOMAIN newRules[s] \cup DOMAIN Nothing
      BY <1>1, <2>1, WriteAdds
    <3>2. QED
      BY <1>3, <3>1
  <2>3. /\ CompaniesTo(s)' = entry[s] /\ CompaniesTo(s) = entry[s] - 1
        /\ RowsTo(s)' = entry[s] - 1 /\ RowsTo(s) = entry[s] - 1
    BY <2>1 DEF CompaniesTo, RowsTo
  <2>4. QED
    BY <1>1, <1>2, <2>2, <2>3, GoReached
<1>6. CASE Find(s) \/ DeleteFails(s)
  <2>1. /\ pc[s] \in {"find", "delete"} /\ pc'[s] \in {"delete", "category"} /\ entry'[s] = entry[s]
        /\ UNCHANGED <<newCompanies, newOwner, newRules>>
    BY <1>1, <1>6 DEF Find, DeleteFails, Goto, PlaceOK, writes
  <2>2. /\ CompaniesTo(s)' = entry[s] /\ CompaniesTo(s) = entry[s]
        /\ RowsTo(s)' \in {entry[s] - 1, entry[s]} /\ RowsTo(s) = entry[s] - 1
    BY <2>1 DEF CompaniesTo, RowsTo
  <2>3. QED
    BY <1>1, <1>2, <2>1, <2>2, GoReached
<1>7. CASE Delete(s)
  <2>1. PICK O, R : /\ Write(s, {}, O, R)
                    /\ DOMAIN O \subseteq OwnedCats(s) /\ DOMAIN R = {Company(s)}
    <3>1. PICK O, S : Write(s, {}, O, At(Company(s), S)) /\ DOMAIN O \subseteq OwnedCats(s)
      BY <1>3, <1>7 DEF Delete
    <3>2. QED
      BY <1>3, <3>1
  <2>2. /\ pc[s] = "delete" /\ pc'[s] = "category" /\ entry'[s] = entry[s]
    BY <1>1, <1>7 DEF Delete, Goto, PlaceOK
  <2>3. \A k \in OwnedCats(s) : h[k] = Company(s)
    <3>1. Needs(s) = {<<"rules", Company(s)>>} \cup ({"category"} \X OwnedCats(s))
      BY <2>2 DEF Needs
    <3>2. ASSUME NEW k \in OwnedCats(s)
          PROVE  h[k] = Company(s)
      <4>1. <<"category", k>> \in Needs(s)
        BY <3>1
      <4>2. RowOf(h, <<"category", k>>) = Company(s)
        BY <1>1, <4>1, NeedsOfCompany
      <4>3. QED
        BY <4>2 DEF RowOf
    <3>3. QED
      BY <3>2
  <2>4. /\ newCompanies'[s] \subseteq newCompanies[s]
        /\ DOMAIN newOwner'[s] \subseteq DOMAIN newOwner[s] \cup OwnedCats(s)
        /\ DOMAIN newRules'[s] \subseteq DOMAIN newRules[s] \cup {Company(s)}
    <3>1. /\ newCompanies'[s] \subseteq newCompanies[s]
          /\ DOMAIN newOwner'[s] \subseteq DOMAIN newOwner[s] \cup DOMAIN O
          /\ DOMAIN newRules'[s] \subseteq DOMAIN newRules[s] \cup DOMAIN R
      <4>1. WritesOK
        BY <1>1
      <4>2. PICK C : C = {} /\ Write(s, C, O, R)
        BY <2>1
      <4>3. Write(s, C, O, R)
        BY <4>2
      <4>4. /\ newCompanies'[s] \subseteq newCompanies[s] \cup C
            /\ DOMAIN newOwner'[s] \subseteq DOMAIN newOwner[s] \cup DOMAIN O
            /\ DOMAIN newRules'[s] \subseteq DOMAIN newRules[s] \cup DOMAIN R
        BY <4>1, <4>3, WriteAdds
      <4>5. QED
        BY <4>2, <4>4
    <3>2. QED
      BY <1>3, <2>1, <3>1
  <2>5. /\ CompaniesTo(s)' = entry[s] /\ CompaniesTo(s) = entry[s]
        /\ RowsTo(s)' = entry[s] /\ RowsTo(s) = entry[s] - 1
    BY <2>2 DEF CompaniesTo, RowsTo
  <2>6. QED
    BY <1>1, <1>2, <2>3, <2>4, <2>5, GoReached
<1>8. CASE SaveCategory(s)
  <2>1. /\ pc[s] = "category" /\ pc'[s] = "rule" /\ entry'[s] = entry[s]
        /\ Write(s, {}, At(Cat(s), Company(s)), Nothing)
    BY <1>1, <1>8 DEF SaveCategory, Goto, PlaceOK
  <2>2. /\ newCompanies'[s] \subseteq newCompanies[s]
        /\ DOMAIN newOwner'[s] \subseteq DOMAIN newOwner[s] \cup {Cat(s)}
        /\ DOMAIN newRules'[s] \subseteq DOMAIN newRules[s]
    <3>1. /\ newCompanies'[s] \subseteq newCompanies[s] \cup {}
          /\ DOMAIN newOwner'[s] \subseteq DOMAIN newOwner[s] \cup DOMAIN At(Cat(s), Company(s))
          /\ DOMAIN newRules'[s] \subseteq DOMAIN newRules[s] \cup DOMAIN Nothing
      BY <1>1, <2>1, WriteAdds
    <3>2. QED
      BY <1>3, <3>1
  <2>3. /\ CompaniesTo(s)' = entry[s] /\ CompaniesTo(s) = entry[s]
        /\ RowsTo(s)' = entry[s] /\ RowsTo(s) = entry[s]
    BY <2>1 DEF CompaniesTo, RowsTo
  <2>4. QED
    BY <1>1, <1>2, <2>2, <2>3, GoReached
<1>9. CASE SaveRule(s) \/ SaveKeywords(s)
  <2>1. PICK R : Write(s, {}, Nothing, R) /\ DOMAIN R = {Company(s)}
    BY <1>3, <1>9 DEF SaveRule, SaveKeywords
  <2>2. /\ newCompanies'[s] \subseteq newCompanies[s]
        /\ DOMAIN newOwner'[s] \subseteq DOMAIN newOwner[s]
        /\ DOMAIN newRules'[s] \subseteq DOMAIN newRules[s] \cup {Company(s)}
    <3>1. /\ newCompanies'[s] \subseteq newCompanies[s] \cup {}
          /\ DOMAIN newOwner'[s] \subseteq DOMAIN newOwner[s] \cup DOMAIN Nothing
          /\ DOMAIN newRules'[s] \subseteq DOMAIN newRules[s] \cup DOMAIN R
      BY <1>1, <2>1, WriteAdds
    <3>2. QED
      BY <1>3, <2>1, <3>1
  <2>3. /\ CompaniesTo(s)' = entry[s] /\ CompaniesTo(s) = entry[s]
        /\ RowsTo(s)' = entry[s] /\ RowsTo(s) = entry[s]
    <3>1. pc[s] \in {"rule", "keywords"}
      BY <1>9 DEF SaveRule, SaveKeywords
    <3>2. \/ pc'[s] \in {"keywords", "category", "commit"} /\ entry'[s] = entry[s]
          \/ pc'[s] = "company" /\ entry'[s] = entry[s] + 1
      BY <1>1, <1>9 DEF SaveRule, SaveKeywords, Advance, Goto, PlaceOK
    <3>3. QED
      BY <1>2, <3>1, <3>2 DEF CompaniesTo, RowsTo
  <2>4. QED
    BY <1>1, <1>2, <2>2, <2>3, GoReached
<1>10. QED
  BY <1>4, <1>5, <1>6, <1>7, <1>8, <1>9 DEF Statement

LEMMA OrderInit == ASSUME NEW h, HomeOf(h) PROVE Init => OrderInv(h)
<1> SUFFICES ASSUME Init PROVE OrderInv(h)
  OBVIOUS
<1>1. HomeInv(h)
  BY HomeInit
<1>2. \A s \in Savers : Reached(h, s)
  BY DEF Init, Reached, Nothing
<1>3. QED
  BY <1>1, <1>2 DEF OrderInv

LEMMA OrderStep == ASSUME NEW h, HomeOf(h) PROVE OrderInv(h) /\ [Next]_vars => OrderInv(h)'
<1> SUFFICES ASSUME OrderInv(h), [Next]_vars PROVE OrderInv(h)'
  OBVIOUS
<1>1. HomeInv(h) /\ HomeInv(h)' /\ Typed /\ PlaceOK /\ WritesOK
  BY HomeStep DEF OrderInv, HomeInv, IInv, Typed
<1>2. ASSUME NEW t \in Savers, UNCHANGED <<newCompanies[t], newOwner[t], newRules[t], entry[t]>>,
             pc'[t] = pc[t] \/ (pc[t] = "idle" /\ pc'[t] = "company")
      PROVE  Reached(h, t)'
  <2>1. Reached(h, t)
    BY DEF OrderInv
  <2>2. CompaniesTo(t)' = CompaniesTo(t) /\ RowsTo(t)' = RowsTo(t)
    BY <1>2 DEF CompaniesTo, RowsTo
  <2>3. QED
    BY <1>2, <2>1, <2>2 DEF Reached, UpTo
<1>3. CASE UNCHANGED vars
  BY <1>1, <1>2, <1>3 DEF OrderInv, vars, writes, place
<1>4. ASSUME NEW s \in Savers, Begin(s)
      PROVE  \A t \in Savers : Reached(h, t)'
  <2>1. pc[s] = "idle" /\ pc' = [pc EXCEPT ![s] = "company"] /\ UNCHANGED <<entry, writes>>
    BY <1>4 DEF Begin, Goto
  <2>2. QED
    BY <1>1, <1>2, <2>1 DEF writes, PlaceOK
<1>5. ASSUME NEW s \in Savers, Statement(s)
      PROVE  \A t \in Savers : Reached(h, t)'
  <2>1. Reached(h, s)'
    BY <1>1, <1>5, StatementReached
  <2>2. ASSUME NEW t \in Savers, t # s
        PROVE  Reached(h, t)'
    <3>1. Same(t) /\ newCompanies'[t] = newCompanies[t]
      BY <1>1, <1>5, <2>2, StatementOthers, CompaniesOthers
    <3>2. QED
      BY <1>2, <3>1 DEF Same
  <2>3. QED
    BY <2>1, <2>2
<1>6. CASE Crash
  <2>1. DropWrites(Savers)
    BY <1>6 DEF Crash
  <2>2. \A t \in Savers : newCompanies'[t] = {} /\ DOMAIN newOwner'[t] = {} /\ DOMAIN newRules'[t] = {}
    BY <2>1 DEF DropWrites, Nothing
  <2>3. \A t \in Savers : Reached(h, t)'
    BY <2>2 DEF Reached
  <2>4. QED
    BY <1>1, <2>3 DEF OrderInv
<1>7. QED
  BY <1>1, <1>3, <1>4, <1>5, <1>6 DEF Next, OrderInv

\* With files in a common order, no interleaving of any number of saves, failures, crashes
\* and deadlocks closes a ring of row locks around a save at its deletions, where the catch
\* would hide the loss of its transaction.  It is the rows alone that the order protects:
\* where gap locks count (GapLocks), Deadlock needs no such ring.
THEOREM OrderPreventsRowRings ==
    ASSUME NEW h, HomeOf(h), NEW rank, InOrder(rank)
    PROVE  Spec => []NoRowRing
<1>1. Init => OrderInv(h)
  BY OrderInit
<1>2. OrderInv(h) /\ [Next]_vars => OrderInv(h)'
  BY OrderStep
<1>3. OrderInv(h) => NoRowRing
  BY NoRing DEF NoRowRing
<1>4. QED
  BY <1>1, <1>2, <1>3, PTL DEF Spec
=============================================================================
