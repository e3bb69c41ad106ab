---------------------------- MODULE RuleStoreProofs ----------------------------
(***************************************************************************)
(* What concurrent saves of rules leave in the tables, for any number of   *)
(* saves, any files, companies and size of the pool.                       *)
(***************************************************************************)
EXTENDS RuleStore, TLAPS

Owners == Companies \cup {NoOwner}

TablesOK ==
    /\ companies \subseteq Companies
    /\ owner \in [Cats -> Owners]
    /\ rules \in [Companies -> SUBSET Rule]

PlaceOK ==
    /\ pc \in [Savers -> {"idle", "company", "find", "delete", "category", "rule", "keywords",
                           "commit", "saved", "rejected"}]
    /\ entry \in [Savers -> Nat] /\ \A s \in Savers : entry[s] \in 1 .. Len(File[s])
    /\ item \in [Savers -> Nat] /\ \A s \in Savers : item[s] \in 1 .. Len(File[s][entry[s]].cats)
    /\ found \in [Savers -> SUBSET ((Savers \cup {Seed}) \X Nat \X Cats)]

WritesOK ==
    /\ newCompanies \in [Savers -> SUBSET Companies]
    /\ newOwner = [s \in Savers |-> newOwner[s]]
    /\ \A s \in Savers : IsWrite(newOwner[s], Cats, Owners)
    /\ newRules = [s \in Savers |-> newRules[s]]
    /\ \A s \in Savers : IsWrite(newRules[s], Companies, SUBSET Rule)

Typed ==
    /\ TablesOK /\ PlaceOK /\ WritesOK
    /\ inTxn \in [Savers -> BOOLEAN] /\ disturbed \in [Savers -> BOOLEAN]

\* The author of a rule has nothing to roll back any more.
Done(b) == b = Seed \/ (b \in Savers /\ (pc[b] = "saved" \/ ~inTxn[b]))

\* A save adds only rules of its own to those it found committed.
Pending(s) == \A c \in DOMAIN newRules[s] : \A r \in newRules[s][c] : r.by = s \/ Done(r.by)

\* What the lookup on the other connection finds was not inserted by the same save.
FoundOthers(s) == inTxn[s] => \A id \in found[s] : id[1] # s

IInv == Typed /\ OnlySavedVisible /\ \A s \in Savers : Pending(s) /\ FoundOthers(s)

\* A file has entries, and each of them a company and categories.
LEMMA FileFacts ==
    ASSUME NEW s \in Savers
    PROVE  /\ Len(File[s]) \in Nat \ {0}
           /\ \A i \in 1 .. Len(File[s]) :
                 /\ File[s][i].company \in Companies
                 /\ Len(File[s][i].cats) \in Nat \ {0}
                 /\ \A j \in 1 .. Len(File[s][i].cats) : File[s][i].cats[j] \in Cats
<1>1. File[s] \in Seq([company : Companies, cats : Seq(Cats) \ {<<>>}]) /\ File[s] # <<>>
  BY FileAssumption
<1>2. ASSUME NEW i \in 1 .. Len(File[s])
      PROVE  /\ File[s][i].company \in Companies
             /\ File[s][i].cats \in Seq(Cats) /\ File[s][i].cats # <<>>
  <2> DEFINE Entry == [company : Companies, cats : Seq(Cats) \ {<<>>}]
  <2>1. File[s] \in Seq(Entry)
    BY <1>1
  <2> HIDE DEF Entry
  <2>2. File[s][i] \in Entry
    BY <1>2, <2>1
  <2>3. QED
    BY <2>2 DEF Entry
<1>3. \A c \in Seq(Cats) : c # <<>> => Len(c) \in Nat \ {0} /\ \A j \in 1 .. Len(c) : c[j] \in Cats
  OBVIOUS
<1>4. Len(File[s]) \in Nat \ {0}
  BY <1>1
<1>5. QED
  BY <1>2, <1>3, <1>4

\* The place a save is at.
LEMMA PlaceFacts ==
    ASSUME PlaceOK, NEW s \in Savers
    PROVE  Company(s) \in Companies /\ Cat(s) \in Cats /\ entry[s] \in Nat /\ item[s] \in Nat
BY FileFacts DEF PlaceOK, Company, Cat

\* What a save sees has the types of the tables.
LEMMA SeenType ==
    ASSUME TablesOK, WritesOK, NEW s \in Savers
    PROVE  OwnerSeen(s) \in [Cats -> Owners] /\ RulesSeen(s) \in [Companies -> SUBSET Rule]
<1>1. IsWrite(newOwner[s], Cats, Owners) /\ IsWrite(newRules[s], Companies, SUBSET Rule)
  BY DEF WritesOK
<1>2. QED
  BY <1>1 DEF TablesOK, OwnerSeen, RulesSeen, Over, IsWrite

\* A write of the right types keeps the types, inside a transaction or without one.
LEMMA WriteTyped ==
    ASSUME TablesOK, WritesOK, NEW s \in Savers, NEW C \in SUBSET Companies, NEW O, NEW R,
           IsWrite(O, Cats, Owners), IsWrite(R, Companies, SUBSET Rule), Write(s, C, O, R)
    PROVE  TablesOK' /\ WritesOK'
<1>1. CASE inTxn[s]
  <2>1. /\ newCompanies' = [newCompanies EXCEPT ![s] = @ \cup C]
        /\ newOwner' = [newOwner EXCEPT ![s] = Over(O, @)]
        /\ newRules' = [newRules EXCEPT ![s] = Over(R, @)]
        /\ UNCHANGED <<companies, owner, rules>>
    BY <1>1 DEF Write, tables
  <2>2. TablesOK'
    BY <2>1 DEF TablesOK
  <2>3. /\ IsWrite(Over(O, newOwner[s]), Cats, Owners)
        /\ IsWrite(Over(R, newRules[s]), Companies, SUBSET Rule)
    <3>1. IsWrite(newOwner[s], Cats, Owners) /\ IsWrite(newRules[s], Companies, SUBSET Rule)
      BY DEF WritesOK
    <3>2. QED
      BY <3>1 DEF Over, IsWrite
  <2>4. newCompanies' \in [Savers -> SUBSET Companies]
    BY <2>1 DEF WritesOK
  <2>5. /\ newOwner' = [q \in Savers |-> newOwner'[q]]
        /\ newOwner'[s] = Over(O, newOwner[s])
        /\ \A q \in Savers \ {s} : newOwner'[q] = newOwner[q]
    BY <2>1 DEF WritesOK
  <2>6. /\ newRules' = [q \in Savers |-> newRules'[q]]
        /\ newRules'[s] = Over(R, newRules[s])
        /\ \A q \in Savers \ {s} : newRules'[q] = newRules[q]
    BY <2>1 DEF WritesOK
  <2>7. ASSUME NEW q \in Savers
        PROVE  /\ IsWrite(newOwner'[q], Cats, Owners)
               /\ IsWrite(newRules'[q], Companies, SUBSET Rule)
    <3>1. CASE q = s
      BY <2>3, <2>5, <2>6, <3>1
    <3>2. CASE q # s
      BY <2>5, <2>6, <3>2 DEF WritesOK
    <3>3. QED
      BY <3>1, <3>2
  <2>8. WritesOK'
    BY <2>4, <2>5, <2>6, <2>7 DEF WritesOK, IsWrite
  <2>9. QED
    BY <2>2, <2>8
<1>2. CASE ~inTxn[s]
  <2>1. /\ companies' = companies \cup C /\ owner' = Over(O, owner) /\ rules' = Over(R, rules)
        /\ UNCHANGED <<newCompanies, newOwner, newRules>>
    BY <1>2 DEF Write, writes
  <2>2. TablesOK'
    BY <2>1 DEF TablesOK, Over, IsWrite
  <2>3. WritesOK'
    BY <2>1 DEF WritesOK, IsWrite
  <2>4. QED
    BY <2>2, <2>3
<1>3. QED
  BY <1>1, <1>2

\* So does the end of transactions.
LEMMA DropTyped ==
    ASSUME WritesOK, NEW S, DropWrites(S)
    PROVE  WritesOK'
BY DEF DropWrites, WritesOK, IsWrite, Nothing

\* The authors of the rules in the tables.
LEMMA Authors ==
    ASSUME IInv
    PROVE  \A c \in Companies : \A r \in rules[c] : Done(r.by)
BY DEF IInv, Typed, TablesOK, Rule, OnlySavedVisible, Done

\* The rules that a write leaves, and their authors.
LEMMA WriteAuthors ==
    ASSUME IInv, NEW s \in Savers, NEW C, NEW O, NEW R, Write(s, C, O, R),
           inTxn' = inTxn, \A b : Done(b) => Done(b)',
           \A c \in DOMAIN R : \A r \in R[c] : r.by = s \/ Done(r.by)
    PROVE  OnlySavedVisible' /\ \A q \in Savers : Pending(q)'
<1>1. CASE inTxn[s]
  <2>1. /\ newRules' = [newRules EXCEPT ![s] = Over(R, @)] /\ rules' = rules
    BY <1>1 DEF Write, tables
  <2>2. \A q \in Savers : newRules'[q] = IF q = s THEN Over(R, newRules[s]) ELSE newRules[q]
    BY <2>1 DEF IInv, Typed, WritesOK
  <2>3. OnlySavedVisible'
    <3>1. \A c \in Companies : \A r \in rules'[c] : Done(r.by)'
      BY <2>1, Authors
    <3>2. QED
      BY <3>1 DEF OnlySavedVisible, Done
  <2>4. ASSUME NEW q \in Savers
        PROVE  Pending(q)'
    BY <2>2 DEF IInv, Pending, Over
  <2>5. QED
    BY <2>3, <2>4
<1>2. CASE ~inTxn[s]
  <2>1. rules' = Over(R, rules) /\ newRules' = newRules
    BY <1>2 DEF Write, writes
  <2>2. OnlySavedVisible'
    <3>1. \A c \in Companies : rules'[c] = IF c \in DOMAIN R THEN R[c] ELSE rules[c]
      BY <2>1 DEF IInv, Typed, TablesOK, Over
    <3>2. \A c \in Companies : \A r \in rules[c] : Done(r.by)
      BY Authors
    <3>3. Done(s)
      BY <1>2 DEF Done
    <3>4. \A c \in Companies : \A r \in rules'[c] : Done(r.by)
      BY <3>1, <3>2, <3>3
    <3>5. \A c \in Companies : \A r \in rules'[c] : Done(r.by)'
      BY <3>4
    <3>6. QED
      BY <3>5 DEF OnlySavedVisible, Done
  <2>3. \A q \in Savers : Pending(q)'
    BY <2>1 DEF IInv, Pending
  <2>4. QED
    BY <2>2, <2>3
<1>3. QED
  BY <1>1, <1>2

\* Before the first save.
LEMMA IInvInit == Init => IInv
<1> SUFFICES ASSUME Init PROVE IInv
  OBVIOUS
<1>1. TablesOK
  <2>1. companies \subseteq Companies /\ owner \in [Cats -> Owners]
    BY OwnerAssumption DEF Init, Owners
  <2>2. \A k \in Cats : [by |-> Seed, entry |-> 0, cat |-> k, kw |-> TRUE] \in Rule
    BY DEF Rule
  <2>3. rules \in [Companies -> SUBSET Rule]
    BY <2>2 DEF Init
  <2>4. QED
    BY <2>1, <2>3 DEF TablesOK
<1>2. PlaceOK
  <2>1. ASSUME NEW s \in Savers
        PROVE  1 \in 1 .. Len(File[s]) /\ 1 \in 1 .. Len(File[s][1].cats)
    <3>1. 1 \in 1 .. Len(File[s])
      BY FileFacts
    <3>2. Len(File[s][1].cats) \in Nat \ {0}
      BY <3>1, FileFacts
    <3>3. QED
      BY <3>1, <3>2
  <2>2. QED
    BY <2>1 DEF Init, PlaceOK
<1>3. WritesOK
  BY DEF Init, WritesOK, IsWrite, Nothing
<1>4. inTxn \in [Savers -> BOOLEAN] /\ disturbed \in [Savers -> BOOLEAN]
  BY DEF Init
<1>5. OnlySavedVisible
  BY DEF Init, OnlySavedVisible
<1>6. \A s \in Savers : Pending(s) /\ FoundOthers(s)
  BY DEF Init, Pending, FoundOthers, Nothing
<1>7. QED
  BY <1>1, <1>2, <1>3, <1>4, <1>5, <1>6 DEF IInv, Typed

\* A statement that writes and leaves the lookup and the transaction as they are.
LEMMA WriteKeeps ==
    ASSUME IInv, NEW s \in Savers, NEW C \in SUBSET Companies, NEW O, NEW R,
           IsWrite(O, Cats, Owners), IsWrite(R, Companies, SUBSET Rule), Write(s, C, O, R),
           \A c \in DOMAIN R : \A r \in R[c] : r.by = s \/ Done(r.by),
           UNCHANGED <<found, inTxn, disturbed>>, PlaceOK',
           \A q \in Savers : pc[q] = "saved" => pc'[q] = "saved"
    PROVE  IInv'
<1>1. \A b : Done(b) => Done(b)'
  BY DEF Done
<1>2. OnlySavedVisible' /\ \A q \in Savers : Pending(q)'
  BY <1>1, WriteAuthors
<1>3. TablesOK' /\ WritesOK'
  BY WriteTyped DEF IInv, Typed
<1>4. \A q \in Savers : FoundOthers(q)'
  BY DEF IInv, FoundOthers
<1>5. QED
  BY <1>2, <1>3, <1>4 DEF IInv, Typed

\* A step that writes nothing.
LEMMA QuietKeeps ==
    ASSUME IInv, UNCHANGED <<companies, owner, rules, newCompanies, newOwner, newRules, inTxn>>,
           disturbed' \in [Savers -> BOOLEAN], PlaceOK',
           \A q \in Savers : pc[q] = "saved" => pc'[q] = "saved",
           \A q \in Savers : FoundOthers(q)'
    PROVE  IInv'
<1>1. \A b : Done(b) => Done(b)'
  BY DEF Done
<1>2. OnlySavedVisible'
  <2>1. \A c \in Companies : \A r \in rules'[c] : Done(r.by)'
    BY <1>1, Authors
  <2>2. QED
    BY <2>1 DEF OnlySavedVisible, Done
<1>3. \A q \in Savers : Pending(q)'
  BY <1>1 DEF IInv, Pending
<1>4. TablesOK' /\ WritesOK'
  BY DEF IInv, Typed, TablesOK, WritesOK, IsWrite
<1>5. QED
  BY <1>2, <1>3, <1>4 DEF IInv, Typed

\* A step that takes back writes, and leaves the tables alone.
LEMMA DropKeeps ==
    ASSUME IInv, NEW S, DropWrites(S), UNCHANGED <<companies, owner, rules, found>>,
           inTxn' \in [Savers -> BOOLEAN], disturbed' \in [Savers -> BOOLEAN], PlaceOK',
           \A q \in Savers : pc[q] = "saved" => pc'[q] = "saved",
           \A q \in Savers : ~inTxn[q] => ~inTxn'[q]
    PROVE  IInv'
<1>1. \A b : Done(b) => Done(b)'
  BY DEF Done
<1>2. OnlySavedVisible'
  <2>1. \A c \in Companies : \A r \in rules'[c] : Done(r.by)'
    BY <1>1, Authors
  <2>2. QED
    BY <2>1 DEF OnlySavedVisible, Done
<1>3. \A q \in Savers : Pending(q)'
  BY <1>1 DEF IInv, Pending, DropWrites, Nothing
<1>4. TablesOK' /\ WritesOK'
  BY DropTyped DEF IInv, Typed, TablesOK
<1>5. \A q \in Savers : FoundOthers(q)'
  BY DEF IInv, FoundOthers
<1>6. QED
  BY <1>2, <1>3, <1>4, <1>5 DEF IInv, Typed

Labels == {"idle", "company", "find", "delete", "category", "rule", "keywords", "commit",
           "saved", "rejected"}

\* Going on to another statement keeps the place.
LEMMA GotoOK ==
    ASSUME PlaceOK, NEW s \in Savers, NEW label \in Labels, Goto(s, label),
           UNCHANGED <<entry, item, found>>
    PROVE  PlaceOK' /\ (pc[s] # "saved" => \A q \in Savers : pc[q] = "saved" => pc'[q] = "saved")
BY DEF PlaceOK, Labels, Goto

\* After the last keyword of a category, the next place is one of the file.
LEMMA AdvanceOK ==
    ASSUME PlaceOK, NEW s \in Savers, Advance(s), UNCHANGED found
    PROVE  PlaceOK' /\ (pc[s] # "saved" => \A q \in Savers : pc[q] = "saved" => pc'[q] = "saved")
<1>1. /\ entry[s] \in 1 .. Len(File[s]) /\ item[s] \in 1 .. Len(File[s][entry[s]].cats)
      /\ Len(File[s]) \in Nat /\ Len(File[s][entry[s]].cats) \in Nat
      /\ \A i \in 1 .. Len(File[s]) : 1 \in 1 .. Len(File[s][i].cats)
  <2>1. entry[s] \in 1 .. Len(File[s]) /\ item[s] \in 1 .. Len(File[s][entry[s]].cats)
    BY DEF PlaceOK
  <2>2. Len(File[s]) \in Nat /\ \A i \in 1 .. Len(File[s]) : Len(File[s][i].cats) \in Nat \ {0}
    BY FileFacts
  <2>3. \A n \in Nat \ {0} : 1 \in 1 .. n
    OBVIOUS
  <2>4. \A i \in 1 .. Len(File[s]) : 1 \in 1 .. Len(File[s][i].cats)
    BY <2>2, <2>3
  <2>5. QED
    BY <2>1, <2>2, <2>4
<1>2. CASE item[s] < Len(File[s][entry[s]].cats)
  <2>1. /\ pc' = [pc EXCEPT ![s] = "category"] /\ item' = [item EXCEPT ![s] = @ + 1] /\ entry' = entry
    BY <1>2 DEF Advance, Goto
  <2>2. item'[s] \in 1 .. Len(File[s][entry[s]].cats)
    BY <1>1, <1>2, <2>1 DEF PlaceOK
  <2>3. QED
    BY <2>1, <2>2 DEF PlaceOK
<1>3. CASE ~(item[s] < Len(File[s][entry[s]].cats)) /\ entry[s] < Len(File[s])
  <2>1. /\ pc' = [pc EXCEPT ![s] = "company"] /\ item' = [item EXCEPT ![s] = 1]
        /\ entry' = [entry EXCEPT ![s] = @ + 1]
    BY <1>3 DEF Advance, Goto
  <2>2. entry'[s] \in 1 .. Len(File[s]) /\ item'[s] = 1
    BY <1>1, <1>3, <2>1 DEF PlaceOK
  <2>3. item'[s] \in 1 .. Len(File[s][entry'[s]].cats)
    BY <1>1, <2>2
  <2>4. QED
    BY <2>1, <2>2, <2>3 DEF PlaceOK
<1>4. CASE ~(item[s] < Len(File[s][entry[s]].cats)) /\ ~(entry[s] < Len(File[s]))
  <2>1. /\ pc' = [pc EXCEPT ![s] = "commit"] /\ item' = [item EXCEPT ![s] = 1] /\ entry' = entry
    BY <1>4 DEF Advance, Goto
  <2>2. item'[s] \in 1 .. Len(File[s][entry[s]].cats)
    BY <1>1, <2>1 DEF PlaceOK
  <2>3. QED
    BY <2>1, <2>2 DEF PlaceOK
<1>5. QED
  BY <1>2, <1>3, <1>4

\* New rules of the company come from the save or from rules it saw.
LEMMA WriteOwn ==
    ASSUME IInv, NEW s \in Savers, NEW S \in SUBSET Rule,
           \A r \in S : r.by = s \/ \E q \in RulesSeen(s)[Company(s)] : r.by = q.by
    PROVE  /\ IsWrite(At(Company(s), S), Companies, SUBSET Rule)
           /\ \A c \in DOMAIN At(Company(s), S) : \A r \in At(Company(s), S)[c] : r.by = s \/ Done(r.by)
<1>1. Company(s) \in Companies
  BY PlaceFacts DEF IInv, Typed
<1>2. \A q \in RulesSeen(s)[Company(s)] : q.by = s \/ Done(q.by)
  BY <1>1, Authors DEF IInv, Typed, TablesOK, Pending, RulesSeen, Over
<1>3. DOMAIN At(Company(s), S) = {Company(s)} /\ At(Company(s), S)[Company(s)] = S
  BY DEF At
<1>4. QED
  BY <1>1, <1>2, <1>3 DEF IsWrite

\* Every statement keeps the invariant.
LEMMA StatementKeeps ==
    ASSUME IInv, NEW s \in Savers, Statement(s)
    PROVE  IInv'
<1>1. PlaceOK /\ TablesOK /\ WritesOK /\ Company(s) \in Companies /\ Cat(s) \in Cats
      /\ OwnerSeen(s) \in [Cats -> Owners] /\ RulesSeen(s) \in [Companies -> SUBSET Rule]
  BY PlaceFacts, SeenType DEF IInv, Typed
<1>2. IsWrite(Nothing, Cats, Owners) /\ IsWrite(Nothing, Companies, SUBSET Rule) /\ DOMAIN Nothing = {}
  BY DEF IsWrite, Nothing
<1>3. CASE SaveCompany(s)
  <2>1. /\ pc[s] = "company" /\ Write(s, {Company(s)} \ CompaniesSeen(s), Nothing, Nothing)
        /\ Goto(s, "find") /\ UNCHANGED <<entry, item, found, inTxn, disturbed>>
    BY <1>3 DEF SaveCompany
  <2>2. PlaceOK' /\ \A q \in Savers : pc[q] = "saved" => pc'[q] = "saved"
    BY <1>1, <2>1, GotoOK DEF Labels
  <2>3. QED
    BY <1>1, <1>2, <2>1, <2>2, WriteKeeps
<1>4. CASE Find(s)
  <2>1. /\ pc[s] = "find" /\ found' = [found EXCEPT ![s] = {Id(r) : r \in rules[Company(s)]}]
        /\ Goto(s, "delete") /\ UNCHANGED <<entry, item, inTxn, disturbed>>
        /\ UNCHANGED <<companies, owner, rules, newCompanies, newOwner, newRules>>
    BY <1>4 DEF Find, tables, writes
  <2>2. {Id(r) : r \in rules[Company(s)]} \subseteq (Savers \cup {Seed}) \X Nat \X Cats
    BY <1>1 DEF TablesOK, Rule, Id
  <2>3. PlaceOK' /\ \A q \in Savers : pc[q] = "saved" => pc'[q] = "saved"
    BY <1>1, <2>1, <2>2 DEF PlaceOK, Goto
  <2>4. ASSUME NEW q \in Savers
        PROVE  FoundOthers(q)'
    <3>1. CASE q = s
      <4>1. inTxn[s] => \A r \in rules[Company(s)] : r.by # s
        BY <1>1, <2>1, Authors, PoolAssumption DEF Done
      <4>2. found'[s] = {Id(r) : r \in rules[Company(s)]}
        BY <1>1, <2>1 DEF PlaceOK
      <4>3. QED
        BY <2>1, <3>1, <4>1, <4>2 DEF FoundOthers, Id
    <3>2. CASE q # s
      BY <1>1, <2>1, <3>2 DEF IInv, FoundOthers, PlaceOK
    <3>3. QED
      BY <3>1, <3>2
  <2>5. QED
    BY <2>1, <2>3, <2>4, QuietKeeps DEF IInv, Typed
<1>5. CASE Delete(s)
  <2> DEFINE stripped == {[r EXCEPT !.kw = @ /\ Id(r) \notin found[s]] : r \in RulesSeen(s)[Company(s)]}
             rulesGone == \A r \in stripped : ~r.kw
             unused == /\ OwnedCats(s) \cap Used = {}
                       /\ \A d \in Companies \ {Company(s)} : \A r \in RulesSeen(s)[d] : r.cat \notin OwnedCats(s)
             O == IF rulesGone /\ unused THEN [k \in OwnedCats(s) |-> NoOwner] ELSE Nothing
             S == IF rulesGone THEN {} ELSE stripped
  <2>1. /\ pc[s] = "delete" /\ Write(s, {}, O, At(Company(s), S))
        /\ Goto(s, "category") /\ UNCHANGED <<entry, item, found, inTxn, disturbed>>
    BY <1>5 DEF Delete
  <2>2. stripped \subseteq Rule /\ \A r \in stripped : \E q \in RulesSeen(s)[Company(s)] : r.by = q.by
    <3>1. ASSUME NEW q \in Rule, NEW b \in BOOLEAN
          PROVE  [q EXCEPT !.kw = b] \in Rule /\ [q EXCEPT !.kw = b].by = q.by
      BY DEF Rule
    <3>2. \A q \in RulesSeen(s)[Company(s)] : q \in Rule /\ (q.kw /\ Id(q) \notin found[s]) \in BOOLEAN
      BY <1>1 DEF Rule
    <3>3. ASSUME NEW r \in stripped
          PROVE  r \in Rule /\ \E q \in RulesSeen(s)[Company(s)] : r.by = q.by
      <4>1. PICK q \in RulesSeen(s)[Company(s)] :
               r = [q EXCEPT !.kw = q.kw /\ Id(q) \notin found[s]]
        OBVIOUS
      <4>2. q \in Rule /\ (q.kw /\ Id(q) \notin found[s]) \in BOOLEAN
        BY <3>2
      <4>3. r \in Rule /\ r.by = q.by
        BY <3>1, <4>1, <4>2
      <4>4. QED
        BY <4>3
    <3>4. QED
      BY <3>3
  <2>3. S \in SUBSET Rule /\ \A r \in S : \E q \in RulesSeen(s)[Company(s)] : r.by = q.by
    BY <2>2
  <2>4. IsWrite(O, Cats, Owners)
    BY <1>2 DEF IsWrite, OwnedCats, Owners
  <2> HIDE DEF O, S
  <2>5. PlaceOK' /\ \A q \in Savers : pc[q] = "saved" => pc'[q] = "saved"
    BY <1>1, <2>1, GotoOK DEF Labels
  <2>6. /\ IsWrite(At(Company(s), S), Companies, SUBSET Rule)
        /\ \A c \in DOMAIN At(Company(s), S) : \A r \in At(Company(s), S)[c] : r.by = s \/ Done(r.by)
    BY <2>3, WriteOwn
  <2>7. QED
    BY <2>1, <2>4, <2>5, <2>6, WriteKeeps
<1>6. CASE DeleteFails(s)
  <2>1. /\ pc[s] # "saved" /\ Goto(s, "category") /\ disturbed' = [disturbed EXCEPT ![s] = TRUE]
        /\ UNCHANGED <<entry, item, found, inTxn>>
        /\ UNCHANGED <<companies, owner, rules, newCompanies, newOwner, newRules>>
    BY <1>6 DEF DeleteFails, tables, writes
  <2>2. PlaceOK' /\ \A q \in Savers : pc[q] = "saved" => pc'[q] = "saved"
    BY <1>1, <2>1, GotoOK DEF Labels
  <2>3. disturbed' \in [Savers -> BOOLEAN] /\ \A q \in Savers : FoundOthers(q)'
    BY <2>1 DEF IInv, Typed, FoundOthers
  <2>4. QED
    BY <2>1, <2>2, <2>3, QuietKeeps
<1>7. CASE Deadlock(s)
  <2>1. /\ pc[s] # "saved" /\ Goto(s, "category") /\ DropWrites({s})
        /\ disturbed' = [disturbed EXCEPT ![s] = TRUE] /\ inTxn' = [inTxn EXCEPT ![s] = FALSE]
        /\ UNCHANGED <<companies, owner, rules, entry, item, found>>
    BY <1>7 DEF Deadlock, tables
  <2>2. PlaceOK' /\ \A q \in Savers : pc[q] = "saved" => pc'[q] = "saved"
    BY <1>1, <2>1, GotoOK DEF Labels
  <2>3. /\ disturbed' \in [Savers -> BOOLEAN] /\ inTxn' \in [Savers -> BOOLEAN]
        /\ \A q \in Savers : ~inTxn[q] => ~inTxn'[q]
    BY <2>1 DEF IInv, Typed
  <2>4. QED
    BY <2>1, <2>2, <2>3, DropKeeps
<1>8. CASE SaveCategory(s)
  <2>1. /\ pc[s] = "category" /\ Write(s, {}, At(Cat(s), Company(s)), Nothing)
        /\ Goto(s, "rule") /\ UNCHANGED <<entry, item, found, inTxn, disturbed>>
    BY <1>8 DEF SaveCategory
  <2>2. PlaceOK' /\ \A q \in Savers : pc[q] = "saved" => pc'[q] = "saved"
    BY <1>1, <2>1, GotoOK DEF Labels
  <2>3. IsWrite(At(Cat(s), Company(s)), Cats, Owners)
    BY <1>1 DEF IsWrite, At, Owners
  <2>4. QED
    BY <1>2, <2>1, <2>2, <2>3, WriteKeeps
<1>9. CASE SaveRule(s)
  <2> DEFINE S == RulesSeen(s)[Company(s)] \cup {NewRule(s)}
  <2>1. /\ pc[s] = "rule" /\ Write(s, {}, Nothing, At(Company(s), S))
        /\ Goto(s, "keywords") /\ UNCHANGED <<entry, item, found, inTxn, disturbed>>
    BY <1>9 DEF SaveRule
  <2>2. PlaceOK' /\ \A q \in Savers : pc[q] = "saved" => pc'[q] = "saved"
    BY <1>1, <2>1, GotoOK DEF Labels
  <2>3. NewRule(s) \in Rule /\ NewRule(s).by = s
    BY <1>1, PlaceFacts DEF NewRule, Rule
  <2>4. S \in SUBSET Rule /\ \A r \in S : r.by = s \/ \E q \in RulesSeen(s)[Company(s)] : r.by = q.by
    BY <1>1, <2>3
  <2> HIDE DEF S
  <2>5. /\ IsWrite(At(Company(s), S), Companies, SUBSET Rule)
        /\ \A c \in DOMAIN At(Company(s), S) : \A r \in At(Company(s), S)[c] : r.by = s \/ Done(r.by)
    BY <2>4, WriteOwn
  <2>6. QED
    BY <1>2, <2>1, <2>2, <2>5, WriteKeeps
<1>10. CASE SaveKeywords(s)
  <2> DEFINE S == (RulesSeen(s)[Company(s)] \ {NewRule(s)}) \cup {[NewRule(s) EXCEPT !.kw = TRUE]}
  <2>1. /\ pc[s] = "keywords" /\ Write(s, {}, Nothing, At(Company(s), S))
        /\ Advance(s) /\ UNCHANGED <<found, inTxn, disturbed>>
    BY <1>10 DEF SaveKeywords
  <2>2. PlaceOK' /\ \A q \in Savers : pc[q] = "saved" => pc'[q] = "saved"
    BY <1>1, <2>1, AdvanceOK
  <2>3. [NewRule(s) EXCEPT !.kw = TRUE] \in Rule /\ [NewRule(s) EXCEPT !.kw = TRUE].by = s
    BY <1>1, PlaceFacts DEF NewRule, Rule
  <2>4. S \in SUBSET Rule /\ \A r \in S : r.by = s \/ \E q \in RulesSeen(s)[Company(s)] : r.by = q.by
    BY <1>1, <2>3
  <2> HIDE DEF S
  <2>5. /\ IsWrite(At(Company(s), S), Companies, SUBSET Rule)
        /\ \A c \in DOMAIN At(Company(s), S) : \A r \in At(Company(s), S)[c] : r.by = s \/ Done(r.by)
    BY <2>4, WriteOwn
  <2>6. QED
    BY <1>2, <2>1, <2>2, <2>5, WriteKeeps
<1>11. CASE Commit(s)
  <2>1. /\ pc[s] = "commit" /\ Goto(s, "saved") /\ DropWrites({s})
        /\ companies' = companies \cup newCompanies[s]
        /\ owner' = Over(newOwner[s], owner) /\ rules' = Over(newRules[s], rules)
        /\ UNCHANGED <<entry, item, found, inTxn, disturbed>>
    BY <1>11 DEF Commit
  <2>2. PlaceOK' /\ \A q \in Savers : pc[q] = "saved" => pc'[q] = "saved"
    BY <1>1, <2>1, GotoOK DEF Labels
  <2>3. \A b : Done(b) => Done(b)'
    BY <2>1, <2>2 DEF Done
  <2>4. TablesOK'
    <3>1. /\ newCompanies[s] \subseteq Companies /\ IsWrite(newOwner[s], Cats, Owners)
          /\ IsWrite(newRules[s], Companies, SUBSET Rule)
      BY <1>1 DEF WritesOK
    <3>2. QED
      BY <1>1, <2>1, <3>1 DEF TablesOK, Over, IsWrite
  <2>5. WritesOK'
    BY <1>1, <2>1, DropTyped
  <2>6. Done(s)'
    BY <1>1, <2>1 DEF Done, Goto, PlaceOK
  <2>7. ASSUME NEW c \in Companies, NEW r \in rules'[c]
        PROVE  Done(r.by)'
    <3>1. r \in IF c \in DOMAIN newRules[s] THEN newRules[s][c] ELSE rules[c]
      BY <1>1, <2>1 DEF TablesOK, Over
    <3>2. r.by = s \/ Done(r.by)
      BY <3>1, Authors DEF IInv, Pending
    <3>3. QED
      BY <2>3, <2>6, <3>2
  <2>8. OnlySavedVisible'
    BY <2>7 DEF OnlySavedVisible, Done
  <2>9. ASSUME NEW q \in Savers
        PROVE  Pending(q)' /\ FoundOthers(q)'
    BY <2>1, <2>3 DEF IInv, Pending, FoundOthers, DropWrites, Nothing
  <2>10. QED
    BY <2>1, <2>2, <2>4, <2>5, <2>8, <2>9 DEF IInv, Typed
<1>12. CASE Reject(s)
  <2>1. /\ pc[s] # "saved" /\ Goto(s, "rejected") /\ DropWrites({s})
        /\ UNCHANGED <<companies, owner, rules, entry, item, found, inTxn, disturbed>>
    BY <1>12 DEF Reject, tables
  <2>2. PlaceOK' /\ \A q \in Savers : pc[q] = "saved" => pc'[q] = "saved"
    BY <1>1, <2>1, GotoOK DEF Labels
  <2>3. /\ disturbed' \in [Savers -> BOOLEAN] /\ inTxn' \in [Savers -> BOOLEAN]
        /\ \A q \in Savers : ~inTxn[q] => ~inTxn'[q]
    BY <2>1 DEF IInv, Typed
  <2>4. QED
    BY <2>1, <2>2, <2>3, DropKeeps
<1>13. QED
  BY <1>3, <1>4, <1>5, <1>6, <1>7, <1>8, <1>9, <1>10, <1>11, <1>12 DEF Statement

\* And so does every step.
LEMMA IInvStep == IInv /\ [Next]_vars => IInv'
<1> SUFFICES ASSUME IInv, [Next]_vars PROVE IInv'
  OBVIOUS
<1>1. PlaceOK
  BY DEF IInv, Typed
<1>2. ASSUME NEW s \in Savers, Begin(s)
      PROVE  IInv'
  <2>1. /\ pc[s] # "saved" /\ Goto(s, "company")
        /\ UNCHANGED <<companies, owner, rules, newCompanies, newOwner, newRules, entry, item, found, inTxn>>
    BY <1>2 DEF Begin, tables, writes
  <2>2. PlaceOK' /\ \A q \in Savers : pc[q] = "saved" => pc'[q] = "saved"
    BY <1>1, <2>1, GotoOK DEF Labels
  <2>3. disturbed' \in [Savers -> BOOLEAN]
    <3>1. PICK marks \in [Savers -> BOOLEAN] :
             disturbed' = [t \in Savers |-> disturbed[t] \/ marks[t]]
      <4> DEFINE others == {t \in Savers : Active(t)}
      <4>1. disturbed' = [t \in Savers |-> disturbed[t] \/ (others # {} /\ t \in others \cup {s})]
        BY <1>2 DEF Begin
      <4>2. WITNESS [t \in Savers |-> others # {} /\ t \in others \cup {s}] \in [Savers -> BOOLEAN]
      <4>3. QED
        BY <4>1
    <3>2. QED
      BY <3>1 DEF IInv, Typed
  <2>4. \A q \in Savers : FoundOthers(q)'
    BY <2>1 DEF IInv, FoundOthers
  <2>5. QED
    BY <2>1, <2>2, <2>3, <2>4, QuietKeeps
<1>3. CASE Crash
  <2>1. /\ pc' = [s \in Savers |-> IF Active(s) THEN "rejected" ELSE pc[s]] /\ DropWrites(Savers)
        /\ UNCHANGED <<companies, owner, rules, entry, item, found, inTxn, disturbed>>
    BY <1>3 DEF Crash, tables
  <2>2. PlaceOK' /\ \A q \in Savers : pc[q] = "saved" => pc'[q] = "saved"
    BY <1>1, <2>1 DEF PlaceOK, Active
  <2>3. /\ disturbed' \in [Savers -> BOOLEAN] /\ inTxn' \in [Savers -> BOOLEAN]
        /\ \A q \in Savers : ~inTxn[q] => ~inTxn'[q]
    BY <2>1 DEF IInv, Typed
  <2>4. QED
    BY <2>1, <2>2, <2>3, DropKeeps
<1>4. CASE UNCHANGED vars
  <2>1. UNCHANGED <<companies, owner, rules, pc, entry, item, found, inTxn, newCompanies, newOwner, newRules, disturbed>>
    BY <1>4 DEF vars, tables, place, writes
  <2>2. PlaceOK' /\ disturbed' \in [Savers -> BOOLEAN] /\ \A q \in Savers : FoundOthers(q)'
    BY <1>1, <2>1 DEF IInv, Typed, FoundOthers, PlaceOK
  <2>3. QED
    BY <2>1, <2>2, QuietKeeps
<1>5. QED
  BY <1>2, <1>3, <1>4, StatementKeeps DEF Next

\* The invariant holds in every behaviour.
LEMMA Inductive == Spec => []IInv
BY IInvInit, IInvStep, PTL DEF Spec

\* Every variable keeps its type.
THEOREM TypeCorrect == Spec => []TypeOK
<1>1. IInv => TypeOK
  BY DEF IInv, Typed, TablesOK, PlaceOK, WritesOK, TypeOK, Owners
<1>2. QED
  BY <1>1, Inductive, PTL

\* A rule in the tables was there at the start, or was written by a save that
\* has committed or has lost its transaction.
THEOREM OnlySaved == Spec => []OnlySavedVisible
<1>1. IInv => OnlySavedVisible
  BY DEF IInv
<1>2. QED
  BY <1>1, Inductive, PTL

-----------------------------------------------------------------------------
(***************************************************************************)
(* A commit leaves the whole file in the tables.  Along the way, the       *)
(* transaction holds what the places behind it wrote: the category with    *)
(* its company and the rule with its keywords.  A later entry of the same  *)
(* company cannot delete them again: the lookup of its deletion does not   *)
(* find the rules of its own transaction, so they keep their keywords, and *)
(* these keep the rules and the categories.                                *)
(***************************************************************************)

\* Within a file, a category id belongs to one company.
OneCompany ==
    \A s \in Savers : \A i, m \in 1 .. Len(File[s]) :
        \A j \in 1 .. Len(File[s][i].cats), n \in 1 .. Len(File[s][m].cats) :
            File[s][i].cats[j] = File[s][m].cats[n] => File[s][i].company = File[s][m].company

Stored(s, i, j) == [by |-> s, entry |-> i, cat |-> File[s][i].cats[j], kw |-> TRUE]

\* The transaction of s holds the rule of place (i, j), and its category.
Held(s, i, j) ==
    /\ OneCompany => /\ File[s][i].cats[j] \in DOMAIN newOwner[s]
                     /\ newOwner[s][File[s][i].cats[j]] = File[s][i].company
    /\ File[s][i].company \in DOMAIN newRules[s]
    /\ Stored(s, i, j) \in newRules[s][File[s][i].company]

Behind(s, i, j) == pc[s] = "commit" \/ i < entry[s] \/ (i = entry[s] /\ j < item[s])

Kept(s) ==
    Active(s) /\ inTxn[s] =>
        /\ \A i \in 1 .. Len(File[s]) : \A j \in 1 .. Len(File[s][i].cats) :
              Behind(s, i, j) => Held(s, i, j)
        /\ pc[s] \in {"rule", "keywords"} =>
              Cat(s) \in DOMAIN newOwner[s] /\ newOwner[s][Cat(s)] = Company(s)

Fresh(s) == pc[s] = "idle" => entry[s] = 1 /\ item[s] = 1

\* Nothing of s changes.
Same(s) ==
    /\ pc'[s] = pc[s] /\ entry'[s] = entry[s] /\ item'[s] = item[s] /\ inTxn'[s] = inTxn[s]
    /\ newOwner'[s] = newOwner[s] /\ newRules'[s] = newRules[s]

LEMMA SameKeeps ==
    ASSUME NEW s \in Savers, Kept(s), Fresh(s), Same(s)
    PROVE  Kept(s)' /\ Fresh(s)'
BY DEF Kept, Fresh, Same, Held, Behind, Active, Cat, Company

\* A write is seen by nobody else before the commit.
LEMMA WriteOthers ==
    ASSUME WritesOK, NEW s, NEW t \in Savers, s # t, NEW C, NEW O, NEW R, Write(s, C, O, R)
    PROVE  newOwner'[t] = newOwner[t] /\ newRules'[t] = newRules[t]
<1>1. newOwner = [q \in Savers |-> newOwner[q]] /\ newRules = [q \in Savers |-> newRules[q]]
  BY DEF WritesOK
<1>2. CASE inTxn[s]
  <2>1. newOwner' = [newOwner EXCEPT ![s] = Over(O, @)] /\ newRules' = [newRules EXCEPT ![s] = Over(R, @)]
    BY <1>2 DEF Write
  <2>2. QED
    BY <1>1, <2>1
<1>3. CASE ~inTxn[s]
  BY <1>3 DEF Write, writes
<1>4. QED
  BY <1>2, <1>3

LEMMA DropOthers ==
    ASSUME NEW t \in Savers, NEW S, t \notin S, DropWrites(S)
    PROVE  newOwner'[t] = newOwner[t] /\ newRules'[t] = newRules[t]
BY DEF DropWrites

\* What a write inside a transaction leaves to the save itself.
LEMMA WriteHeld ==
    ASSUME WritesOK, NEW s \in Savers, inTxn[s], NEW C, NEW O, NEW R, Write(s, C, O, R)
    PROVE  newOwner'[s] = Over(O, newOwner[s]) /\ newRules'[s] = Over(R, newRules[s])
<1>1. newOwner = [q \in Savers |-> newOwner[q]] /\ newRules = [q \in Savers |-> newRules[q]]
  BY DEF WritesOK
<1>2. newOwner' = [newOwner EXCEPT ![s] = Over(O, @)] /\ newRules' = [newRules EXCEPT ![s] = Over(R, @)]
  BY DEF Write
<1>3. QED
  BY <1>1, <1>2

\* The statements of one save leave the place and the transaction of the others.
LEMMA StatementOthers ==
    ASSUME Typed, NEW s \in Savers, NEW t \in Savers, s # t, Statement(s)
    PROVE  Same(t)
<1>1. PlaceOK /\ WritesOK /\ inTxn \in [Savers -> BOOLEAN]
  BY DEF Typed
<1>2. /\ pc'[t] = pc[t] /\ entry'[t] = entry[t] /\ item'[t] = item[t] /\ inTxn'[t] = inTxn[t]
  <2>1. pc'[t] = pc[t]
    BY <1>1 DEF PlaceOK, Statement, SaveCompany, Find, Delete, DeleteFails, Deadlock, SaveCategory,
                SaveRule, SaveKeywords, Commit, Reject, Goto, Advance
  <2>2. entry'[t] = entry[t] /\ item'[t] = item[t]
    BY <1>1 DEF PlaceOK, Statement, SaveCompany, Find, Delete, DeleteFails, Deadlock, SaveCategory,
                SaveRule, SaveKeywords, Commit, Reject, Goto, Advance
  <2>3. inTxn'[t] = inTxn[t]
    BY <1>1 DEF Statement, SaveCompany, Find, Delete, DeleteFails, Deadlock, SaveCategory,
                SaveRule, SaveKeywords, Commit, Reject
  <2>4. QED
    BY <2>1, <2>2, <2>3
<1>3. \/ \E C, O, R : Write(s, C, O, R)
      \/ DropWrites({s})
      \/ UNCHANGED writes
  BY DEF Statement, SaveCompany, Find, Delete, DeleteFails, Deadlock, SaveCategory,
         SaveRule, SaveKeywords, Commit, Reject
<1>4. newOwner'[t] = newOwner[t] /\ newRules'[t] = newRules[t]
  <2>1. CASE \E C, O, R : Write(s, C, O, R)
    BY <1>1, <2>1, WriteOthers
  <2>2. CASE DropWrites({s})
    BY <2>2, DropOthers
  <2>3. CASE UNCHANGED writes
    BY <2>3 DEF writes
  <2>4. QED
    BY <1>3, <2>1, <2>2, <2>3
<1>5. QED
  BY <1>2, <1>4 DEF Same

\* A write that takes nothing from the places behind the save.
LEMMA StillHeld ==
    ASSUME WritesOK, NEW s \in Savers, inTxn[s], NEW C, NEW O, NEW R, Write(s, C, O, R),
           NEW i, NEW j, Held(s, i, j),
           OneCompany /\ File[s][i].cats[j] \in DOMAIN O => O[File[s][i].cats[j]] = File[s][i].company,
           File[s][i].company \in DOMAIN R => Stored(s, i, j) \in R[File[s][i].company]
    PROVE  Held(s, i, j)'
<1>1. newOwner'[s] = Over(O, newOwner[s]) /\ newRules'[s] = Over(R, newRules[s])
  BY WriteHeld
<1>2. OneCompany => /\ File[s][i].cats[j] \in DOMAIN newOwner'[s]
                    /\ newOwner'[s][File[s][i].cats[j]] = File[s][i].company
  BY <1>1 DEF Held, Over
<1>3. /\ File[s][i].company \in DOMAIN newRules'[s]
      /\ Stored(s, i, j) \in newRules'[s][File[s][i].company]
  BY <1>1 DEF Held, Over
<1>4. Stored(s, i, j)' = Stored(s, i, j)
  BY DEF Stored
<1>5. QED
  BY <1>2, <1>3, <1>4 DEF Held

\* The deletion takes nothing from the places behind the save.
LEMMA DeleteSpares ==
    ASSUME IInv, NEW s \in Savers, Delete(s), inTxn[s],
           NEW i \in 1 .. Len(File[s]), NEW j \in 1 .. Len(File[s][i].cats), Held(s, i, j)
    PROVE  Held(s, i, j)'
<1> DEFINE c == Company(s)
           stripped == {[r EXCEPT !.kw = @ /\ Id(r) \notin found[s]] : r \in RulesSeen(s)[Company(s)]}
           rulesGone == \A r \in stripped : ~r.kw
           unused == /\ OwnedCats(s) \cap Used = {}
                     /\ \A d \in Companies \ {Company(s)} : \A r \in RulesSeen(s)[d] : r.cat \notin OwnedCats(s)
           O == IF rulesGone /\ unused THEN [k \in OwnedCats(s) |-> NoOwner] ELSE Nothing
           S == IF rulesGone THEN {} ELSE stripped
<1>1. Write(s, {}, O, At(Company(s), S))
  BY DEF Delete
<1>2. WritesOK /\ TablesOK /\ c \in Companies
  BY PlaceFacts DEF IInv, Typed
<1>3. File[s][i].company \in Companies /\ File[s][i].cats[j] \in Cats
  BY FileFacts
<1>4. CASE File[s][i].company = c
  <2>1. Stored(s, i, j) \in RulesSeen(s)[c]
    BY <1>4 DEF Held, RulesSeen, Over
  <2>2. Id(Stored(s, i, j)) \notin found[s]
    BY DEF IInv, FoundOthers, Id, Stored
  <2>3. Stored(s, i, j) \in stripped
    <3>1. [Stored(s, i, j) EXCEPT !.kw = @ /\ Id(Stored(s, i, j)) \notin found[s]] = Stored(s, i, j)
      <4> DEFINE kept == Stored(s, i, j).kw /\ Id(Stored(s, i, j)) \notin found[s]
      <4>1. kept = TRUE
        <5>1. Stored(s, i, j).kw
          BY DEF Stored
        <5>2. QED
          BY <2>2, <5>1
      <4> HIDE DEF kept
      <4>2. ASSUME NEW r \in Rule, r.kw = TRUE, NEW b, b = TRUE
            PROVE  [r EXCEPT !.kw = b] = r
        BY <4>2 DEF Rule
      <4>3. Stored(s, i, j) \in Rule /\ Stored(s, i, j).kw = TRUE
        BY <1>3 DEF Stored, Rule
      <4>4. [Stored(s, i, j) EXCEPT !.kw = kept] = Stored(s, i, j)
        BY <4>1, <4>2, <4>3
      <4>5. QED
        BY <4>4 DEF kept
    <3>2. QED
      BY <2>1, <3>1
  <2>4. ~rulesGone
    <3>1. Stored(s, i, j).kw
      BY DEF Stored
    <3>2. QED
      BY <2>3, <3>1
  <2>5. O = Nothing /\ S = stripped
    BY <2>4
  <2> HIDE DEF O, S, stripped
  <2>6. QED
    BY <1>1, <1>2, <1>4, <2>3, <2>5, StillHeld DEF At, Nothing
<1>5. CASE File[s][i].company # c
  <2>1. OneCompany => OwnerSeen(s)[File[s][i].cats[j]] = File[s][i].company
    BY DEF Held, OwnerSeen, Over
  <2>2. OneCompany => File[s][i].cats[j] \notin OwnedCats(s)
    BY <1>5, <2>1 DEF OwnedCats
  <2>3. OneCompany => File[s][i].cats[j] \notin DOMAIN O
    BY <2>2 DEF Nothing
  <2> HIDE DEF O, S
  <2>4. File[s][i].company \notin DOMAIN At(Company(s), S)
    BY <1>5 DEF At
  <2>5. QED
    BY <1>1, <1>2, <2>3, <2>4, StillHeld
<1>6. QED
  BY <1>4, <1>5

\* Going on to another statement of the same place.
LEMMA GoKept ==
    ASSUME Typed, NEW s \in Savers, Active(s), inTxn[s], Kept(s), pc[s] # "commit",
           NEW label, label \notin {"commit", "idle"}, Goto(s, label), UNCHANGED <<entry, item>>,
           \A i \in 1 .. Len(File[s]) : \A j \in 1 .. Len(File[s][i].cats) :
              Held(s, i, j) => Held(s, i, j)',
           label \in {"rule", "keywords"} =>
              Cat(s) \in DOMAIN newOwner'[s] /\ newOwner'[s][Cat(s)] = Company(s)
    PROVE  Kept(s)' /\ Fresh(s)'
<1>1. pc'[s] = label
  BY DEF Typed, PlaceOK, Goto
<1>2. \A i, j : Behind(s, i, j)' => Behind(s, i, j)
  BY <1>1 DEF Behind
<1>3. Cat(s)' = Cat(s) /\ Company(s)' = Company(s)
  BY DEF Cat, Company
<1>4. \A i \in 1 .. Len(File[s]) : \A j \in 1 .. Len(File[s][i].cats) :
         Behind(s, i, j)' => Held(s, i, j)'
  BY <1>2 DEF Kept
<1>5. QED
  BY <1>1, <1>3, <1>4 DEF Kept, Fresh

\* The places behind the save after a category: those behind it before, and the
\* category's.
LEMMA AdvanceBehind ==
    ASSUME Typed, NEW s \in Savers, pc[s] = "keywords", Advance(s),
           NEW i \in 1 .. Len(File[s]), NEW j \in 1 .. Len(File[s][i].cats), Behind(s, i, j)'
    PROVE  Behind(s, i, j) \/ (i = entry[s] /\ j = item[s])
<1>1. /\ entry[s] \in 1 .. Len(File[s]) /\ item[s] \in 1 .. Len(File[s][entry[s]].cats)
      /\ Len(File[s]) \in Nat /\ Len(File[s][entry[s]].cats) \in Nat
  <2>1. entry[s] \in 1 .. Len(File[s]) /\ item[s] \in 1 .. Len(File[s][entry[s]].cats)
    BY DEF Typed, PlaceOK
  <2>2. Len(File[s]) \in Nat /\ \A m \in 1 .. Len(File[s]) : Len(File[s][m].cats) \in Nat
    BY FileFacts
  <2>3. QED
    BY <2>1, <2>2
<1>2. CASE item[s] < Len(File[s][entry[s]].cats)
  <2>1. pc'[s] = "category" /\ item'[s] = item[s] + 1 /\ entry'[s] = entry[s]
    BY <1>2 DEF Advance, Goto, Typed, PlaceOK
  <2>2. i < entry[s] \/ (i = entry[s] /\ j < item[s] + 1)
    BY <2>1 DEF Behind
  <2>3. QED
    BY <1>1, <2>2 DEF Behind
<1>3. CASE ~(item[s] < Len(File[s][entry[s]].cats)) /\ entry[s] < Len(File[s])
  <2>1. pc'[s] = "company" /\ item'[s] = 1 /\ entry'[s] = entry[s] + 1
    BY <1>3 DEF Advance, Goto, Typed, PlaceOK
  <2>2. i < entry[s] + 1 \/ (i = entry[s] + 1 /\ j < 1)
    BY <2>1 DEF Behind
  <2>3. i = entry[s] => j <= Len(File[s][entry[s]].cats)
    BY <1>1
  <2>4. j \in Nat \ {0} /\ i \in Nat
    BY FileFacts
  <2>5. QED
    BY <1>1, <1>3, <2>2, <2>3, <2>4 DEF Behind
<1>4. CASE ~(item[s] < Len(File[s][entry[s]].cats)) /\ ~(entry[s] < Len(File[s]))
  <2>1. i <= entry[s] /\ i \in Nat
    BY <1>1, <1>4
  <2>2. i = entry[s] => j <= item[s] /\ j \in Nat
    BY <1>1, <1>4
  <2>3. QED
    BY <1>1, <2>1, <2>2 DEF Behind
<1>5. QED
  BY <1>2, <1>3, <1>4

\* Writing nothing, or adding rules to those seen, takes nothing away.
LEMMA AddSpares ==
    ASSUME WritesOK, NEW s \in Savers, inTxn[s], NEW C, NEW S, RulesSeen(s)[Company(s)] \subseteq S,
           Write(s, C, Nothing, At(Company(s), S)), NEW i, NEW j, Held(s, i, j)
    PROVE  Held(s, i, j)'
<1>1. File[s][i].company = Company(s) => Stored(s, i, j) \in RulesSeen(s)[Company(s)]
  BY DEF Held, RulesSeen, Over
<1>2. DOMAIN Nothing = {}
  BY DEF Nothing
<1>3. DOMAIN At(Company(s), S) = {Company(s)} /\ At(Company(s), S)[Company(s)] = S
  BY DEF At
<1>4. QED
  BY <1>1, <1>2, <1>3, StillHeld

\* The statements of a save keep what its transaction holds.
LEMMA StatementKept ==
    ASSUME IInv, NEW s \in Savers, Kept(s), Fresh(s), Statement(s)
    PROVE  Kept(s)' /\ Fresh(s)'
<1>1. Typed /\ PlaceOK /\ WritesOK
  BY DEF IInv, Typed
<1>2. CASE Deadlock(s)
  BY <1>1, <1>2 DEF Deadlock, Kept, Fresh, Goto, PlaceOK, Typed
<1>3. CASE Commit(s) \/ Reject(s)
  BY <1>1, <1>3 DEF Commit, Reject, Kept, Fresh, Active, Goto, PlaceOK
<1> DEFINE Inner == SaveCompany(s) \/ Find(s) \/ Delete(s) \/ DeleteFails(s) \/ SaveCategory(s)
                       \/ SaveRule(s) \/ SaveKeywords(s)
<1>4. CASE Inner /\ ~inTxn[s]
  <2>1. inTxn' = inTxn /\ pc'[s] # "idle"
    BY <1>1, <1>4 DEF SaveCompany, Find, Delete, DeleteFails, SaveCategory, SaveRule, SaveKeywords,
                      Goto, Advance, PlaceOK
  <2>2. QED
    BY <1>4, <2>1 DEF Kept, Fresh
<1>5. CASE Inner /\ inTxn[s]
  <2>1. Active(s) /\ pc[s] # "commit"
    BY <1>5 DEF Active, SaveCompany, Find, Delete, DeleteFails, SaveCategory, SaveRule, SaveKeywords
  <2>2. \A i \in 1 .. Len(File[s]) : \A j \in 1 .. Len(File[s][i].cats) :
           Behind(s, i, j) => Held(s, i, j)
    BY <1>5, <2>1 DEF Kept
  <2>3. CASE SaveCompany(s)
    <3>1. /\ Write(s, {Company(s)} \ CompaniesSeen(s), Nothing, Nothing)
          /\ Goto(s, "find") /\ UNCHANGED <<entry, item>>
      BY <2>3 DEF SaveCompany
    <3>2. \A i, j : Held(s, i, j) => Held(s, i, j)'
      BY <1>1, <1>5, <3>1, StillHeld DEF Nothing
    <3>3. QED
      BY <1>1, <1>5, <2>1, <3>1, <3>2, GoKept
  <2>4. CASE Find(s) \/ DeleteFails(s)
    <3>1. PICK label \in {"delete", "category"} : Goto(s, label) /\ UNCHANGED <<entry, item, writes>>
      BY <2>4 DEF Find, DeleteFails
    <3>2. \A i, j : Held(s, i, j) => Held(s, i, j)'
      BY <3>1 DEF Held, Stored, writes
    <3>3. QED
      BY <1>1, <1>5, <2>1, <3>1, <3>2, GoKept
  <2>5. CASE Delete(s)
    <3>1. Goto(s, "category") /\ UNCHANGED <<entry, item>>
      BY <2>5 DEF Delete
    <3>2. \A i \in 1 .. Len(File[s]) : \A j \in 1 .. Len(File[s][i].cats) :
             Held(s, i, j) => Held(s, i, j)'
      BY <1>5, <2>5, DeleteSpares
    <3>3. QED
      BY <1>1, <1>5, <2>1, <3>1, <3>2, GoKept
  <2>6. CASE SaveCategory(s)
    <3>1. /\ Write(s, {}, At(Cat(s), Company(s)), Nothing)
          /\ Goto(s, "rule") /\ UNCHANGED <<entry, item>>
      BY <2>6 DEF SaveCategory
    <3>2. DOMAIN At(Cat(s), Company(s)) = {Cat(s)} /\ At(Cat(s), Company(s))[Cat(s)] = Company(s)
      BY DEF At
    <3>3. ASSUME NEW i \in 1 .. Len(File[s]), NEW j \in 1 .. Len(File[s][i].cats), Held(s, i, j)
          PROVE  Held(s, i, j)'
      <4>1. OneCompany /\ File[s][i].cats[j] = Cat(s) => File[s][i].company = Company(s)
        BY <1>1 DEF OneCompany, Cat, Company, PlaceOK
      <4>2. DOMAIN Nothing = {}
        BY DEF Nothing
      <4>3. QED
        BY <1>1, <1>5, <3>1, <3>2, <3>3, <4>1, <4>2, StillHeld
    <3>4. Cat(s) \in DOMAIN newOwner'[s] /\ newOwner'[s][Cat(s)] = Company(s)
      <4>1. newOwner'[s] = Over(At(Cat(s), Company(s)), newOwner[s])
        BY <1>1, <1>5, <3>1, WriteHeld
      <4>2. QED
        BY <3>2, <4>1 DEF Over
    <3>5. QED
      BY <1>1, <1>5, <2>1, <3>1, <3>3, <3>4, GoKept
  <2>7. CASE SaveRule(s)
    <3> DEFINE S == RulesSeen(s)[Company(s)] \cup {NewRule(s)}
    <3>1. /\ pc[s] = "rule" /\ Write(s, {}, Nothing, At(Company(s), S))
          /\ Goto(s, "keywords") /\ UNCHANGED <<entry, item>>
      BY <2>7 DEF SaveRule
    <3>2. RulesSeen(s)[Company(s)] \subseteq S
      OBVIOUS
    <3> HIDE DEF S
    <3>3. \A i, j : Held(s, i, j) => Held(s, i, j)'
      BY <1>1, <1>5, <3>1, <3>2, AddSpares
    <3>4. Cat(s) \in DOMAIN newOwner'[s] /\ newOwner'[s][Cat(s)] = Company(s)
      <4>1. newOwner'[s] = Over(Nothing, newOwner[s])
        BY <1>1, <1>5, <3>1, WriteHeld
      <4>2. Cat(s) \in DOMAIN newOwner[s] /\ newOwner[s][Cat(s)] = Company(s)
        BY <1>5, <2>1, <3>1 DEF Kept
      <4>3. QED
        BY <4>1, <4>2 DEF Over, Nothing
    <3>5. QED
      BY <1>1, <1>5, <2>1, <3>1, <3>3, <3>4, GoKept
  <2>8. CASE SaveKeywords(s)
    <3> DEFINE R == RulesSeen(s)[Company(s)]
               Full == [NewRule(s) EXCEPT !.kw = TRUE]
               S == (R \ {NewRule(s)}) \cup {Full}
    <3>1. /\ pc[s] = "keywords" /\ Write(s, {}, Nothing, At(Company(s), S)) /\ Advance(s)
      BY <2>8 DEF SaveKeywords
    <3>2. newOwner'[s] = Over(Nothing, newOwner[s]) /\ newRules'[s] = Over(At(Company(s), S), newRules[s])
      BY <1>1, <1>5, <3>1, WriteHeld
    <3>3. Full = Stored(s, entry[s], item[s])
      <4>1. ASSUME NEW r \in Rule, NEW q \in Rule,
                   q.by = r.by, q.entry = r.entry, q.cat = r.cat, q.kw = TRUE
            PROVE  [r EXCEPT !.kw = TRUE] = q
        BY <4>1 DEF Rule
      <4>2. NewRule(s) \in Rule /\ Stored(s, entry[s], item[s]) \in Rule
        BY <1>1, PlaceFacts DEF NewRule, Stored, Rule, Cat
      <4>3. /\ Stored(s, entry[s], item[s]).by = NewRule(s).by
            /\ Stored(s, entry[s], item[s]).entry = NewRule(s).entry
            /\ Stored(s, entry[s], item[s]).cat = NewRule(s).cat
            /\ Stored(s, entry[s], item[s]).kw = TRUE
        BY DEF NewRule, Stored, Cat
      <4>4. QED
        BY <4>1, <4>2, <4>3
    <3>4. ASSUME NEW i \in 1 .. Len(File[s]), NEW j \in 1 .. Len(File[s][i].cats), Behind(s, i, j)'
          PROVE  Held(s, i, j)'
      <4>1. Behind(s, i, j) \/ (i = entry[s] /\ j = item[s])
        BY <1>1, <3>1, <3>4, AdvanceBehind
      <4>2. CASE Behind(s, i, j)
        <5>1. Held(s, i, j)
          BY <2>2, <4>2
        <5>2. File[s][i].company = Company(s) => Stored(s, i, j) \in R
          BY <5>1 DEF Held, RulesSeen, Over
        <5>3. Stored(s, i, j) # NewRule(s)
          BY DEF Stored, NewRule
        <5>4. File[s][i].company = Company(s) => Stored(s, i, j) \in S
          BY <5>2, <5>3
        <5>5. DOMAIN Nothing = {} /\ DOMAIN At(Company(s), S) = {Company(s)} /\ At(Company(s), S)[Company(s)] = S
          BY DEF Nothing, At
        <5> HIDE DEF S
        <5>6. QED
          BY <1>1, <1>5, <3>1, <5>1, <5>4, <5>5, StillHeld
      <4>3. CASE i = entry[s] /\ j = item[s]
        <5>1. File[s][i].cats[j] = Cat(s) /\ File[s][i].company = Company(s) /\ Stored(s, i, j) \in S
          BY <3>3, <4>3 DEF Cat, Company
        <5>2. Cat(s) \in DOMAIN newOwner[s] /\ newOwner[s][Cat(s)] = Company(s)
          BY <1>5, <2>1, <3>1 DEF Kept
        <5>3. DOMAIN At(Company(s), S) = {Company(s)} /\ At(Company(s), S)[Company(s)] = S
          BY DEF At
        <5> HIDE DEF S
        <5>4. Cat(s) \in DOMAIN newOwner'[s] /\ newOwner'[s][Cat(s)] = Company(s)
          BY <3>2, <5>2 DEF Over, Nothing
        <5>5. Company(s) \in DOMAIN newRules'[s] /\ newRules'[s][Company(s)] = S
          BY <3>2, <5>3 DEF Over
        <5>6. Stored(s, i, j)' = Stored(s, i, j)
          BY DEF Stored
        <5>7. QED
          BY <5>1, <5>4, <5>5, <5>6 DEF Held
      <4>4. QED
        BY <4>1, <4>2, <4>3
    <3>5. pc'[s] \notin {"idle", "rule", "keywords"}
      BY <1>1, <3>1 DEF Advance, Goto, PlaceOK
    <3>6. QED
      BY <3>4, <3>5 DEF Kept, Fresh
  <2>9. QED
    BY <1>5, <2>3, <2>4, <2>5, <2>6, <2>7, <2>8
<1>6. QED
  BY <1>2, <1>3, <1>4, <1>5 DEF Statement

\* The strengthened invariant, of every step.
KeptInv == IInv /\ \A s \in Savers : Kept(s) /\ Fresh(s)

LEMMA KeptInit == Init => KeptInv
BY IInvInit DEF KeptInv, Init, Kept, Fresh, Active

LEMMA KeptStep == KeptInv /\ [Next]_vars => KeptInv'
<1> SUFFICES ASSUME KeptInv, [Next]_vars
             PROVE  KeptInv'
  OBVIOUS
<1>1. IInv /\ IInv' /\ Typed /\ PlaceOK
  BY IInvStep DEF KeptInv, IInv, Typed
<1>2. ASSUME NEW s \in Savers, Begin(s), NEW t \in Savers
      PROVE  Kept(t)' /\ Fresh(t)'
  <2>1. pc' = [pc EXCEPT ![s] = "company"] /\ pc[s] = "idle" /\ UNCHANGED <<entry, item, inTxn, newOwner, newRules>>
    BY <1>2 DEF Begin, Goto, writes
  <2>2. CASE t = s
    <3>1. pc'[s] = "company" /\ entry'[s] = 1 /\ item'[s] = 1
      BY <1>1, <2>1 DEF KeptInv, Fresh, PlaceOK
    <3>2. ASSUME NEW i \in 1 .. Len(File[s]), NEW j \in 1 .. Len(File[s][i].cats)
          PROVE  ~Behind(s, i, j)'
      <4>1. i \in Nat \ {0} /\ j \in Nat \ {0}
        BY FileFacts
      <4>2. QED
        BY <3>1, <4>1 DEF Behind
    <3>3. QED
      BY <2>2, <3>1, <3>2 DEF Kept, Fresh
  <2>3. CASE t # s
    <3>1. Same(t)
      BY <1>1, <2>1, <2>3 DEF Same, PlaceOK
    <3>2. QED
      BY <3>1, SameKeeps DEF KeptInv
  <2>4. QED
    BY <2>2, <2>3
<1>3. ASSUME NEW s \in Savers, Statement(s), NEW t \in Savers
      PROVE  Kept(t)' /\ Fresh(t)'
  <2>1. CASE t = s
    BY <1>1, <1>3, <2>1, StatementKept DEF KeptInv
  <2>2. CASE t # s
    BY <1>1, <1>3, <2>2, StatementOthers, SameKeeps DEF KeptInv
  <2>3. QED
    BY <2>1, <2>2
<1>4. ASSUME Crash, NEW t \in Savers
      PROVE  Kept(t)' /\ Fresh(t)'
  <2>1. pc'[t] = IF Active(t) THEN "rejected" ELSE pc[t]
    BY <1>4 DEF Crash
  <2>2. ~Active(t)' /\ (pc'[t] = "idle" => pc[t] = "idle")
    BY <2>1 DEF Active
  <2>3. entry' = entry /\ item' = item
    BY <1>4 DEF Crash
  <2>4. QED
    BY <2>2, <2>3 DEF KeptInv, Kept, Fresh
<1>5. ASSUME UNCHANGED vars, NEW t \in Savers
      PROVE  Kept(t)' /\ Fresh(t)'
  <2>1. Same(t)
    BY <1>5 DEF vars, place, writes, Same
  <2>2. QED
    BY <2>1, SameKeeps DEF KeptInv
<1>6. QED
  BY <1>1, <1>2, <1>3, <1>4, <1>5 DEF Next, KeptInv

\* A commit with the transaction still there stores the rules of the file,
LEMMA CommitStoresRules ==
    ASSUME KeptInv, NEW s \in Savers, Commit(s), inTxn[s],
           NEW i \in 1 .. Len(File[s]), NEW j \in 1 .. Len(File[s][i].cats)
    PROVE  /\ Held(s, i, j)
           /\ Stored(s, i, j) \in rules'[File[s][i].company]
<1>1. pc[s] = "commit" /\ rules' = Over(newRules[s], rules)
  BY DEF Commit
<1>2. Held(s, i, j)
  BY <1>1 DEF KeptInv, Kept, Active, Behind
<1>3. QED
  BY <1>1, <1>2 DEF Held, Over

\* and where the file names a category under one company only, all of it.
LEMMA CommitStores ==
    ASSUME OneCompany, KeptInv, NEW s \in Savers, Commit(s), inTxn[s]
    PROVE  FileStored(s)'
<1>1. owner' = Over(newOwner[s], owner)
  BY DEF Commit
<1>2. ASSUME NEW i \in 1 .. Len(File[s]), NEW j \in 1 .. Len(File[s][i].cats)
      PROVE  /\ Stored(s, i, j) \in rules'[File[s][i].company]
             /\ owner'[File[s][i].cats[j]] = File[s][i].company
  <2>1. Held(s, i, j) /\ Stored(s, i, j) \in rules'[File[s][i].company]
    BY CommitStoresRules
  <2>2. QED
    BY <1>1, <2>1 DEF Held, Over
<1>3. QED
  BY <1>2 DEF FileStored, Stored

\* Other saves, later entries of the same company, rollbacks and crashes
\* notwithstanding, a commit whose transaction was not lost leaves every rule of the
\* file in the tables, with keywords, in a category of the company it names.
THEOREM CommitComplete == ASSUME OneCompany PROVE Spec => CommitKeepsFile
<1>1. ASSUME KeptInv
      PROVE  [\A s \in Savers : Commit(s) /\ inTxn[s] => FileStored(s)']_vars
  BY <1>1, CommitStores
<1>2. Init => KeptInv
  BY KeptInit
<1>3. KeptInv /\ [Next]_vars => KeptInv'
  BY KeptStep
<1>4. QED
  BY <1>1, <1>2, <1>3, PTL DEF Spec, CommitKeepsFile

-----------------------------------------------------------------------------
(***************************************************************************)
(* A rule's category exists and belongs to the rule's company, if every    *)
(* category has one company in all files.  A category may be deleted by    *)
(* one save while another one gives it a rule.  What rules this out is     *)
(* that whoever deletes categories of a company has locked its rules.      *)
(***************************************************************************)

\* h is the company of each category, in every file and at the start.
HomeOf(h) ==
    /\ h \in [Cats -> Companies]
    /\ \A k \in Cats : Owner0[k] \in {h[k], NoOwner}
    /\ \A s \in Savers : \A i \in 1 .. Len(File[s]) : \A j \in 1 .. Len(File[s][i].cats) :
          h[File[s][i].cats[j]] = File[s][i].company

\* O moves no category to a company that is not its own.
AtHome(h, O) == \A k \in DOMAIN O : O[k] \in {h[k], NoOwner}

\* No two transactions write the rules of one company.
Exclusive ==
    \A s, t \in Savers : s # t => DOMAIN newRules[s] \cap DOMAIN newRules[t] = {}

\* A transaction that deletes a category has written the rules of its company.
DeletesLocked(h, s) ==
    \A k \in DOMAIN newOwner[s] : newOwner[s][k] = NoOwner => h[k] \in DOMAIN newRules[s]

\* What s sees obeys the foreign key of rules to categories.
ViewOK(s) == \A c \in Companies : \A r \in RulesSeen(s)[c] : OwnerSeen(s)[r.cat] = c

\* Without a transaction there is nothing to roll back.
Lost(s) == ~inTxn[s] => DOMAIN newOwner[s] = {} /\ DOMAIN newRules[s] = {}

HomeInv(h) ==
    /\ IInv
    /\ AtHome(h, owner)
    /\ CategoryOfOwnCompany
    /\ Exclusive
    /\ \A s \in Savers : AtHome(h, newOwner[s]) /\ DeletesLocked(h, s) /\ ViewOK(s) /\ Lost(s)

\* Writes that obey these rules over tables that obey the foreign key.
LEMMA ViewMerge ==
    ASSUME NEW h, HomeOf(h), NEW O0 \in [Cats -> Owners], NEW R0 \in [Companies -> SUBSET Rule],
           NEW O, NEW R, AtHome(h, O0), AtHome(h, O),
           \A k \in DOMAIN O : O[k] = NoOwner => h[k] \in DOMAIN R,
           \A c \in Companies : \A r \in R0[c] : O0[r.cat] = c,
           \A c \in DOMAIN R : \A r \in R[c] : Over(O, O0)[r.cat] = c
    PROVE  \A c \in Companies : \A r \in Over(R, R0)[c] : Over(O, O0)[r.cat] = c
<1> SUFFICES ASSUME NEW c \in Companies, NEW r \in Over(R, R0)[c]
             PROVE  Over(O, O0)[r.cat] = c
  OBVIOUS
<1>1. Over(R, R0)[c] = IF c \in DOMAIN R THEN R[c] ELSE R0[c]
  BY DEF Over
<1>2. CASE c \in DOMAIN R
  BY <1>1, <1>2
<1>3. CASE c \notin DOMAIN R
  <2>1. r \in R0[c] /\ O0[r.cat] = c
    BY <1>1, <1>3
  <2>2. r.cat \in Cats
    BY <2>1 DEF Rule
  <2>3. h[r.cat] = c
    BY <2>1, <2>2, OwnerAssumption DEF AtHome
  <2>4. Over(O, O0)[r.cat] = IF r.cat \in DOMAIN O THEN O[r.cat] ELSE O0[r.cat]
    BY <2>2 DEF Over
  <2>5. QED
    BY <1>3, <2>1, <2>3, <2>4 DEF AtHome
<1>4. QED
  BY <1>2, <1>3

LEMMA HomeInit == ASSUME NEW h, HomeOf(h) PROVE Init => HomeInv(h)
<1> SUFFICES ASSUME Init PROVE HomeInv(h)
  OBVIOUS
<1>1. IInv
  BY IInvInit
<1>2. AtHome(h, owner)
  BY OwnerAssumption DEF Init, AtHome, HomeOf
<1>3. CategoryOfOwnCompany
  BY DEF Init, CategoryOfOwnCompany
<1>4. ASSUME NEW s \in Savers
      PROVE  newOwner[s] = Nothing /\ newRules[s] = Nothing
  BY DEF Init
<1>5. DOMAIN Nothing = {}
  BY DEF Nothing
<1>6. Exclusive
  BY <1>4, <1>5 DEF Exclusive
<1>7. ASSUME NEW s \in Savers
      PROVE  AtHome(h, newOwner[s]) /\ DeletesLocked(h, s) /\ ViewOK(s) /\ Lost(s)
  <2>1. OwnerSeen(s) = owner /\ RulesSeen(s) = rules
    <3>1. OwnerSeen(s) = [x \in DOMAIN owner |-> owner[x]] /\ RulesSeen(s) = [x \in DOMAIN rules |-> rules[x]]
      BY <1>4, <1>5 DEF OwnerSeen, RulesSeen, Over
    <3>2. owner = [x \in DOMAIN owner |-> owner[x]] /\ rules = [x \in DOMAIN rules |-> rules[x]]
      BY <1>1 DEF IInv, Typed, TablesOK
    <3>3. QED
      BY <3>1, <3>2
  <2>2. ViewOK(s)
    BY <1>3, <2>1 DEF ViewOK, CategoryOfOwnCompany
  <2>3. QED
    BY <1>4, <1>5, <2>2 DEF AtHome, DeletesLocked, Lost
<1>8. QED
  BY <1>1, <1>2, <1>3, <1>6, <1>7 DEF HomeInv

\* What s sees of categories and rules, case by case.
LEMMA Seen ==
    ASSUME Typed, NEW s \in Savers
    PROVE  /\ \A k \in Cats : OwnerSeen(s)[k] = IF k \in DOMAIN newOwner[s] THEN newOwner[s][k] ELSE owner[k]
           /\ \A c \in Companies : RulesSeen(s)[c] = IF c \in DOMAIN newRules[s] THEN newRules[s][c] ELSE rules[c]
BY DEF Typed, TablesOK, WritesOK, IsWrite, OwnerSeen, RulesSeen, Over

\* The home of a rule seen is its company.
LEMMA RuleHome ==
    ASSUME NEW h, HomeOf(h), HomeInv(h), NEW s \in Savers
    PROVE  \A c \in Companies : \A r \in RulesSeen(s)[c] : r.cat \in Cats /\ h[r.cat] = c
<1>1. Typed /\ OwnerSeen(s) \in [Cats -> Owners] /\ RulesSeen(s) \in [Companies -> SUBSET Rule]
  BY SeenType DEF HomeInv, IInv, Typed
<1>2. ASSUME NEW c \in Companies, NEW r \in RulesSeen(s)[c]
      PROVE  r.cat \in Cats /\ h[r.cat] = c
  <2>1. r.cat \in Cats
    BY <1>1, <1>2 DEF Rule
  <2>2. OwnerSeen(s)[r.cat] = c
    BY <1>2 DEF HomeInv, ViewOK
  <2>3. OwnerSeen(s)[r.cat] \in {h[r.cat], NoOwner}
    BY <1>1, <2>1, Seen DEF HomeInv, AtHome, Typed, TablesOK
  <2>4. QED
    BY <2>1, <2>2, <2>3, OwnerAssumption
<1>3. QED
  BY <1>2

\* A write of s that locks what it needs, puts categories at home, and leaves what s
\* sees in order.
LEMMA WriteHome ==
    ASSUME NEW h, HomeOf(h), HomeInv(h), IInv', NEW s \in Savers, NEW C, NEW O, NEW R, Write(s, C, O, R), inTxn' = inTxn,
           DOMAIN O \subseteq Cats, AtHome(h, O), DOMAIN R \subseteq Companies,
           \A t \in Savers \ {s} : DOMAIN R \cap DOMAIN newRules[t] = {},
           \A k \in DOMAIN O : O[k] = NoOwner => h[k] \in DOMAIN R,
           \A c \in DOMAIN R : \A r \in R[c] :
              r.cat \in Cats /\ Over(O, OwnerSeen(s))[r.cat] = c
    PROVE  HomeInv(h)'
<1>1. Typed /\ Typed' /\ TablesOK /\ WritesOK
  BY DEF HomeInv, IInv, Typed
<1>2. OwnerSeen(s) \in [Cats -> Owners] /\ RulesSeen(s) \in [Companies -> SUBSET Rule]
  BY <1>1, SeenType
<1>3. \A k \in Cats : Over(O, OwnerSeen(s))[k] = IF k \in DOMAIN O THEN O[k] ELSE OwnerSeen(s)[k]
  BY <1>2 DEF Over
<1>4. CASE inTxn[s]
  <2>1. newOwner'[s] = Over(O, newOwner[s]) /\ newRules'[s] = Over(R, newRules[s])
    BY <1>1, <1>4, WriteHeld
  <2>2. owner' = owner /\ rules' = rules
    BY <1>4 DEF Write, tables
  <2>3. \A t \in Savers \ {s} : newOwner'[t] = newOwner[t] /\ newRules'[t] = newRules[t]
    BY <1>1, WriteOthers
  <2>4. AtHome(h, owner)' /\ CategoryOfOwnCompany'
    BY <2>2 DEF HomeInv, AtHome, CategoryOfOwnCompany
  <2>5. DOMAIN newRules'[s] = DOMAIN R \cup DOMAIN newRules[s] /\ DOMAIN newOwner'[s] = DOMAIN O \cup DOMAIN newOwner[s]
    BY <2>1 DEF Over
  <2>6. Exclusive'
    BY <2>3, <2>5 DEF HomeInv, Exclusive
  <2>7. AtHome(h, newOwner'[s]) /\ DeletesLocked(h, s)'
    <3>1. AtHome(h, newOwner[s]) /\ DeletesLocked(h, s)
      BY DEF HomeInv
    <3>2. \A k \in DOMAIN newOwner'[s] : newOwner'[s][k] = IF k \in DOMAIN O THEN O[k] ELSE newOwner[s][k]
      BY <2>1 DEF Over
    <3>3. QED
      BY <2>5, <3>1, <3>2 DEF AtHome, DeletesLocked
  <2>8. ViewOK(s)'
    <3>1. ASSUME NEW c \in Companies, NEW r \in RulesSeen(s)'[c]
          PROVE  OwnerSeen(s)'[r.cat] = c
      <4>1. RulesSeen(s)'[c] = IF c \in DOMAIN R THEN R[c] ELSE RulesSeen(s)[c]
        <5>1. RulesSeen(s)'[c] = IF c \in DOMAIN newRules'[s] THEN newRules'[s][c] ELSE rules'[c]
          BY <1>1, Seen DEF Typed, TablesOK, WritesOK, IsWrite, RulesSeen, Over
        <5>2. RulesSeen(s)[c] = IF c \in DOMAIN newRules[s] THEN newRules[s][c] ELSE rules[c]
          BY <1>1, Seen
        <5>3. c \in DOMAIN newRules'[s] => newRules'[s][c] = IF c \in DOMAIN R THEN R[c] ELSE newRules[s][c]
          BY <2>1 DEF Over
        <5>4. QED
          BY <2>2, <2>5, <5>1, <5>2, <5>3
      <4>2. \A k \in Cats : OwnerSeen(s)'[k] = IF k \in DOMAIN O THEN O[k] ELSE OwnerSeen(s)[k]
        <5>1. \A k \in Cats : OwnerSeen(s)'[k] = IF k \in DOMAIN newOwner'[s] THEN newOwner'[s][k] ELSE owner'[k]
          BY <1>1 DEF Typed, TablesOK, WritesOK, IsWrite, OwnerSeen, Over
        <5>2. \A k \in Cats : OwnerSeen(s)[k] = IF k \in DOMAIN newOwner[s] THEN newOwner[s][k] ELSE owner[k]
          BY <1>1, Seen
        <5>3. \A k \in DOMAIN newOwner'[s] : newOwner'[s][k] = IF k \in DOMAIN O THEN O[k] ELSE newOwner[s][k]
          BY <2>1 DEF Over
        <5>4. QED
          BY <2>2, <2>5, <5>1, <5>2, <5>3
      <4>3. CASE c \in DOMAIN R
        BY <1>3, <3>1, <4>1, <4>2, <4>3
      <4>4. CASE c \notin DOMAIN R
        <5>1. r \in RulesSeen(s)[c]
          BY <3>1, <4>1, <4>4
        <5>2. r.cat \in Cats /\ h[r.cat] = c /\ OwnerSeen(s)[r.cat] = c
          BY <5>1, RuleHome DEF HomeInv, ViewOK
        <5>3. r.cat \in DOMAIN O => O[r.cat] = c
          BY <4>4, <5>2 DEF AtHome
        <5>4. QED
          BY <4>2, <5>2, <5>3
      <4>5. QED
        BY <4>3, <4>4
    <3>2. QED
      BY <3>1 DEF ViewOK
  <2>9. ASSUME NEW t \in Savers, t # s
        PROVE  AtHome(h, newOwner'[t]) /\ DeletesLocked(h, t)' /\ ViewOK(t)' /\ Lost(t)'
    <3>1. newOwner'[t] = newOwner[t] /\ newRules'[t] = newRules[t]
      BY <2>3, <2>9
    <3>2. OwnerSeen(t)' = OwnerSeen(t) /\ RulesSeen(t)' = RulesSeen(t)
      BY <2>2, <3>1 DEF OwnerSeen, RulesSeen, Over
    <3>3. QED
      BY <3>1, <3>2 DEF HomeInv, AtHome, DeletesLocked, ViewOK, Lost
  <2>10. QED
    BY <1>4, <2>4, <2>6, <2>7, <2>8, <2>9 DEF HomeInv, AtHome, Lost
<1>5. CASE ~inTxn[s]
  <2>1. owner' = Over(O, owner) /\ rules' = Over(R, rules) /\ newOwner' = newOwner /\ newRules' = newRules
    BY <1>5 DEF Write, writes
  <2>2. /\ \A k \in Cats : owner'[k] = IF k \in DOMAIN O THEN O[k] ELSE owner[k]
        /\ \A c \in Companies : rules'[c] = IF c \in DOMAIN R THEN R[c] ELSE rules[c]
        /\ DOMAIN owner' = Cats /\ DOMAIN owner = Cats
    BY <1>1, <2>1 DEF Typed, TablesOK, Over
  <2>3. AtHome(h, owner)'
    BY <2>2 DEF HomeInv, AtHome
  <2>4. DOMAIN newRules[s] = {} /\ OwnerSeen(s) = owner /\ RulesSeen(s) = rules
    <3>1. DOMAIN newOwner[s] = {} /\ DOMAIN newRules[s] = {}
      BY <1>5 DEF HomeInv, Lost
    <3>2. OwnerSeen(s) = [x \in DOMAIN owner |-> owner[x]] /\ RulesSeen(s) = [x \in DOMAIN rules |-> rules[x]]
      BY <3>1 DEF OwnerSeen, RulesSeen, Over
    <3>3. owner = [x \in DOMAIN owner |-> owner[x]] /\ rules = [x \in DOMAIN rules |-> rules[x]]
      BY <1>1 DEF TablesOK
    <3>4. QED
      BY <3>1, <3>2, <3>3
  <2>5. \A c \in Companies : \A r \in rules'[c] : owner'[r.cat] = c
    <3>1. AtHome(h, owner) /\ \A c \in Companies : \A r \in rules[c] : owner[r.cat] = c
      BY DEF HomeInv, CategoryOfOwnCompany
    <3>2. \A c \in DOMAIN R : \A r \in R[c] : Over(O, owner)[r.cat] = c
      BY <2>4
    <3>3. QED
      BY <1>1, <2>1, <3>1, <3>2, ViewMerge DEF TablesOK
  <2>6. ASSUME NEW t \in Savers
        PROVE  ViewOK(t)'
    <3>1. AtHome(h, newOwner[t]) /\ DeletesLocked(h, t) /\ ViewOK(t)
      BY DEF HomeInv
    <3>2. ASSUME NEW c \in DOMAIN newRules[t], NEW r \in newRules[t][c]
          PROVE  Over(newOwner[t], owner')[r.cat] = c
      <4>1. c \in Companies /\ c \notin DOMAIN R
        BY <1>1, <2>4 DEF WritesOK, IsWrite
      <4>2. r \in RulesSeen(t)[c]
        BY <1>1, <4>1, Seen
      <4>3. r.cat \in Cats /\ h[r.cat] = c /\ OwnerSeen(t)[r.cat] = c
        BY <3>1, <4>1, <4>2, RuleHome DEF ViewOK
      <4>4. OwnerSeen(t)[r.cat] = IF r.cat \in DOMAIN newOwner[t] THEN newOwner[t][r.cat] ELSE owner[r.cat]
        BY <1>1, <4>3, Seen
      <4>5. r.cat \in DOMAIN O => O[r.cat] = c
        BY <4>1, <4>3 DEF AtHome
      <4>6. Over(newOwner[t], owner')[r.cat] = IF r.cat \in DOMAIN newOwner[t] THEN newOwner[t][r.cat] ELSE owner'[r.cat]
        BY <2>2, <4>3 DEF Over
      <4>7. QED
        BY <2>2, <4>3, <4>4, <4>5, <4>6
    <3>3. \A k \in DOMAIN newOwner[t] : newOwner[t][k] = NoOwner => h[k] \in DOMAIN newRules[t]
      BY <3>1 DEF DeletesLocked
    <3>4. owner' \in [Cats -> Owners] /\ rules' \in [Companies -> SUBSET Rule] /\ AtHome(h, owner')
      BY <1>1, <2>3 DEF Typed, TablesOK, AtHome
    <3>5. \A c \in Companies : \A r \in Over(newRules[t], rules')[c] : Over(newOwner[t], owner')[r.cat] = c
      BY <2>5, <3>1, <3>2, <3>3, <3>4, ViewMerge
    <3>6. QED
      BY <2>1, <3>5 DEF ViewOK, RulesSeen, OwnerSeen
  <2>7. QED
    BY <2>1, <2>3, <2>5, <2>6 DEF HomeInv, Exclusive, AtHome, DeletesLocked, Lost, CategoryOfOwnCompany
<1>6. QED
  BY <1>4, <1>5

\* A step that changes nothing but places.
LEMMA QuietHome ==
    ASSUME NEW h, HomeInv(h), IInv', UNCHANGED <<owner, rules, newOwner, newRules, inTxn>>
    PROVE  HomeInv(h)'
BY DEF HomeInv, AtHome, CategoryOfOwnCompany, Exclusive, DeletesLocked, ViewOK, Lost, OwnerSeen, RulesSeen, Over

\* Transactions that end without a commit.
LEMMA DropHome ==
    ASSUME NEW h, HomeInv(h), IInv', NEW S, DropWrites(S), UNCHANGED <<owner, rules>>,
           \A t \in Savers : inTxn'[t] = inTxn[t] \/ t \in S
    PROVE  HomeInv(h)'
<1>1. \A t \in Savers : /\ newOwner'[t] = IF t \in S THEN Nothing ELSE newOwner[t]
                        /\ newRules'[t] = IF t \in S THEN Nothing ELSE newRules[t]
  BY DEF DropWrites
<1>2. DOMAIN Nothing = {}
  BY DEF Nothing
<1>3. AtHome(h, owner)' /\ CategoryOfOwnCompany'
  BY DEF HomeInv, AtHome, CategoryOfOwnCompany
<1>4. Exclusive'
  BY <1>1, <1>2 DEF HomeInv, Exclusive
<1>5. ASSUME NEW t \in Savers
      PROVE  AtHome(h, newOwner[t])' /\ DeletesLocked(h, t)' /\ ViewOK(t)' /\ Lost(t)'
  <2>1. CASE t \in S
    <3>1. DOMAIN newOwner'[t] = {} /\ DOMAIN newRules'[t] = {}
      BY <1>1, <1>2, <2>1
    <3>2. OwnerSeen(t)' = [x \in DOMAIN owner' |-> owner'[x]] /\ RulesSeen(t)' = [x \in DOMAIN rules' |-> rules'[x]]
      BY <3>1 DEF OwnerSeen, RulesSeen, Over
    <3>3. owner' = [x \in DOMAIN owner' |-> owner'[x]] /\ rules' = [x \in DOMAIN rules' |-> rules'[x]]
      BY DEF IInv, Typed, TablesOK
    <3>4. OwnerSeen(t)' = owner' /\ RulesSeen(t)' = rules'
      BY <3>2, <3>3
    <3>5. ViewOK(t)'
      BY <1>3, <3>4 DEF ViewOK, CategoryOfOwnCompany
    <3>6. QED
      BY <3>1, <3>5 DEF AtHome, DeletesLocked, Lost
  <2>2. CASE t \notin S
    <3>1. newOwner'[t] = newOwner[t] /\ newRules'[t] = newRules[t] /\ inTxn'[t] = inTxn[t]
      BY <1>1, <2>2
    <3>2. OwnerSeen(t)' = OwnerSeen(t) /\ RulesSeen(t)' = RulesSeen(t)
      BY <3>1 DEF OwnerSeen, RulesSeen, Over
    <3>3. QED
      BY <3>1, <3>2 DEF HomeInv, AtHome, DeletesLocked, ViewOK, Lost
  <2>3. QED
    BY <2>1, <2>2
<1>6. QED
  BY <1>3, <1>4, <1>5 DEF HomeInv

\* A commit makes the view of s the tables; the views of the others do not lose by it.
LEMMA CommitHome ==
    ASSUME NEW h, HomeOf(h), HomeInv(h), IInv', NEW s \in Savers, Commit(s)
    PROVE  HomeInv(h)'
<1>1. Typed /\ Typed' /\ TablesOK /\ WritesOK /\ AtHome(h, newOwner[s]) /\ DeletesLocked(h, s) /\ ViewOK(s)
  BY DEF HomeInv, IInv, Typed
<1>2. /\ owner' = Over(newOwner[s], owner) /\ rules' = Over(newRules[s], rules)
      /\ DropWrites({s}) /\ inTxn' = inTxn
  BY DEF Commit
<1>3. owner' = OwnerSeen(s) /\ rules' = RulesSeen(s)
  BY <1>2 DEF OwnerSeen, RulesSeen
<1>4. \A t \in Savers : /\ newOwner'[t] = IF t = s THEN Nothing ELSE newOwner[t]
                        /\ newRules'[t] = IF t = s THEN Nothing ELSE newRules[t]
  BY <1>2 DEF DropWrites
<1>5. DOMAIN Nothing = {}
  BY DEF Nothing
<1>6. CategoryOfOwnCompany'
  BY <1>1, <1>3 DEF ViewOK, CategoryOfOwnCompany
<1>7. \A k \in Cats : owner'[k] = IF k \in DOMAIN newOwner[s] THEN newOwner[s][k] ELSE owner[k]
  BY <1>1, <1>3, Seen
<1>8. AtHome(h, owner)'
  BY <1>1, <1>7 DEF HomeInv, AtHome, Typed, TablesOK
<1>9. Exclusive'
  BY <1>4, <1>5 DEF HomeInv, Exclusive
<1>10. ASSUME NEW t \in Savers
       PROVE  AtHome(h, newOwner[t])' /\ DeletesLocked(h, t)' /\ ViewOK(t)' /\ Lost(t)'
  <2>1. AtHome(h, newOwner'[t]) /\ \A k \in DOMAIN newOwner'[t] : newOwner'[t][k] = NoOwner => h[k] \in DOMAIN newRules'[t]
    BY <1>4, <1>5 DEF HomeInv, AtHome, DeletesLocked
  <2>2. Lost(t)'
    BY <1>2, <1>4, <1>5 DEF HomeInv, Lost
  <2>3. ASSUME NEW c \in DOMAIN newRules'[t], NEW r \in newRules'[t][c]
        PROVE  Over(newOwner'[t], owner')[r.cat] = c
    <3>1. t # s /\ newRules'[t] = newRules[t] /\ newOwner'[t] = newOwner[t]
      BY <1>4, <1>5, <2>3
    <3>2. c \in Companies /\ c \notin DOMAIN newRules[s]
      BY <1>1, <2>3, <3>1 DEF HomeInv, Exclusive, WritesOK, IsWrite
    <3>3. r \in RulesSeen(t)[c]
      BY <1>1, <2>3, <3>1, <3>2, Seen
    <3>4. r.cat \in Cats /\ h[r.cat] = c /\ OwnerSeen(t)[r.cat] = c
      BY <3>2, <3>3, RuleHome DEF HomeInv, ViewOK
    <3>5. OwnerSeen(t)[r.cat] = IF r.cat \in DOMAIN newOwner[t] THEN newOwner[t][r.cat] ELSE owner[r.cat]
      BY <1>1, <3>4, Seen
    <3>6. r.cat \in DOMAIN newOwner[s] => newOwner[s][r.cat] = c
      BY <1>1, <3>2, <3>4 DEF AtHome, DeletesLocked
    <3>7. Over(newOwner'[t], owner')[r.cat] = IF r.cat \in DOMAIN newOwner[t] THEN newOwner[t][r.cat] ELSE owner'[r.cat]
      BY <1>1, <3>1, <3>4 DEF Over, Typed, TablesOK
    <3>8. QED
      BY <1>7, <3>4, <3>5, <3>6, <3>7
  <2>4. owner' \in [Cats -> Owners] /\ rules' \in [Companies -> SUBSET Rule] /\ AtHome(h, owner')
    BY <1>1, <1>8 DEF Typed, TablesOK, AtHome
  <2>5. \A c \in Companies : \A r \in rules'[c] : owner'[r.cat] = c
    BY <1>6 DEF CategoryOfOwnCompany
  <2>6. \A c \in Companies : \A r \in Over(newRules'[t], rules')[c] : Over(newOwner'[t], owner')[r.cat] = c
    BY <2>1, <2>3, <2>4, <2>5, ViewMerge
  <2>7. QED
    BY <2>1, <2>2, <2>6 DEF ViewOK, RulesSeen, OwnerSeen, AtHome, DeletesLocked
<1>11. QED
  BY <1>6, <1>8, <1>9, <1>10 DEF HomeInv

\* Who is not blocked finds the rules it writes locked by nobody else.
LEMMA RulesFree ==
    ASSUME NEW s \in Savers, pc[s] \in {"delete", "rule", "keywords"}, ~Blocked(s)
    PROVE  \A t \in Savers \ {s} : Company(s) \notin DOMAIN newRules[t]
<1>1. <<"rules", Company(s)>> \in Needs(s)
  BY DEF Needs
<1>2. ASSUME NEW t \in Savers \ {s}, Company(s) \in DOMAIN newRules[t]
      PROVE  FALSE
  <2>1. <<"rules", Company(s)>> \in Holds(t)
    BY <1>2 DEF Holds
  <2>2. QED
    BY <1>1, <2>1 DEF Blocked, WaitsFor
<1>3. QED
  BY <1>2

LEMMA StatementHome ==
    ASSUME NEW h, HomeOf(h), HomeInv(h), NEW s \in Savers, Statement(s)
    PROVE  HomeInv(h)'
<1>1. /\ IInv' /\ Typed /\ OwnerSeen(s) \in [Cats -> Owners] /\ RulesSeen(s) \in [Companies -> SUBSET Rule]
      /\ Company(s) \in Companies /\ Cat(s) \in Cats /\ h[Cat(s)] = Company(s)
  <2>1. IInv' /\ Typed /\ PlaceOK /\ OwnerSeen(s) \in [Cats -> Owners] /\ RulesSeen(s) \in [Companies -> SUBSET Rule]
    BY StatementKeeps, SeenType DEF HomeInv, IInv, Typed
  <2>2. h[Cat(s)] = Company(s)
    BY <2>1 DEF HomeOf, Cat, Company, PlaceOK
  <2>3. QED
    BY <2>1, <2>2, PlaceFacts
<1>2. \A r \in RulesSeen(s)[Company(s)] : r.cat \in Cats /\ h[r.cat] = Company(s) /\ OwnerSeen(s)[r.cat] = Company(s)
  BY <1>1, RuleHome DEF HomeInv, ViewOK
<1>3. DOMAIN Nothing = {} /\ Over(Nothing, OwnerSeen(s)) = OwnerSeen(s)
  <2>1. OwnerSeen(s) = [k \in DOMAIN OwnerSeen(s) |-> OwnerSeen(s)[k]]
    BY <1>1
  <2>2. QED
    BY <2>1 DEF Nothing, Over
<1>4. \A S : DOMAIN At(Company(s), S) = {Company(s)} /\ At(Company(s), S)[Company(s)] = S
  BY DEF At
<1>5. CASE SaveCompany(s)
  <2>1. Write(s, {Company(s)} \ CompaniesSeen(s), Nothing, Nothing) /\ inTxn' = inTxn
    BY <1>5 DEF SaveCompany
  <2>2. QED
    BY <1>1, <1>3, <2>1, WriteHome DEF AtHome
<1>6. CASE Find(s) \/ DeleteFails(s)
  BY <1>1, <1>6, QuietHome DEF Find, DeleteFails, tables, writes
<1>7. CASE Delete(s)
  <2> DEFINE stripped == {[r EXCEPT !.kw = @ /\ Id(r) \notin found[s]] : r \in RulesSeen(s)[Company(s)]}
             rulesGone == \A r \in stripped : ~r.kw
             unused == /\ OwnedCats(s) \cap Used = {}
                       /\ \A d \in Companies \ {Company(s)} : \A r \in RulesSeen(s)[d] : r.cat \notin OwnedCats(s)
             O == IF rulesGone /\ unused THEN [k \in OwnedCats(s) |-> NoOwner] ELSE Nothing
             S == IF rulesGone THEN {} ELSE stripped
  <2>1. /\ pc[s] = "delete" /\ ~Blocked(s) /\ Write(s, {}, O, At(Company(s), S)) /\ inTxn' = inTxn
    BY <1>7 DEF Delete
  <2>2. \A k \in DOMAIN O : O[k] = NoOwner /\ k \in OwnedCats(s)
    BY <1>3
  <2>3. \A k \in OwnedCats(s) : k \in Cats /\ h[k] = Company(s)
    <3>1. ASSUME NEW k \in Cats, OwnerSeen(s)[k] = Company(s)
          PROVE  h[k] = Company(s)
      <4>1. OwnerSeen(s)[k] \in {h[k], NoOwner}
        BY <1>1, Seen DEF HomeInv, AtHome, Typed, TablesOK
      <4>2. QED
        BY <1>1, <3>1, <4>1, OwnerAssumption
    <3>2. QED
      BY <3>1 DEF OwnedCats
  <2>4. \A r \in S : r.cat \in Cats /\ Over(O, OwnerSeen(s))[r.cat] = Company(s)
    <3>1. CASE rulesGone
      BY <3>1
    <3>2. CASE ~rulesGone
      <4>1. O = Nothing /\ S = stripped
        BY <3>2
      <4>2. \A r \in stripped : \E q \in RulesSeen(s)[Company(s)] : r.cat = q.cat
        <5>1. ASSUME NEW q \in Rule, NEW b \in BOOLEAN
              PROVE  [q EXCEPT !.kw = b].cat = q.cat
          BY DEF Rule
        <5>2. \A q \in RulesSeen(s)[Company(s)] : q \in Rule /\ (q.kw /\ Id(q) \notin found[s]) \in BOOLEAN
          BY <1>1 DEF Rule
        <5>3. ASSUME NEW r \in stripped
              PROVE  \E q \in RulesSeen(s)[Company(s)] : r.cat = q.cat
          <6>1. PICK q \in RulesSeen(s)[Company(s)] :
                   r = [q EXCEPT !.kw = q.kw /\ Id(q) \notin found[s]]
            OBVIOUS
          <6>2. q \in Rule /\ (q.kw /\ Id(q) \notin found[s]) \in BOOLEAN
            BY <5>2
          <6>3. r.cat = q.cat
            BY <5>1, <6>1, <6>2
          <6>4. QED
            BY <6>3
        <5>4. QED
          BY <5>3
      <4>3. QED
        BY <1>2, <1>3, <4>1, <4>2
    <3>3. QED
      BY <3>1, <3>2
  <2> HIDE DEF O, S
  <2>5. \A t \in Savers \ {s} : Company(s) \notin DOMAIN newRules[t]
    BY <2>1, RulesFree
  <2>6. DOMAIN O \subseteq Cats /\ AtHome(h, O) /\ \A k \in DOMAIN O : h[k] = Company(s)
    BY <2>2, <2>3 DEF AtHome
  <2>7. QED
    BY <1>1, <1>4, <2>1, <2>4, <2>5, <2>6, WriteHome
<1>8. CASE SaveCategory(s)
  <2>1. Write(s, {}, At(Cat(s), Company(s)), Nothing) /\ inTxn' = inTxn
    BY <1>8 DEF SaveCategory
  <2>2. DOMAIN At(Cat(s), Company(s)) = {Cat(s)} /\ At(Cat(s), Company(s))[Cat(s)] = h[Cat(s)] /\ h[Cat(s)] # NoOwner
    BY <1>1, OwnerAssumption DEF At
  <2>3. AtHome(h, At(Cat(s), Company(s)))
    BY <2>2 DEF AtHome
  <2> DEFINE O == At(Cat(s), Company(s))
  <2> HIDE DEF O
  <2>4. Write(s, {}, O, Nothing) /\ DOMAIN O \subseteq Cats /\ AtHome(h, O) /\ \A k \in DOMAIN O : O[k] # NoOwner
    BY <1>1, <2>1, <2>2, <2>3 DEF O
  <2>5. QED
    BY <1>1, <1>3, <2>1, <2>4, WriteHome
<1>9. ASSUME NEW S, pc[s] \in {"rule", "keywords"}, ~Blocked(s), inTxn' = inTxn,
             Write(s, {}, Nothing, At(Company(s), S)),
             \A r \in S : r.cat = Cat(s) \/ r \in RulesSeen(s)[Company(s)],
             OwnerSeen(s)[Cat(s)] = Company(s)
      PROVE  HomeInv(h)'
  <2>1. \A t \in Savers \ {s} : Company(s) \notin DOMAIN newRules[t]
    BY <1>9, RulesFree
  <2>2. \A r \in S : r.cat \in Cats /\ OwnerSeen(s)[r.cat] = Company(s)
    BY <1>1, <1>2, <1>9
  <2>3. QED
    BY <1>1, <1>3, <1>4, <1>9, <2>1, <2>2, WriteHome DEF AtHome
<1>10. CASE SaveRule(s)
  <2>1. /\ pc[s] = "rule" /\ ~Blocked(s) /\ inTxn' = inTxn /\ OwnerSeen(s)[Cat(s)] # NoOwner
        /\ Write(s, {}, Nothing, At(Company(s), RulesSeen(s)[Company(s)] \cup {NewRule(s)}))
    BY <1>10 DEF SaveRule
  <2>2. OwnerSeen(s)[Cat(s)] = Company(s)
    <3>1. OwnerSeen(s)[Cat(s)] \in {h[Cat(s)], NoOwner}
      BY <1>1, Seen DEF HomeInv, AtHome, Typed, TablesOK
    <3>2. QED
      BY <1>1, <2>1, <3>1
  <2>3. NewRule(s).cat = Cat(s)
    BY DEF NewRule
  <2>4. QED
    BY <1>9, <2>1, <2>2, <2>3
<1>11. CASE SaveKeywords(s)
  <2> DEFINE S == (RulesSeen(s)[Company(s)] \ {NewRule(s)}) \cup {[NewRule(s) EXCEPT !.kw = TRUE]}
  <2>1. /\ pc[s] = "keywords" /\ ~Blocked(s) /\ inTxn' = inTxn /\ NewRule(s) \in RulesSeen(s)[Company(s)]
        /\ Write(s, {}, Nothing, At(Company(s), S))
    BY <1>11 DEF SaveKeywords
  <2>2. NewRule(s).cat = Cat(s) /\ [NewRule(s) EXCEPT !.kw = TRUE].cat = Cat(s)
    BY DEF NewRule
  <2>3. OwnerSeen(s)[Cat(s)] = Company(s)
    BY <1>2, <2>1, <2>2
  <2>4. \A r \in S : r.cat = Cat(s) \/ r \in RulesSeen(s)[Company(s)]
    BY <2>2
  <2> HIDE DEF S
  <2>5. QED
    BY <1>9, <2>1, <2>3, <2>4
<1>12. CASE Commit(s)
  BY <1>1, <1>12, CommitHome
<1>13. CASE Deadlock(s)
  <2>1. DropWrites({s}) /\ owner' = owner /\ rules' = rules /\ inTxn' = [inTxn EXCEPT ![s] = FALSE]
    BY <1>13 DEF Deadlock, tables
  <2>2. \A t \in Savers : inTxn'[t] = inTxn[t] \/ t \in {s}
    BY <1>1, <2>1 DEF Typed
  <2>3. QED
    BY <1>1, <2>1, <2>2, DropHome
<1>14. CASE Reject(s)
  <2>1. DropWrites({s}) /\ owner' = owner /\ rules' = rules /\ inTxn' = inTxn
    BY <1>14 DEF Reject, tables
  <2>2. QED
    BY <1>1, <2>1, DropHome
<1>15. QED
  BY <1>5, <1>6, <1>7, <1>8, <1>10, <1>11, <1>12, <1>13, <1>14 DEF Statement

LEMMA HomeStep ==
    ASSUME NEW h, HomeOf(h)
    PROVE  HomeInv(h) /\ [Next]_vars => HomeInv(h)'
<1> SUFFICES ASSUME HomeInv(h), [Next]_vars PROVE HomeInv(h)'
  OBVIOUS
<1>1. IInv'
  BY IInvStep DEF HomeInv
<1>2. CASE \E s \in Savers : Begin(s)
  BY <1>1, <1>2, QuietHome DEF Begin, tables, writes
<1>3. CASE Crash
  <2>1. DropWrites(Savers) /\ owner' = owner /\ rules' = rules /\ inTxn' = inTxn
    BY <1>3 DEF Crash, tables
  <2>2. QED
    BY <1>1, <2>1, DropHome
<1>4. CASE UNCHANGED vars
  BY <1>1, <1>4, QuietHome DEF vars, tables, writes
<1>5. QED
  BY <1>2, <1>3, <1>4, StatementHome DEF Next

\* As long as the files name every category under one company, no interleaving of
\* saves, deletions, deadlocks and crashes leaves a rule whose category is missing or
\* belongs to another company.
THEOREM CategoriesAtHome ==
    ASSUME NEW h, HomeOf(h)
    PROVE  Spec => []CategoryOfOwnCompany
<1>1. Init => HomeInv(h)
  BY HomeInit
<1>2. HomeInv(h) /\ [Next]_vars => HomeInv(h)'
  BY HomeStep
<1>3. HomeInv(h) => CategoryOfOwnCompany
  BY DEF HomeInv
<1>4. QED
  BY <1>1, <1>2, <1>3, PTL DEF Spec

-----------------------------------------------------------------------------
(***************************************************************************)
(* A save that meets no other save and no error replaces the rules of its  *)
(* companies.  Being alone, it finds every committed rule; so the deletion *)
(* strips them all of their keywords and goes through, in use or not.      *)
(***************************************************************************)

\* The rules that the companies of these entries had before are gone.
Cleared(s, i) ==
    pc[s] = "commit" \/ i < entry[s] \/ (i = entry[s] /\ pc[s] \in {"category", "rule", "keywords"})

Alone(s) ==
    ~disturbed[s] /\ Active(s) =>
        /\ inTxn[s]
        /\ \A t \in Savers \ {s} : ~Active(t)
        /\ \A c \in DOMAIN newRules[s] : \A r \in newRules[s][c] : r.by = s
        /\ pc[s] = "delete" => \A r \in rules[Company(s)] : Id(r) \in found[s]
        /\ \A i \in 1 .. Len(File[s]) : Cleared(s, i) => File[s][i].company \in DOMAIN newRules[s]

Unbegun(s) == pc[s] = "idle" => entry[s] = 1 /\ inTxn[s] /\ DOMAIN newRules[s] = {}

AloneInv == IInv /\ \A s \in Savers : Alone(s) /\ Unbegun(s)

LEMMA AloneInit == Init => AloneInv
BY IInvInit DEF AloneInv, Init, Alone, Unbegun, Active, Nothing

\* Within its transaction, a save that is alone goes on to a place where no more
\* entries are cleared than there were.
LEMMA AloneGoes ==
    ASSUME NEW s \in Savers, Typed, Alone(s), ~disturbed[s], Active(s), inTxn' = inTxn,
           \A t \in Savers \ {s} : pc'[t] = pc[t],
           pc'[s] = "delete" => \A r \in rules'[Company(s)'] : Id(r) \in found'[s],
           \A c \in DOMAIN newRules'[s] : \A r \in newRules'[s][c] : r.by = s,
           \A i \in 1 .. Len(File[s]) : Cleared(s, i)' =>
              Cleared(s, i) \/ File[s][i].company \in DOMAIN newRules'[s],
           DOMAIN newRules[s] \subseteq DOMAIN newRules'[s]
    PROVE  Alone(s)'
BY DEF Alone, Active

\* A write of rules of its own.
LEMMA AloneWrites ==
    ASSUME NEW s \in Savers, Typed, Alone(s), ~disturbed[s], Active(s),
           NEW C, NEW O, NEW R, Write(s, C, O, R), \A c \in DOMAIN R : \A r \in R[c] : r.by = s
    PROVE  /\ DOMAIN newRules'[s] = DOMAIN R \cup DOMAIN newRules[s]
           /\ \A c \in DOMAIN newRules'[s] : \A r \in newRules'[s][c] : r.by = s
<1>1. newRules'[s] = Over(R, newRules[s])
  BY WriteHeld DEF Typed, Alone
<1>2. \A c \in DOMAIN newRules[s] : \A r \in newRules[s][c] : r.by = s
  BY DEF Alone
<1>3. QED
  BY <1>1, <1>2 DEF Over

LEMMA StatementAlone ==
    ASSUME IInv, NEW s \in Savers, Alone(s), Statement(s), ~disturbed'[s], Active(s)'
    PROVE  Alone(s)'
<1>1. Typed /\ PlaceOK /\ RulesSeen(s) \in [Companies -> SUBSET Rule] /\ Company(s) \in Companies
      /\ PlaceOK' /\ disturbed \in [Savers -> BOOLEAN]
  BY PlaceFacts, SeenType, StatementKeeps DEF IInv, Typed
<1>2. Active(s)
  BY DEF Statement, SaveCompany, Find, Delete, DeleteFails, Deadlock, SaveCategory, SaveRule, SaveKeywords,
         Commit, Reject, Active
<1>3. \A t \in Savers \ {s} : pc'[t] = pc[t]
  BY <1>1, StatementOthers DEF Same
<1>4. DOMAIN Nothing = {}
  BY DEF Nothing
<1>5. \A S : DOMAIN At(Company(s), S) = {Company(s)} /\ At(Company(s), S)[Company(s)] = S
  BY DEF At
<1>6. CASE SaveCompany(s) \/ SaveCategory(s)
  <2>1. /\ \E C, O : Write(s, C, O, Nothing)
        /\ UNCHANGED <<entry, inTxn, disturbed>>
        /\ (pc[s] = "company" /\ pc'[s] = "find") \/ (pc[s] = "category" /\ pc'[s] = "rule")
    <3>1. CASE SaveCompany(s)
      <4>1. \E C, O : Write(s, C, O, Nothing)
        <5>1. Write(s, {Company(s)} \ CompaniesSeen(s), Nothing, Nothing)
          BY <3>1 DEF SaveCompany
        <5>2. QED
          BY <5>1
      <4>2. QED
        BY <1>1, <3>1, <4>1 DEF SaveCompany, Goto, PlaceOK
    <3>2. CASE SaveCategory(s)
      <4>1. \E C, O : Write(s, C, O, Nothing)
        <5>1. Write(s, {}, At(Cat(s), Company(s)), Nothing)
          BY <3>2 DEF SaveCategory
        <5>2. QED
          BY <5>1
      <4>2. QED
        BY <1>1, <3>2, <4>1 DEF SaveCategory, Goto, PlaceOK
    <3>3. QED
      BY <1>6, <3>1, <3>2
  <2>2. /\ DOMAIN newRules'[s] = DOMAIN newRules[s]
        /\ \A c \in DOMAIN newRules'[s] : \A r \in newRules'[s][c] : r.by = s
    BY <1>1, <1>2, <1>4, <2>1, AloneWrites
  <2>3. \A i : Cleared(s, i)' => Cleared(s, i)
    BY <2>1 DEF Cleared
  <2>4. QED
    BY <1>1, <1>2, <1>3, <2>1, <2>2, <2>3, AloneGoes
<1>7. CASE Find(s)
  <2>1. /\ pc[s] = "find" /\ pc'[s] = "delete" /\ UNCHANGED <<entry, inTxn, disturbed, rules, newRules>>
        /\ found'[s] = {Id(r) : r \in rules[Company(s)]}
    BY <1>1, <1>7 DEF Find, Goto, PlaceOK, tables, writes
  <2>2. Company(s)' = Company(s)
    BY <2>1 DEF Company
  <2>3. \A i : Cleared(s, i)' => Cleared(s, i)
    BY <2>1 DEF Cleared
  <2>4. \A r \in rules'[Company(s)'] : Id(r) \in found'[s]
    BY <2>1, <2>2
  <2>5. \A c \in DOMAIN newRules[s] : \A r \in newRules[s][c] : r.by = s
    BY <1>2, <2>1 DEF Alone
  <2>6. QED
    BY <1>1, <1>2, <1>3, <2>1, <2>3, <2>4, <2>5, AloneGoes
<1>8. CASE Delete(s)
  <2> DEFINE stripped == {[r EXCEPT !.kw = @ /\ Id(r) \notin found[s]] : r \in RulesSeen(s)[Company(s)]}
             rulesGone == \A r \in stripped : ~r.kw
             unused == /\ OwnedCats(s) \cap Used = {}
                       /\ \A d \in Companies \ {Company(s)} : \A r \in RulesSeen(s)[d] : r.cat \notin OwnedCats(s)
             O == IF rulesGone /\ unused THEN [k \in OwnedCats(s) |-> NoOwner] ELSE Nothing
             S == IF rulesGone THEN {} ELSE stripped
  <2>1. /\ pc[s] = "delete" /\ Write(s, {}, O, At(Company(s), S))
        /\ UNCHANGED <<entry, inTxn, disturbed>> /\ pc'[s] = "category"
    BY <1>1, <1>8 DEF Delete, Goto, PlaceOK
  <2>2. ASSUME NEW r \in stripped
        PROVE  \E q \in RulesSeen(s)[Company(s)] : r.by = q.by /\ (r.kw => Id(q) \notin found[s])
    <3>1. ASSUME NEW q \in Rule, NEW b \in BOOLEAN
          PROVE  [q EXCEPT !.kw = b].by = q.by /\ [q EXCEPT !.kw = b].kw = b
      BY DEF Rule
    <3>2. PICK q \in RulesSeen(s)[Company(s)] : r = [q EXCEPT !.kw = q.kw /\ Id(q) \notin found[s]]
      OBVIOUS
    <3>3. q \in Rule /\ (q.kw /\ Id(q) \notin found[s]) \in BOOLEAN
      BY <1>1, <3>2 DEF Rule
    <3>4. r.by = q.by /\ r.kw = (q.kw /\ Id(q) \notin found[s])
      BY <3>1, <3>2, <3>3
    <3>5. QED
      BY <3>4
  <2>3. \A r \in S : r.by = s
    <3>1. CASE Company(s) \in DOMAIN newRules[s]
      <4>1. RulesSeen(s)[Company(s)] = newRules[s][Company(s)]
        BY <1>1, <3>1, Seen
      <4>2. \A q \in RulesSeen(s)[Company(s)] : q.by = s
        BY <1>2, <2>1, <3>1, <4>1 DEF Alone
      <4>3. QED
        BY <2>2, <4>2
    <3>2. CASE Company(s) \notin DOMAIN newRules[s]
      <4>1. RulesSeen(s)[Company(s)] = rules[Company(s)]
        BY <1>1, <3>2, Seen
      <4>2. \A q \in RulesSeen(s)[Company(s)] : Id(q) \in found[s]
        BY <1>2, <2>1, <4>1 DEF Alone
      <4>3. rulesGone
        BY <2>2, <4>2
      <4>4. QED
        BY <4>3
    <3>3. QED
      BY <3>1, <3>2
  <2> HIDE DEF O, S
  <2>4. /\ DOMAIN newRules'[s] = {Company(s)} \cup DOMAIN newRules[s]
        /\ \A c \in DOMAIN newRules'[s] : \A r \in newRules'[s][c] : r.by = s
    BY <1>1, <1>2, <1>5, <2>1, <2>3, AloneWrites
  <2>5. \A i \in 1 .. Len(File[s]) : Cleared(s, i)' =>
           Cleared(s, i) \/ File[s][i].company \in DOMAIN newRules'[s]
    BY <2>1, <2>4 DEF Cleared, Company
  <2>6. QED
    BY <1>1, <1>2, <1>3, <2>1, <2>4, <2>5, AloneGoes
<1>9. CASE DeleteFails(s) \/ Deadlock(s)
  BY <1>1, <1>9 DEF DeleteFails, Deadlock
<1>10. CASE SaveRule(s) \/ SaveKeywords(s)
  <2>1. PICK S : /\ Write(s, {}, Nothing, At(Company(s), S))
                 /\ \A r \in S : r.by = s \/ r \in RulesSeen(s)[Company(s)]
    <3>1. NewRule(s).by = s /\ [NewRule(s) EXCEPT !.kw = TRUE].by = s
      BY DEF NewRule
    <3>2. CASE SaveRule(s)
      <4> WITNESS RulesSeen(s)[Company(s)] \cup {NewRule(s)}
      <4>1. QED
        BY <3>1, <3>2 DEF SaveRule
    <3>3. CASE SaveKeywords(s)
      <4> WITNESS (RulesSeen(s)[Company(s)] \ {NewRule(s)}) \cup {[NewRule(s) EXCEPT !.kw = TRUE]}
      <4>1. QED
        BY <3>1, <3>3 DEF SaveKeywords
    <3>4. QED
      BY <1>10, <3>2, <3>3
  <2>2. pc[s] \in {"rule", "keywords"} /\ UNCHANGED <<inTxn, disturbed>> /\ pc'[s] # "delete"
    BY <1>1, <1>10 DEF SaveRule, SaveKeywords, Goto, Advance, PlaceOK
  <2>3. Company(s) \in DOMAIN newRules[s]
    <3>1. entry[s] \in 1 .. Len(File[s]) /\ Cleared(s, entry[s])
      BY <1>1, <2>2 DEF Cleared, PlaceOK
    <3>2. QED
      BY <1>2, <2>2, <3>1 DEF Alone, Company
  <2>4. \A r \in S : r.by = s
    <3>1. RulesSeen(s)[Company(s)] = newRules[s][Company(s)]
      BY <1>1, <2>3, Seen
    <3>2. QED
      BY <1>2, <2>1, <2>2, <2>3, <3>1 DEF Alone
  <2>5. /\ DOMAIN newRules'[s] = DOMAIN newRules[s]
        /\ \A c \in DOMAIN newRules'[s] : \A r \in newRules'[s][c] : r.by = s
    <3>1. ~disturbed[s]
      BY <2>2
    <3>2. DOMAIN At(Company(s), S) = {Company(s)} /\ At(Company(s), S)[Company(s)] = S
      BY <1>5
    <3>3. \A c \in DOMAIN At(Company(s), S) : \A r \in At(Company(s), S)[c] : r.by = s
      BY <2>4, <3>2
    <3>4. /\ DOMAIN newRules'[s] = DOMAIN At(Company(s), S) \cup DOMAIN newRules[s]
          /\ \A c \in DOMAIN newRules'[s] : \A r \in newRules'[s][c] : r.by = s
      BY <1>1, <1>2, <2>1, <3>1, <3>3, AloneWrites
    <3>5. QED
      BY <2>3, <3>2, <3>4
  <2>6. ASSUME NEW i \in 1 .. Len(File[s]), Cleared(s, i)'
        PROVE  Cleared(s, i)
    <3>1. entry[s] \in 1 .. Len(File[s]) /\ Len(File[s]) \in Nat
      BY <1>1, FileFacts DEF PlaceOK
    <3>2. CASE SaveRule(s)
      <4>1. pc'[s] = "keywords" /\ entry' = entry /\ pc[s] = "rule"
        BY <1>1, <3>2 DEF SaveRule, Goto, PlaceOK
      <4>2. QED
        BY <2>6, <4>1 DEF Cleared
    <3>3. CASE SaveKeywords(s)
      <4>1. /\ pc[s] = "keywords"
            /\ \/ pc'[s] = "category" /\ entry'[s] = entry[s]
               \/ pc'[s] = "company" /\ entry'[s] = entry[s] + 1
               \/ pc'[s] = "commit" /\ ~(entry[s] < Len(File[s]))
        BY <1>1, <3>3 DEF SaveKeywords, Advance, Goto, PlaceOK
      <4>2. i <= entry[s]
        BY <2>6, <3>1, <4>1 DEF Cleared
      <4>3. QED
        BY <3>1, <4>1, <4>2 DEF Cleared
    <3>4. QED
      BY <1>10, <3>2, <3>3
  <2>7. QED
    BY <1>1, <1>2, <1>3, <2>2, <2>5, <2>6, AloneGoes
<1>11. CASE Commit(s) \/ Reject(s)
  BY <1>1, <1>11 DEF Commit, Reject, Goto, Active, PlaceOK
<1>12. QED
  BY <1>6, <1>7, <1>8, <1>9, <1>10, <1>11 DEF Statement

LEMMA AloneStep == AloneInv /\ [Next]_vars => AloneInv'
<1> SUFFICES ASSUME AloneInv, [Next]_vars PROVE AloneInv'
  OBVIOUS
<1>1. IInv /\ IInv' /\ Typed /\ PlaceOK /\ disturbed \in [Savers -> BOOLEAN]
  BY IInvStep DEF AloneInv, IInv, Typed
<1>2. ASSUME NEW s \in Savers, Begin(s), NEW t \in Savers
      PROVE  Alone(t)' /\ Unbegun(t)'
  <2> DEFINE others == {q \in Savers : Active(q)}
  <2>1. /\ pc[s] = "idle" /\ pc' = [pc EXCEPT ![s] = "company"]
        /\ disturbed' = [q \in Savers |-> disturbed[q] \/ (others # {} /\ q \in others \cup {s})]
        /\ UNCHANGED <<entry, inTxn, newRules>>
    BY <1>2 DEF Begin, Goto, writes
  <2>2. \A q \in Savers : pc'[q] = IF q = s THEN "company" ELSE pc[q]
    BY <1>1, <2>1 DEF PlaceOK
  <2>3. Unbegun(t)'
    BY <2>1, <2>2 DEF AloneInv, Unbegun
  <2>4. CASE t = s
    <3>1. CASE others # {}
      BY <2>1, <2>3, <2>4, <3>1 DEF Alone
    <3>2. CASE others = {}
      <4>1. \A q \in Savers \ {s} : ~Active(q)'
        BY <2>2, <3>2 DEF Active
      <4>2. entry'[s] = 1 /\ inTxn'[s] /\ DOMAIN newRules'[s] = {} /\ pc'[s] = "company"
        BY <2>1, <2>2 DEF AloneInv, Unbegun
      <4>3. \A i \in 1 .. Len(File[s]) : ~Cleared(s, i)'
        <5>1. ASSUME NEW i \in 1 .. Len(File[s])
              PROVE  ~(i < 1)
          BY FileFacts
        <5>2. QED
          BY <4>2, <5>1 DEF Cleared
      <4>4. QED
        BY <2>3, <2>4, <4>1, <4>2, <4>3 DEF Alone
    <3>3. QED
      BY <3>1, <3>2
  <2>5. CASE t # s
    <3>1. Active(t)' => disturbed'[t]
      BY <2>1, <2>2, <2>5 DEF Active
    <3>2. QED
      BY <2>3, <3>1 DEF Alone
  <2>6. QED
    BY <2>3, <2>4, <2>5
<1>3. ASSUME NEW s \in Savers, Statement(s), NEW t \in Savers
      PROVE  Alone(t)' /\ Unbegun(t)'
  <2>1. Active(s)
    BY <1>3 DEF Statement, SaveCompany, Find, Delete, DeleteFails, Deadlock, SaveCategory, SaveRule, SaveKeywords,
                Commit, Reject, Active
  <2>2. CASE t = s
    <3>1. pc'[s] # "idle"
      BY <1>1, <1>3 DEF Statement, SaveCompany, Find, Delete, DeleteFails, Deadlock, SaveCategory, SaveRule,
                SaveKeywords, Commit, Reject, Goto, Advance, PlaceOK
    <3>2. Alone(s)'
      BY <1>1, <1>3, StatementAlone DEF AloneInv, Alone
    <3>3. QED
      BY <2>2, <3>1, <3>2 DEF Unbegun
  <2>3. CASE t # s
    <3>1. Same(t)
      BY <1>1, <1>3, <2>3, StatementOthers
    <3>2. disturbed'[t] = disturbed[t]
      BY <1>1, <1>3, <2>3 DEF Statement, SaveCompany, Find, Delete, DeleteFails, Deadlock, SaveCategory, SaveRule,
                SaveKeywords, Commit, Reject
    <3>3. ~(~disturbed'[t] /\ Active(t)')
      BY <2>1, <2>3, <3>1, <3>2 DEF AloneInv, Alone, Same, Active
    <3>4. QED
      BY <3>1, <3>3 DEF AloneInv, Alone, Unbegun, Same
  <2>4. QED
    BY <2>2, <2>3
<1>4. ASSUME Crash, NEW t \in Savers
      PROVE  Alone(t)' /\ Unbegun(t)'
  <2>1. /\ pc'[t] = (IF Active(t) THEN "rejected" ELSE pc[t]) /\ newRules'[t] = Nothing
        /\ UNCHANGED <<entry, inTxn>>
    BY <1>4 DEF Crash, DropWrites
  <2>2. ~Active(t)' /\ (pc'[t] = "idle" => pc[t] = "idle")
    BY <2>1 DEF Active
  <2>3. QED
    BY <2>1, <2>2 DEF AloneInv, Alone, Unbegun, Nothing
<1>5. ASSUME UNCHANGED vars, NEW t \in Savers
      PROVE  Alone(t)' /\ Unbegun(t)'
  BY <1>5 DEF AloneInv, Alone, Unbegun, Cleared, Active, Company, vars, tables, place, writes
<1>6. QED
  BY <1>1, <1>2, <1>3, <1>4, <1>5 DEF Next, AloneInv

\* A save that no other save overlaps and whose deletions meet no error leaves its
\* companies with its own rules only, even if their categories are in use.
THEOREM AloneComplete == Spec => AloneReplaces
<1> DEFINE Replaced(s) == \A c \in FileCompanies(s) : \A r \in rules'[c] : r.by = s
<1>1. ASSUME AloneInv, NEW s \in Savers, Commit(s), ~disturbed[s]
      PROVE  Replaced(s)
  <2>1. pc[s] = "commit" /\ rules' = Over(newRules[s], rules) /\ Alone(s)
    BY <1>1 DEF Commit, AloneInv
  <2>2. ASSUME NEW i \in 1 .. Len(File[s])
        PROVE  File[s][i].company \in DOMAIN newRules[s]
    BY <1>1, <2>1 DEF Alone, Active, Cleared
  <2>3. \A c \in DOMAIN newRules[s] : rules'[c] = newRules[s][c]
    BY <2>1 DEF Over
  <2>4. \A c \in DOMAIN newRules[s] : \A r \in newRules[s][c] : r.by = s
    BY <1>1, <2>1 DEF Alone, Active
  <2>5. QED
    BY <2>2, <2>3, <2>4 DEF FileCompanies
<1>2. AloneInv => [\A s \in Savers : Commit(s) /\ ~disturbed[s] => Replaced(s)]_vars
  BY <1>1
<1>3. QED
  BY <1>2, AloneInit, AloneStep, PTL DEF Spec, AloneReplaces
=============================================================================
