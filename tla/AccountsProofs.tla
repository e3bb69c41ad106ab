---------------------------- MODULE AccountsProofs ----------------------------
(***************************************************************************)
(* Accounts for any processes, clients, names, companies and amount of     *)
(* trouble: what a token says, for whom requests act, and that starts      *)
(* which run into each other still leave an administrator.                 *)
(***************************************************************************)
EXTENDS Accounts, TLAPS

(***************************************************************************)
(* The tables.                                                             *)
(***************************************************************************)
TablesOK ==
    /\ users \in SUBSET User /\ companies \in SUBSET Companies /\ lastId \in Nat
    /\ Constraints(users, companies)
    /\ \A u \in users : u.id <= lastId

ProcsOK ==
    /\ proc \in [Procs -> Seeding \cup {"off", "up", "ended"}]
    /\ runs \in [Procs -> 0 .. 2]
    /\ \A p \in Procs : proc[p] \in Seeding => runs[p] \in 1 .. 2
    /\ \A p \in Procs : proc[p] = "saveUser" => AdminCompany \in companies

\* An insertion that the constraints let in keeps them.
LEMMA InsertOK ==
    ASSUME TablesOK, NEW name \in Names, NEW type \in UserType, NEW company \in Companies \cup {Null},
           NEW word \in Passwords, Insert(name, type, company, word), UNCHANGED companies
    PROVE  TablesOK'
<1> DEFINE new == [id |-> lastId + 1, name |-> name, type |-> type, company |-> company, password |-> word]
<1>1. new \in User /\ lastId + 1 \in Nat
  BY DEF TablesOK, User
<1>2. users' = users \cup {new} /\ lastId' = lastId + 1
  BY DEF Insert
<1>3. \A u \in users : u.id # new.id /\ u.name # new.name /\ u.id <= lastId + 1
  BY DEF TablesOK, User, Insert, Insertable
<1>4. new.company \in companies \cup {Null}
  BY DEF Insert, Insertable
<1>5. QED
  BY <1>1, <1>2, <1>3, <1>4 DEF TablesOK, Constraints

LEMMA ChangeOK ==
    ASSUME TablesOK, NEW u \in users, ChangeUser(u)
    PROVE  TablesOK'
<1>1. PICK S \in {{}} \cup {{v} : v \in Changed(u)} : users' = (users \ {u}) \cup S
  BY DEF ChangeUser
<1>2. UNCHANGED <<companies, lastId>>
  BY DEF ChangeUser
<1>3. \A v \in Changed(u) :
        /\ v \in User /\ v.id = u.id
        /\ v.name = u.name \/ \A w \in users : w.name # v.name
        /\ v.company \in companies \cup {Null}
  BY DEF TablesOK, User, Changed, Constraints
<1>4. QED
  BY <1>1, <1>2, <1>3 DEF TablesOK, Constraints, User

LEMMA SeedingFacts ==
    /\ {"find", "saveUser"} \subseteq Seeding
    /\ \A s \in {"off", "up", "ended"} : s \notin Seeding /\ s # "saveUser"
    /\ "find" # "saveUser"
BY DEF Seeding

\* A process goes on to a statement with some runs left.
LEMMA MoveOK ==
    ASSUME ProcsOK, NEW p \in Procs, companies \subseteq companies',
           NEW s \in Seeding \cup {"off", "up", "ended"}, NEW n \in 0 .. 2,
           s \in Seeding => n \in 1 .. 2,
           s = "saveUser" => AdminCompany \in companies',
           proc' = [proc EXCEPT ![p] = s], runs' = [runs EXCEPT ![p] = n]
    PROVE  ProcsOK'
BY DEF ProcsOK

LEMMA GotoOK ==
    ASSUME ProcsOK, NEW p \in Procs, proc[p] \in Seeding, companies \subseteq companies',
           NEW s \in Seeding, s = "saveUser" => AdminCompany \in companies', Goto(p, s)
    PROVE  ProcsOK'
<1>1. runs' = [runs EXCEPT ![p] = runs[p]] /\ runs[p] \in 1 .. 2
  BY DEF ProcsOK, Goto
<1>2. PICK n \in 0 .. 2 : n \in 1 .. 2 /\ n = runs[p]
  BY <1>1
<1>3. proc' = [proc EXCEPT ![p] = s] /\ runs' = [runs EXCEPT ![p] = n]
  BY <1>1, <1>2 DEF Goto
<1>4. QED
  BY <1>2, <1>3, MoveOK

LEMMA EndRunOK ==
    ASSUME ProcsOK, NEW p \in Procs, proc[p] \in Seeding, companies \subseteq companies', EndRun(p)
    PROVE  ProcsOK'
<1>1. PICK r \in 1 .. 2 : r = runs[p]
  BY DEF ProcsOK
<1>2. PICK n \in 0 .. 2 : n = r - 1
  OBVIOUS
<1>3. runs' = [runs EXCEPT ![p] = n]
  BY <1>1, <1>2 DEF EndRun
<1>4. CASE r = 2
  <2>1. n \in 1 .. 2
    BY <1>2, <1>4
  <2>2. proc' = [proc EXCEPT ![p] = "find"]
    BY <1>1, <1>4 DEF EndRun
  <2>3. PICK s \in Seeding : proc' = [proc EXCEPT ![p] = s] /\ s # "saveUser"
    BY <2>2, SeedingFacts
  <2>4. QED
    BY <1>3, <2>1, <2>3, MoveOK
<1>5. CASE r = 1
  <2>1. PICK s \in {"up", "ended"} : proc' = [proc EXCEPT ![p] = s]
    <3>1. ~(runs[p] > 1)
      BY <1>1, <1>5
    <3>2. CASE p \in Scripts
      BY <3>1, <3>2 DEF EndRun
    <3>3. CASE p \notin Scripts
      BY <3>1, <3>3 DEF EndRun
    <3>4. QED
      BY <3>2, <3>3
  <2>2. s \notin Seeding /\ s # "saveUser"
    BY SeedingFacts
  <2>3. QED
    BY <1>3, <2>1, <2>2, MoveOK
<1>6. QED
  BY <1>4, <1>5

LEMMA SeederTables ==
    ASSUME TablesOK, ProcsOK, NEW p \in Procs, Start(p) \/ SeederStep(p) \/ SeederError(p) \/ Crash(p)
    PROVE  TablesOK' /\ ProcsOK'
<1>1. CASE SaveUser(p)
  <2>1. TablesOK'
    <3>1. CASE Insert(AdminName, "ADMIN", AdminCompany, AdminPassword)
      BY <1>1, <3>1, InsertOK, SeederAssumption DEF SaveUser, UserType
    <3>2. CASE UNCHANGED <<users, lastId>>
      BY <1>1, <3>2 DEF SaveUser, TablesOK
    <3>3. QED
      BY <1>1, <3>1, <3>2 DEF SaveUser
  <2>2. ProcsOK'
    BY <1>1, EndRunOK DEF SaveUser, Seeding
  <2>3. QED
    BY <2>1, <2>2
<1>2. CASE SaveCompany(p)
  <2>1. companies \subseteq companies' /\ companies' \in SUBSET Companies /\ UNCHANGED <<users, lastId>>
    BY <1>2, SeederAssumption DEF SaveCompany, TablesOK
  <2>2. TablesOK'
    BY <2>1 DEF TablesOK, Constraints
  <2>3. ProcsOK'
    BY <1>2, <2>1, GotoOK, EndRunOK DEF SaveCompany, Seeding
  <2>4. QED
    BY <2>2, <2>3
<1>3. CASE Start(p)
  <2>1. PICK n \in 0 .. 2 : /\ runs' = [runs EXCEPT ![p] = n]
                            /\ proc' = [proc EXCEPT ![p] = IF n = 0 THEN "up" ELSE "find"]
    <3>1. PICK a \in {0, 1} : a = IF config.seeds THEN 1 ELSE 0
      OBVIOUS
    <3>2. PICK b \in {0, 1} : b = IF p \in Scripts THEN 1 ELSE 0
      OBVIOUS
    <3>3. a + b \in 0 .. 2
      OBVIOUS
    <3>4. QED
      BY <1>3, <3>1, <3>2, <3>3 DEF Start
  <2>2. UNCHANGED tableVars
    BY <1>3 DEF Start
  <2>3. ProcsOK'
    <3>1. companies \subseteq companies' /\ runs' = [runs EXCEPT ![p] = n]
      BY <2>1, <2>2 DEF tableVars
    <3>2. CASE n = 0
      <4>1. PICK s \in {"up", "off"} : proc' = [proc EXCEPT ![p] = s]
        BY <2>1, <3>2
      <4>2. s \notin Seeding /\ s # "saveUser"
        BY SeedingFacts
      <4>3. QED
        BY <3>1, <4>1, <4>2, MoveOK
    <3>3. CASE n # 0
      <4>1. PICK s \in Seeding : proc' = [proc EXCEPT ![p] = s] /\ s # "saveUser"
        BY <2>1, <3>3, SeedingFacts
      <4>2. n \in 1 .. 2
        BY <3>3
      <4>3. QED
        BY <3>1, <4>1, <4>2, MoveOK
    <3>4. QED
      BY <3>2, <3>3
  <2>4. QED
    BY <2>2, <2>3 DEF tableVars, TablesOK
<1>4. CASE RefusePassword(p) \/ FindUser(p) \/ FindCompany(p)
  <2>1. proc[p] \in Seeding /\ UNCHANGED tableVars
    BY <1>4 DEF RefusePassword, FindUser, FindCompany, Seeding
  <2>2. EndRun(p) \/ \E s \in Seeding : Goto(p, s) /\ (s = "saveUser" => AdminCompany \in companies)
    BY <1>4 DEF RefusePassword, FindUser, FindCompany, Seeding
  <2>3. ProcsOK'
    BY <2>1, <2>2, EndRunOK, GotoOK DEF tableVars
  <2>4. QED
    BY <2>1, <2>3 DEF tableVars, TablesOK
<1>5. CASE SeederError(p)
  BY <1>5, EndRunOK DEF SeederError, tableVars, TablesOK
<1>6. CASE Crash(p)
  <2>1. PICK s \in {"off", "ended"}, n \in 0 .. 2 : proc' = [proc EXCEPT ![p] = s] /\ runs' = [runs EXCEPT ![p] = n]
    BY <1>6 DEF Crash
  <2>2. UNCHANGED tableVars
    BY <1>6 DEF Crash
  <2>3. ProcsOK'
    BY <2>1, <2>2, SeedingFacts, MoveOK DEF tableVars
  <2>4. QED
    BY <2>2, <2>3 DEF tableVars, TablesOK
<1>7. QED
  BY <1>1, <1>2, <1>3, <1>4, <1>5, <1>6 DEF SeederStep

(***************************************************************************)
(* The calls.  What was read was seen, and a request that was let in has a *)
(* row behind it that agrees with its token.                               *)
(***************************************************************************)
CallOK(c) ==
    /\ stage[c] \in UnderWay =>
          /\ users \subseteq seen[c] /\ read[c] \subseteq seen[c]
          /\ \E p \in Apps : server[c] = {p} /\ proc[p] = "up"
    /\ stage[c] \in {"new", "done"} => server[c] = {}
    /\ stage[c] = "guard" => \E t \in Claims : brings[c] = {t} /\ \A u \in read[c] : u.id = t.id
    /\ stage[c] = "open" => \E t \in Claims : brings[c] = {t} /\ \E u \in read[c] : u.id = t.id /\ Agrees(u, t)

ClientsOK ==
    /\ tokens \in SUBSET Claims
    /\ stage \in [Clients -> Stages]
    /\ server = [c \in Clients |-> server[c]]
    /\ read \in [Clients -> SUBSET User]
    /\ brings = [c \in Clients |-> brings[c]]
    /\ seen = [c \in Clients |-> seen[c]]
    /\ \A c \in Clients : CallOK(c)

IInv == TablesOK /\ ProcsOK /\ ClientsOK

LEMMA ClaimsType ==
    ASSUME NEW u \in User
    PROVE  ClaimsOf(u) \in Claims
BY DEF ClaimsOf, Claims, User

LEMMA InitInv == Init => IInv
<1> SUFFICES ASSUME Init PROVE IInv
  OBVIOUS
<1>1. TablesOK
  <2>1. PICK t \in Tables0 : users = t.users /\ companies = t.companies
    BY DEF Init, SeederInit
  <2>2. t.users \in SUBSET User /\ t.companies \in SUBSET Companies /\ Constraints(t.users, t.companies)
    BY SeederAssumption
  <2>3. lastId \in Nat /\ \A u \in users : u.id <= lastId
    BY <2>1, <2>2 DEF Init, SeederInit, User
  <2>4. QED
    BY <2>1, <2>2, <2>3 DEF TablesOK
<1>2. ProcsOK
  BY DEF Init, SeederInit, ProcsOK, Seeding
<1>3. ClientsOK
  BY <1>1, ClaimsType DEF Init, TablesOK, ClientsOK, CallOK, Stages, UnderWay
<1>4. QED
  BY <1>1, <1>2, <1>3 DEF IInv

\* Where no process stops listening, the other calls go on as before.
LEMMA OthersOK ==
    ASSUME IInv, Watch, users' \in SUBSET User, NEW c \in Clients,
           stage'[c] = stage[c], server'[c] = server[c], read'[c] = read[c], brings'[c] = brings[c],
           \A p \in Procs : proc[p] = "up" => proc'[p] = "up"
    PROVE  CallOK(c)'
<1>1. CallOK(c) /\ Apps \subseteq Procs
  BY DEF IInv, ClientsOK, Procs
<1>2. seen'[c] = IF stage'[c] \in UnderWay THEN seen[c] \cup users' ELSE {}
  BY DEF Watch
<1>3. QED
  BY <1>1, <1>2 DEF CallOK, Agrees

LEMMA WatchType == Watch => seen' = [c \in Clients |-> seen'[c]]
BY DEF Watch

\* A step that concerns the call of one client.
LEMMA ClientOK ==
    ASSUME IInv, Watch, TablesOK', ProcsOK', UNCHANGED procVars, tokens' \in SUBSET Claims,
           NEW c \in Clients, NEW s \in Stages, NEW v, NEW rows \in SUBSET User, NEW b,
           stage' = [stage EXCEPT ![c] = s], server' = [server EXCEPT ![c] = v],
           read' = [read EXCEPT ![c] = rows], brings' = [brings EXCEPT ![c] = b],
           CallOK(c)'
    PROVE  IInv'
<1>1. /\ stage' \in [Clients -> Stages] /\ read' \in [Clients -> SUBSET User]
      /\ server' = [d \in Clients |-> server'[d]] /\ brings' = [d \in Clients |-> brings'[d]]
      /\ seen' = [d \in Clients |-> seen'[d]]
  BY WatchType DEF IInv, ClientsOK
<1>2. ASSUME NEW d \in Clients, d # c
      PROVE  CallOK(d)'
  <2>1. stage'[d] = stage[d] /\ server'[d] = server[d] /\ read'[d] = read[d] /\ brings'[d] = brings[d]
    BY <1>2 DEF IInv, ClientsOK
  <2>2. \A p \in Procs : proc[p] = "up" => proc'[p] = "up"
    BY DEF procVars
  <2>3. users' \in SUBSET User
    BY DEF TablesOK
  <2>4. QED
    BY <2>1, <2>2, <2>3, OthersOK
<1>3. \A d \in Clients : CallOK(d)'
  BY <1>2
<1>4. QED
  BY <1>1, <1>3 DEF IInv, ClientsOK

LEMMA ArriveOK ==
    ASSUME IInv, Watch, NEW c \in Clients, NEW p \in Apps, NEW s \in {"login", "guard"},
           NEW rows \in SUBSET users, NEW x, Arrive(c, p, s, rows, x),
           s = "guard" => x \in Claims /\ \A u \in rows : u.id = x.id
    PROVE  IInv'
<1>1. /\ stage' = [stage EXCEPT ![c] = s] /\ server' = [server EXCEPT ![c] = {p}]
      /\ read' = [read EXCEPT ![c] = rows] /\ brings' = [brings EXCEPT ![c] = {x}]
      /\ proc[p] = "up" /\ UNCHANGED <<seederVars, tokens>>
  BY DEF Arrive
<1>2. TablesOK' /\ ProcsOK' /\ UNCHANGED procVars /\ tokens' \in SUBSET Claims
  BY <1>1 DEF IInv, TablesOK, ProcsOK, ClientsOK, seederVars, tableVars, procVars
<1>3. rows \in SUBSET User /\ s \in Stages /\ s \in UnderWay /\ s \notin {"new", "done", "open"}
  BY DEF IInv, TablesOK, Stages, UnderWay
<1>4. stage'[c] = s /\ server'[c] = {p} /\ read'[c] = rows /\ brings'[c] = {x}
  BY <1>1 DEF IInv, ClientsOK
<1>5. users' = users /\ proc' = proc /\ seen'[c] = seen[c] \cup users'
  BY <1>1, <1>3, <1>4 DEF Watch, seederVars, tableVars, procVars
<1>6. CallOK(c)'
  BY <1>1, <1>3, <1>4, <1>5 DEF CallOK
<1>7. QED
  BY <1>1, <1>2, <1>3, <1>6, ClientOK

LEMMA AnswerOK ==
    ASSUME IInv, Watch, NEW c \in Clients, Answer(c), TablesOK', UNCHANGED <<companies, procVars>>,
           tokens' \in SUBSET Claims
    PROVE  IInv'
<1>1. ProcsOK'
  BY DEF IInv, ProcsOK, procVars
<1>2. "done" \in Stages /\ "done" \notin UnderWay /\ {} \in SUBSET User
  BY DEF Stages, UnderWay
<1>3. stage'[c] = "done" /\ server'[c] = {}
  BY DEF Answer, IInv, ClientsOK
<1>4. CallOK(c)'
  BY <1>2, <1>3 DEF CallOK
<1>5. QED
  BY <1>1, <1>2, <1>4, ClientOK DEF Answer

LEMMA CallKeeps ==
    ASSUME IInv, Watch, NEW c \in Clients, Call(c)
    PROVE  IInv'
<1> USE DEF tableVars, seederVars
<1>1. CASE \E p \in Apps, name \in Names, password \in Passwords : ValidateUser(c, p, name, password)
  <2>1. PICK p \in Apps, name \in Names, password \in Passwords : ValidateUser(c, p, name, password)
    BY <1>1
  <2>2. QED
    BY <2>1, ArriveOK DEF ValidateUser
<1>2. CASE \E p \in Apps, token \in tokens : Present(c, p, token)
  <2>1. PICK p \in Apps, token \in tokens : Present(c, p, token)
    BY <1>2
  <2>2. token \in Claims
    BY DEF IInv, ClientsOK
  <2>3. QED
    BY <2>1, <2>2, ArriveOK DEF Present
<1>3. CASE Login(c)
  <2>1. TablesOK' /\ UNCHANGED <<companies, procVars>>
    BY <1>3 DEF Login, IInv, TablesOK
  <2>2. PICK u \in read[c] : tokens' = tokens \cup {ClaimsOf(u)}
    BY <1>3 DEF Login
  <2>3. tokens' \in SUBSET Claims
    BY <2>2, ClaimsType DEF IInv, ClientsOK
  <2>4. QED
    BY <1>3, <2>1, <2>3, AnswerOK DEF Login
<1>4. CASE \/ RefuseLogin(c) \/ RefuseRequest(c) \/ ProcessTransactions(c)
           \/ \E company \in Companies : GetTransactionRecords(c, company)
  <2>1. Answer(c) /\ UNCHANGED <<seederVars, tokens>>
    BY <1>4 DEF RefuseLogin, RefuseRequest, ProcessTransactions, GetTransactionRecords, Does
  <2>2. TablesOK' /\ UNCHANGED <<companies, procVars>> /\ tokens' \in SUBSET Claims
    BY <2>1 DEF IInv, TablesOK, ClientsOK
  <2>3. QED
    BY <2>1, <2>2, AnswerOK
<1>5. CASE Validate(c)
  <2>1. TablesOK' /\ ProcsOK' /\ UNCHANGED <<users, companies, procVars>> /\ tokens' \in SUBSET Claims
    BY <1>5 DEF Validate, IInv, TablesOK, ProcsOK, ClientsOK, procVars
  <2>2. CASE Answer(c)
    BY <2>1, <2>2, AnswerOK
  <2>3. CASE /\ \E u \in read[c], t \in brings[c] : Agrees(u, t)
             /\ stage' = [stage EXCEPT ![c] = "open"] /\ UNCHANGED <<server, read, brings>>
    <3>1. /\ server' = [server EXCEPT ![c] = server[c]] /\ read' = [read EXCEPT ![c] = read[c]]
          /\ brings' = [brings EXCEPT ![c] = brings[c]] /\ read[c] \in SUBSET User /\ stage'[c] = "open"
      BY <2>3 DEF IInv, ClientsOK
    <3>2. "open" \in Stages /\ "open" \in UnderWay /\ "guard" \in UnderWay
      BY DEF Stages, UnderWay
    <3>3. CallOK(c) /\ stage[c] = "guard"
      BY <1>5 DEF Validate, IInv, ClientsOK
    <3>4. seen'[c] = seen[c] \cup users /\ proc' = proc
      BY <2>1, <3>1, <3>2 DEF Watch, procVars
    <3>5. PICK t \in Claims : brings[c] = {t} /\ \A u \in read[c] : u.id = t.id
      BY <3>3 DEF CallOK
    <3>6. \E u \in read[c] : u.id = t.id /\ Agrees(u, t)
      BY <2>3, <3>5
    <3>7. CallOK(c)'
      BY <2>1, <2>3, <3>1, <3>2, <3>3, <3>4, <3>5, <3>6 DEF CallOK, Agrees
    <3>8. QED
      BY <2>1, <2>3, <3>1, <3>2, <3>7, ClientOK
  <2>4. QED
    BY <1>5, <2>2, <2>3 DEF Validate
<1>6. CASE \E name \in Names, type \in UserType, company \in Companies \cup {Null}, password \in Passwords :
              CreateUser(c, name, type, company, password)
  <2>1. PICK name \in Names, type \in UserType, company \in Companies \cup {Null}, password \in Passwords :
            CreateUser(c, name, type, company, password)
    BY <1>6
  <2>2. TablesOK'
    BY <2>1, InsertOK DEF CreateUser, IInv
  <2>3. Answer(c) /\ UNCHANGED <<companies, procVars>> /\ tokens' \in SUBSET Claims
    BY <2>1 DEF CreateUser, Does, IInv, ClientsOK
  <2>4. QED
    BY <2>2, <2>3, AnswerOK
<1>7. QED
  BY <1>1, <1>2, <1>3, <1>4, <1>5, <1>6 DEF Call

\* Only a crash ends a process that listens.
LEMMA StillUp ==
    ASSUME ProcsOK, NEW p \in Procs, Start(p) \/ SeederStep(p) \/ SeederError(p), NEW q \in Procs, proc[q] = "up"
    PROVE  proc'[q] = "up"
<1>1. proc[p] # "up"
  BY DEF Start, SeederStep, RefusePassword, FindUser, FindCompany, SaveCompany, SaveUser, SeederError, Seeding
<1>2. PICK s : proc' = [proc EXCEPT ![p] = s]
  BY DEF Start, SeederStep, RefusePassword, FindUser, FindCompany, SaveCompany, SaveUser, SeederError, Goto, EndRun
<1>3. QED
  BY <1>1, <1>2 DEF ProcsOK

LEMMA StartedKeeps ==
    ASSUME IInv, Watch, NEW p \in Procs, Started(p)
    PROVE  IInv'
<1>1. TablesOK' /\ ProcsOK'
  BY SeederTables DEF Started, IInv
<1>2. UNCHANGED <<tokens, clientVars>>
  BY DEF Started
<1>3. \A q \in Procs : proc[q] = "up" => proc'[q] = "up"
  BY StillUp DEF Started, IInv
<1>4. users' \in SUBSET User
  BY <1>1 DEF TablesOK
<1>5. \A c \in Clients : CallOK(c)'
  BY <1>2, <1>3, <1>4, OthersOK DEF clientVars
<1>6. ClientsOK'
  BY <1>2, <1>5, WatchType DEF IInv, ClientsOK, clientVars
<1>7. QED
  BY <1>1, <1>6 DEF IInv

LEMMA OthersKeep ==
    ASSUME IInv, Watch, ByOthers
    PROVE  IInv'
<1>1. UNCHANGED <<tokens, clientVars, procVars>> /\ companies \subseteq companies'
  BY DEF ByOthers, AddCompany, ChangeUser
<1>2. TablesOK'
  <2>1. CASE \E c \in Companies : AddCompany(c)
    BY <2>1 DEF AddCompany, IInv, TablesOK, Constraints
  <2>2. CASE \E u \in users : ChangeUser(u)
    BY <2>2, ChangeOK DEF IInv
  <2>3. QED
    BY <2>1, <2>2 DEF ByOthers
<1>3. ProcsOK'
  BY <1>1 DEF IInv, ProcsOK, procVars
<1>4. users' \in SUBSET User /\ \A q \in Procs : proc[q] = "up" => proc'[q] = "up"
  BY <1>1, <1>2 DEF TablesOK, procVars
<1>5. \A c \in Clients : CallOK(c)'
  BY <1>1, <1>4, OthersOK DEF clientVars
<1>6. ClientsOK'
  BY <1>1, <1>5, WatchType DEF IInv, ClientsOK, clientVars
<1>7. QED
  BY <1>2, <1>3, <1>6 DEF IInv

LEMMA DieKeeps ==
    ASSUME IInv, Watch, NEW p \in Procs, Die(p)
    PROVE  IInv'
<1> DEFINE C == {c \in Clients : p \in server[c]}
<1>1. TablesOK' /\ ProcsOK'
  BY SeederTables DEF Die, IInv
<1>2. /\ stage' = [c \in Clients |-> IF c \in C THEN "done" ELSE stage[c]]
      /\ server' = [c \in Clients |-> IF c \in C THEN {} ELSE server[c]]
      /\ read' = [c \in Clients |-> IF c \in C THEN {} ELSE read[c]]
      /\ brings' = [c \in Clients |-> IF c \in C THEN {} ELSE brings[c]]
      /\ UNCHANGED tokens
  BY DEF Die
<1>3. users' = users /\ \A q \in Procs : q # p => proc'[q] = proc[q]
  BY DEF Die, Crash, tableVars, IInv, ProcsOK
<1>4. "done" \in Stages /\ "done" \notin UnderWay \cup {"guard", "open"}
  BY DEF Stages, UnderWay
<1>5. ASSUME NEW c \in Clients
      PROVE  CallOK(c)'
  <2>1. CASE c \in C
    BY <1>2, <1>4, <2>1 DEF CallOK
  <2>2. CASE c \notin C
    <3>1. stage'[c] = stage[c] /\ server'[c] = server[c] /\ read'[c] = read[c] /\ brings'[c] = brings[c] /\ p \notin server[c]
      BY <1>2, <2>2
    <3>2. seen'[c] = IF stage[c] \in UnderWay THEN seen[c] \cup users ELSE {}
      BY <1>3, <3>1 DEF Watch
    <3>3. CallOK(c) /\ Apps \subseteq Procs
      BY DEF IInv, ClientsOK, Procs
    <3>4. stage[c] \in UnderWay => \E q \in Apps : server'[c] = {q} /\ proc'[q] = "up"
      BY <1>3, <3>1, <3>3 DEF CallOK
    <3>5. QED
      BY <1>3, <3>1, <3>2, <3>3, <3>4 DEF CallOK, Agrees
  <2>3. QED
    BY <2>1, <2>2
<1>6. stage' \in [Clients -> Stages] /\ read' \in [Clients -> SUBSET User]
  BY <1>2, <1>4 DEF IInv, ClientsOK
<1>7. server' = [c \in Clients |-> server'[c]] /\ brings' = [c \in Clients |-> brings'[c]]
  BY <1>2
<1>8. ClientsOK'
  BY <1>2, <1>5, <1>6, <1>7, WatchType DEF IInv, ClientsOK
<1>9. QED
  BY <1>1, <1>8 DEF IInv

LEMMA Invariance == Spec => []IInv
<1>1. IInv /\ [Next]_vars => IInv'
  <2>1. SUFFICES ASSUME IInv, [Next]_vars PROVE IInv'
    OBVIOUS
  <2>2. CASE Next
    BY <2>1, <2>2, CallKeeps, StartedKeeps, OthersKeep, DieKeeps DEF Next
  <2>3. CASE UNCHANGED vars
    BY <2>1, <2>3 DEF vars, seederVars, tableVars, procVars, clientVars,
                      IInv, TablesOK, ProcsOK, ClientsOK, CallOK, Agrees
  <2>4. QED
    BY <2>1, <2>2, <2>3
<1>2. QED
  BY InitInv, <1>1, PTL DEF Spec

(***************************************************************************)
(* What follows.                                                           *)
(***************************************************************************)

\* The constraints of the tables hold whatever logins, requests, starts, crashes and
\* changes by hand there are, and no call is served by a process that has died.
THEOREM TypeCorrect == Spec => []TypeOK
<1>1. IInv => TypeOK
  <2>1. SUFFICES ASSUME IInv, NEW c \in Clients
                 PROVE  IF stage[c] \in UnderWay THEN \E p \in Apps : server[c] = {p} /\ proc[p] = "up" ELSE server[c] = {}
    BY DEF IInv, TablesOK, ProcsOK, ClientsOK, TypeOK
  <2>2. CallOK(c) /\ stage[c] \in Stages
    BY <2>1 DEF IInv, ClientsOK
  <2>3. QED
    BY <2>2 DEF CallOK, Stages
<1>2. QED
  BY <1>1, Invariance, PTL

\* For any users: no token without the password of its user, right while the login
\* went on.
THEOREM TokensSound == Spec => TokensEarned
<1> DEFINE Earned == \A t \in tokens' \ tokens : \E c \in Clients : \E u \in seen[c] :
                        /\ stage[c] = "login"
                        /\ u.password \in brings[c]
                        /\ t = ClaimsOf(u)
<1>1. IInv /\ [Next]_vars => [Earned]_vars
  <2>1. SUFFICES ASSUME IInv, Next, NEW t \in tokens' \ tokens
                 PROVE  \E c \in Clients : \E u \in seen[c] :
                           stage[c] = "login" /\ u.password \in brings[c] /\ t = ClaimsOf(u)
    OBVIOUS
  <2>2. PICK c \in Clients : Login(c)
    BY <2>1 DEF Next, Started, ByOthers, Die, Call, ValidateUser, Present, Arrive, RefuseLogin, Validate,
                CreateUser, GetTransactionRecords, ProcessTransactions, RefuseRequest
  <2>3. PICK u \in read[c] : u.password \in brings[c] /\ tokens' = tokens \cup {ClaimsOf(u)}
    BY <2>2 DEF Login
  <2>4. u \in seen[c] /\ stage[c] = "login"
    BY <2>1, <2>2 DEF Login, IInv, ClientsOK, CallOK, UnderWay
  <2>5. QED
    BY <2>1, <2>3, <2>4
<1>2. QED
  BY <1>1, Invariance, PTL DEF Spec, TokensEarned

\* For any users and tokens: a request acts with a type and a company that its user had
\* while it was under way.
THEOREM ActsSound == Spec => ActsAreCurrent
<1> DEFINE Current == \A e \in act' \ act : \A t \in brings[e.client] : \E u \in seen[e.client] :
                         /\ u.id = t.id
                         /\ u.type = "ADMIN" \/ (e.op # "create" /\ u.company = e.company)
<1>1. IInv /\ [Next]_vars => [Current]_vars
  <2>1. SUFFICES ASSUME IInv, Next, NEW e \in act' \ act, NEW t \in brings[e.client]
                 PROVE  \E u \in seen[e.client] :
                           u.id = t.id /\ (u.type = "ADMIN" \/ (e.op # "create" /\ u.company = e.company))
    OBVIOUS
  <2>2. PICK c \in Clients :
            \/ \E name \in Names, type \in UserType, company \in Companies \cup {Null}, password \in Passwords :
                  CreateUser(c, name, type, company, password)
            \/ \E company \in Companies : GetTransactionRecords(c, company)
            \/ ProcessTransactions(c)
    BY <2>1 DEF Next, Started, ByOthers, Die, Call, clientVars, ValidateUser, Present, Arrive, Login, RefuseLogin,
                Validate, RefuseRequest
  <2>3. /\ e.client = c /\ stage[c] = "open"
        /\ \A d \in brings[c] : d.type = "ADMIN" \/ (e.op # "create" /\ d.company = e.company)
    <3>1. CASE \E name \in Names, type \in UserType, company \in Companies \cup {Null}, password \in Passwords :
                  CreateUser(c, name, type, company, password)
      BY <2>1, <3>1 DEF CreateUser, Does
    <3>2. CASE \E company \in Companies : GetTransactionRecords(c, company)
      BY <2>1, <3>2 DEF GetTransactionRecords, Does
    <3>3. CASE ProcessTransactions(c)
      <4>1. PICK d \in brings[c] : Does(c, "process", IF d.type = "ADMIN" THEN Undefined ELSE d.company)
        BY <3>3 DEF ProcessTransactions
      <4>2. brings[c] = {d} /\ stage[c] = "open"
        BY <2>1, <3>3, <4>1 DEF ProcessTransactions, IInv, ClientsOK, CallOK
      <4>3. e = [client |-> c, op |-> "process", company |-> IF d.type = "ADMIN" THEN Undefined ELSE d.company]
        BY <2>1, <4>1 DEF Does
      <4>4. QED
        BY <4>2, <4>3
    <3>4. QED
      BY <2>2, <3>1, <3>2, <3>3
  <2>4. PICK u \in read[c] : u.id = t.id /\ Agrees(u, t)
    BY <2>1, <2>3 DEF IInv, ClientsOK, CallOK
  <2>5. u \in seen[c]
    BY <2>1, <2>3, <2>4 DEF IInv, ClientsOK, CallOK, UnderWay
  <2>6. t.type = "ADMIN" \/ (e.op # "create" /\ t.company = e.company)
    BY <2>1, <2>3
  <2>7. QED
    BY <2>3, <2>4, <2>5, <2>6 DEF Agrees
<1>2. QED
  BY <1>1, Invariance, PTL DEF Spec, ActsAreCurrent

\* Whatever the rows: no owner without a company passes the strategy.
THEOREM OwnersSound == Spec => []OwnersHaveCompany
<1>1. IInv => OwnersHaveCompany
  <2>1. SUFFICES ASSUME IInv, NEW c \in Clients, stage[c] = "open", NEW t \in brings[c], t.type = "BUSINESS_OWNER"
                 PROVE  t.company \in Companies
    BY DEF OwnersHaveCompany
  <2>2. PICK u \in read[c] : Agrees(u, t)
    BY <2>1 DEF IInv, ClientsOK, CallOK
  <2>3. u \in User /\ t \in Claims
    BY <2>1, <2>2 DEF IInv, ClientsOK, CallOK
  <2>4. u.company = t.company
    BY <2>1, <2>2 DEF Agrees
  <2>5. QED
    BY <2>3, <2>4, UndefinedAssumption DEF User, Claims
<1>2. QED
  BY <1>1, Invariance, PTL

(***************************************************************************)
(* Seeding.  AdminSeeded is not inductive: a run that fails, because of    *)
(* another that has just inserted the company, leaves no administrator     *)
(* behind.  But then that other run is about to insert one.                *)
(***************************************************************************)
Waits(p) ==
    \/ proc[p] = "ended"
    \/ proc[p] = "up" /\ config.seeds
    \/ proc[p] = "saveCompany" /\ AdminCompany \in companies

SeedInv ==
    /\ trouble \in Nat
    /\ config.strong /\ trouble = 0 /\ ~AdminExists /\ (\E p \in Procs : Waits(p))
       => \E q \in Procs : proc[q] = "saveUser"

\* Where a process moves on without having waited, without waiting now, or to insert
\* the administrator.
LEMMA SeedMoves ==
    ASSUME ProcsOK, SeedInv, UNCHANGED <<config, trouble>>, AdminExists => AdminExists',
           NEW p \in Procs, NEW s, proc' = [proc EXCEPT ![p] = s],
           \/ s = "saveUser" \/ AdminExists' \/ ~config.strong
           \/ /\ proc[p] # "saveUser" /\ UNCHANGED companies
              /\ Waits(p)' => \E q \in Procs : Waits(q)
    PROVE  SeedInv'
<1>1. proc'[p] = s /\ \A q \in Procs : q # p => proc'[q] = proc[q]
  BY DEF ProcsOK
<1>2. CASE s = "saveUser" \/ AdminExists' \/ ~config.strong
  BY <1>1, <1>2 DEF SeedInv
<1>3. CASE /\ proc[p] # "saveUser" /\ UNCHANGED companies
           /\ Waits(p)' => \E q \in Procs : Waits(q)
  <2>1. (\E q \in Procs : Waits(q)') => \E q \in Procs : Waits(q)
    BY <1>1, <1>3 DEF Waits
  <2>2. (\E q \in Procs : proc[q] = "saveUser") => \E q \in Procs : proc'[q] = "saveUser"
    BY <1>1, <1>3
  <2>3. QED
    BY <2>1, <2>2 DEF SeedInv
<1>4. QED
  BY <1>2, <1>3

LEMMA EndRunWaits ==
    ASSUME NEW p \in Procs, EndRun(p)
    PROVE  \E s \in {"find", "up", "ended"} : proc' = [proc EXCEPT ![p] = s]
BY DEF EndRun

LEMMA SeederStepSeeds ==
    ASSUME ProcsOK, SeedInv, NEW p \in Procs, SeederStep(p)
    PROVE  SeedInv'
<1>1. CASE RefusePassword(p)
  <2>1. PICK s : proc' = [proc EXCEPT ![p] = s]
    BY <1>1, EndRunWaits DEF RefusePassword
  <2>2. QED
    BY <1>1, <2>1, SeedMoves DEF RefusePassword, tableVars, AdminExists
<1>2. CASE FindUser(p)
  <2>1. UNCHANGED <<config, trouble, companies, users>> /\ proc[p] # "saveUser"
    BY <1>2 DEF FindUser, tableVars
  <2>2. AdminExists => AdminExists'
    BY <2>1 DEF AdminExists
  <2>3. CASE AdminExists
    <3>1. PICK s : proc' = [proc EXCEPT ![p] = s]
      BY <1>2, <2>3, EndRunWaits DEF FindUser
    <3>2. QED
      BY <2>1, <2>2, <2>3, <3>1, SeedMoves
  <2>4. CASE ~AdminExists
    <3>1. PICK s \in {"company"} : proc' = [proc EXCEPT ![p] = s]
      BY <1>2, <2>4 DEF FindUser, Goto
    <3>2. ~Waits(p)'
      BY <3>1 DEF Waits, ProcsOK
    <3>3. QED
      BY <2>1, <2>2, <3>1, <3>2, SeedMoves
  <2>5. QED
    BY <2>3, <2>4
<1>3. CASE FindCompany(p)
  <2>1. UNCHANGED <<config, trouble, companies, users>> /\ proc[p] # "saveUser"
    BY <1>3 DEF FindCompany, tableVars
  <2>2. AdminExists => AdminExists'
    BY <2>1 DEF AdminExists
  <2>3. PICK s : /\ proc' = [proc EXCEPT ![p] = s]
                 /\ s = "saveUser" \/ (s = "saveCompany" /\ AdminCompany \notin companies)
    BY <1>3 DEF FindCompany, Goto
  <2>4. s = "saveCompany" /\ AdminCompany \notin companies => ~Waits(p)'
    BY <2>1, <2>3 DEF Waits, ProcsOK
  <2>5. QED
    BY <2>1, <2>2, <2>3, <2>4, SeedMoves
<1>4. CASE SaveCompany(p)
  <2>1. UNCHANGED <<config, trouble, users>> /\ proc[p] = "saveCompany"
    BY <1>4 DEF SaveCompany
  <2>2. AdminExists => AdminExists'
    BY <2>1 DEF AdminExists
  <2>3. CASE Goto(p, "saveUser")
    <3>1. PICK s : proc' = [proc EXCEPT ![p] = s] /\ s = "saveUser"
      BY <2>3 DEF Goto
    <3>2. QED
      BY <2>1, <2>2, <3>1, SeedMoves
  <2>4. CASE AdminCompany \in companies /\ EndRun(p) /\ UNCHANGED companies
    <3>1. PICK s : proc' = [proc EXCEPT ![p] = s]
      BY <2>4, EndRunWaits
    <3>2. Waits(p) /\ proc[p] # "saveUser"
      BY <2>1, <2>4 DEF Waits
    <3>3. QED
      BY <2>1, <2>2, <2>4, <3>1, <3>2, SeedMoves
  <2>5. QED
    BY <1>4, <2>3, <2>4 DEF SaveCompany
<1>5. CASE SaveUser(p)
  <2>1. UNCHANGED <<config, trouble>> /\ AdminCompany \in companies
    BY <1>5 DEF SaveUser, ProcsOK
  <2>2. AdminExists'
    <3>1. CASE Insert(AdminName, "ADMIN", AdminCompany, AdminPassword)
      <4> DEFINE new == [id |-> lastId + 1, name |-> AdminName, type |-> "ADMIN",
                         company |-> AdminCompany, password |-> AdminPassword]
      <4>1. new \in users'
        BY <3>1 DEF Insert
      <4>2. new.name = AdminName
        OBVIOUS
      <4>3. QED
        BY <4>1, <4>2 DEF AdminExists
    <3>2. CASE ~Insertable(AdminName, AdminCompany) /\ UNCHANGED users
      BY <2>1, <3>2 DEF Insertable, AdminExists
    <3>3. QED
      BY <1>5, <3>1, <3>2 DEF SaveUser
  <2>3. PICK s : proc' = [proc EXCEPT ![p] = s]
    BY <1>5, EndRunWaits DEF SaveUser
  <2>4. QED
    BY <2>1, <2>2, <2>3, SeedMoves
<1>6. QED
  BY <1>1, <1>2, <1>3, <1>4, <1>5 DEF SeederStep

LEMMA StartSeeds ==
    ASSUME ProcsOK, SeedInv, NEW p \in Procs, Start(p)
    PROVE  SeedInv'
<1>1. UNCHANGED <<config, trouble, companies, users>> /\ proc[p] # "saveUser"
  BY DEF Start, tableVars
<1>2. AdminExists => AdminExists'
  BY <1>1 DEF AdminExists
<1>3. PICK s \in {"up", "find"} : proc' = [proc EXCEPT ![p] = s] /\ (s = "up" => ~config.seeds)
  <2>1. CASE config.seeds
    <3>1. proc' = [proc EXCEPT ![p] = "find"]
      BY <2>1 DEF Start
    <3>2. QED
      BY <3>1
  <2>2. CASE ~config.seeds
    BY <2>2 DEF Start
  <2>3. QED
    BY <2>1, <2>2
<1>4. ~Waits(p)'
  BY <1>1, <1>3 DEF Waits, ProcsOK
<1>5. QED
  BY <1>1, <1>2, <1>3, <1>4, SeedMoves

LEMMA Troubled == SeedInv /\ Trouble => SeedInv'
BY DEF SeedInv, Trouble

LEMMA CallSeeds ==
    ASSUME SeedInv, NEW c \in Clients, Call(c)
    PROVE  SeedInv'
<1>1. UNCHANGED <<config, companies, procVars, trouble>>
  BY DEF Call, ValidateUser, Present, Arrive, Login, RefuseLogin, Validate, CreateUser, GetTransactionRecords,
         ProcessTransactions, RefuseRequest, seederVars, tableVars
<1>2. users \subseteq users'
  BY DEF Call, ValidateUser, Present, Arrive, Login, RefuseLogin, Validate, CreateUser, Insert,
         GetTransactionRecords, ProcessTransactions, RefuseRequest, seederVars, tableVars
<1>3. QED
  BY <1>1, <1>2 DEF SeedInv, Waits, AdminExists, procVars

\* For any number of starts of the application and of the script, in any order, also at
\* once: where no process dies, no statement fails and nobody else writes, those that
\* have ended leave an administrator.
THEOREM SeededSound == Spec => []AdminSeeded
<1>1. Init => SeedInv
  BY DEF Init, SeederInit, SeedInv, Waits
<1>2. IInv /\ SeedInv /\ [Next]_vars => SeedInv'
  <2>1. SUFFICES ASSUME IInv, SeedInv, [Next]_vars PROVE SeedInv'
    OBVIOUS
  <2>2. ASSUME NEW p \in Procs, Started(p) \/ Die(p)
        PROVE  SeedInv'
    BY <2>1, <2>2, SeederStepSeeds, StartSeeds, Troubled DEF Started, Die, SeederError, Crash, IInv
  <2>3. CASE ByOthers
    BY <2>1, <2>3, Troubled DEF ByOthers, AddCompany, ChangeUser
  <2>4. CASE UNCHANGED vars
    BY <2>1, <2>4 DEF vars, seederVars, tableVars, procVars, SeedInv, Waits, AdminExists
  <2>5. QED
    BY <2>1, <2>2, <2>3, <2>4, CallSeeds DEF Next
<1>3. SeedInv => AdminSeeded
  BY DEF SeedInv, Waits, AdminSeeded, Seeding
<1>4. QED
  BY <1>1, <1>2, <1>3, Invariance, PTL DEF Spec

=============================================================================
