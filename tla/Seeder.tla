-------------------------------- MODULE Seeder --------------------------------
(***************************************************************************)
(* AdminUserSeeder and who runs it: the application when it starts, and    *)
(* scripts/seed-admin.ts, whose own start runs it as well.  It looks for   *)
(* the administrator, looks for the company, and inserts what is missing;  *)
(* processes may do so at once, die between two statements and be started  *)
(* again.  The constraints of the tables (a unique name, a foreign key)    *)
(* are the database's.  Operators marked Variant are nearby mistakes used  *)
(* by no action.                                                           *)
(***************************************************************************)
EXTENDS Naturals

CONSTANTS
    Apps, Scripts,            \* starts of the application, runs of the script
    Names, AdminName,         \* ADMIN_USERNAME
    Companies, AdminCompany,  \* ADMIN_COMPANY_ID
    Null,                     \* no company_id
    Passwords, AdminPassword, \* ADMIN_PASSWORD
    Tables0,                  \* what may be in the tables: a set of [users, companies]
    MaxTrouble                \* bound on what goes wrong

Procs == Apps \cup Scripts
UserType == {"ADMIN", "BUSINESS_OWNER"}
User == [id : Nat, name : Names, type : UserType, company : Companies \cup {Null}, password : Passwords]

\* A primary key, UNIQUE username, and a foreign key.
Constraints(rows, keys) ==
    /\ \A u \in rows : u.company \in keys \cup {Null}
    /\ \A u, v \in rows : u.id = v.id \/ u.name = v.name => u = v

ASSUME SeederAssumption ==
    /\ Apps \cap Scripts = {}
    /\ AdminName \in Names /\ AdminPassword \in Passwords
    /\ AdminCompany \in Companies /\ Null \notin Companies
    /\ Tables0 \subseteq [users : SUBSET User, companies : SUBSET Companies]
    /\ \A t \in Tables0 : Constraints(t.users, t.companies)
    /\ MaxTrouble \in Nat

VARIABLES
    config,     \* whether the application seeds, and whether the password is long enough
    users,      \* table users
    companies,  \* table companies: its keys
    lastId,     \* AUTO_INCREMENT of users
    proc,       \* the statement each process has come to
    runs,       \* how many runs of the seeder it has left, the present one included
    trouble     \* how many deaths, database errors and changes by others there have been

tableVars == <<users, companies, lastId>>
procVars == <<proc, runs>>
seederVars == <<config, tableVars, procVars, trouble>>

Seeding == {"find", "company", "saveCompany", "saveUser"}

SeederInit ==
    /\ config \in [seeds : BOOLEAN, strong : BOOLEAN]
    /\ \E t \in Tables0 : users = t.users /\ companies = t.companies
    /\ lastId \in {n \in {0} \cup {u.id : u \in users} : \A u \in users : u.id <= n}
    /\ proc = [p \in Procs |-> "off"]
    /\ runs = [p \in Procs |-> 0]
    /\ trouble = 0

Trouble == trouble < MaxTrouble /\ trouble' = trouble + 1

\* What the constraints let in.
Insertable(name, company) ==
    /\ \A u \in users : u.name # name
    /\ company \in companies \cup {Null}

Insert(name, type, company, password) ==
    /\ Insertable(name, company)
    /\ lastId' = lastId + 1
    /\ users' = users \cup {[id |-> lastId + 1, name |-> name, type |-> type,
                             company |-> company, password |-> password]}

-----------------------------------------------------------------------------
\* onModuleInit, and then the script's own call.
Start(p) ==
    /\ proc[p] \in {"off", "ended"}
    /\ LET n == (IF config.seeds THEN 1 ELSE 0) + (IF p \in Scripts THEN 1 ELSE 0)
       IN  /\ runs' = [runs EXCEPT ![p] = n]
           /\ proc' = [proc EXCEPT ![p] = IF n = 0 THEN "up" ELSE "find"]
    /\ UNCHANGED <<config, tableVars, trouble>>

Goto(p, s) ==
    /\ proc' = [proc EXCEPT ![p] = s]
    /\ UNCHANGED runs

\* A run of the seeder ends, with an error or without: the application listens either
\* way, for runSeeders keeps the error to itself, and the script goes on or exits.
EndRun(p) ==
    /\ runs' = [runs EXCEPT ![p] = @ - 1]
    /\ proc' = [proc EXCEPT ![p] = IF runs[p] > 1 THEN "find" ELSE IF p \in Scripts THEN "ended" ELSE "up"]

AdminExists == \E u \in users : u.name = AdminName

RefusePassword(p) ==
    /\ proc[p] = "find"
    /\ ~config.strong
    /\ EndRun(p)
    /\ UNCHANGED <<config, tableVars, trouble>>

FindUser(p) ==
    /\ proc[p] = "find"
    /\ config.strong
    /\ IF AdminExists THEN EndRun(p) ELSE Goto(p, "company")
    /\ UNCHANGED <<config, tableVars, trouble>>

\* Variant: a company that is there is taken for a seeded database.
FindCompanyOnly(p) ==
    /\ proc[p] = "company"
    /\ IF AdminCompany \in companies THEN EndRun(p) ELSE Goto(p, "saveCompany")
    /\ UNCHANGED <<config, tableVars, trouble>>

FindCompany(p) ==
    /\ proc[p] = "company"
    /\ Goto(p, IF AdminCompany \in companies THEN "saveUser" ELSE "saveCompany")
    /\ UNCHANGED <<config, tableVars, trouble>>

\* Variant: the company is saved and the user forgotten.
SaveCompanyOnly(p) ==
    /\ proc[p] = "saveCompany"
    /\ companies' = companies \cup {AdminCompany}
    /\ EndRun(p)
    /\ UNCHANGED <<config, users, lastId, trouble>>

\* save looks for the row before it inserts it.  A row inserted by another meanwhile
\* is found, and updated, or makes the insertion fail.
SaveCompany(p) ==
    /\ proc[p] = "saveCompany"
    /\ \/ companies' = companies \cup {AdminCompany} /\ Goto(p, "saveUser")
       \/ AdminCompany \in companies /\ EndRun(p) /\ UNCHANGED companies
    /\ UNCHANGED <<config, users, lastId, trouble>>

SaveUser(p) ==
    /\ proc[p] = "saveUser"
    /\ \/ Insert(AdminName, "ADMIN", AdminCompany, AdminPassword)
       \/ ~Insertable(AdminName, AdminCompany) /\ UNCHANGED <<users, lastId>>
    /\ EndRun(p)
    /\ UNCHANGED <<config, companies, trouble>>

\* The database fails a statement of the seeder.
SeederError(p) ==
    /\ proc[p] \in Seeding
    /\ Trouble
    /\ EndRun(p)
    /\ UNCHANGED <<config, tableVars>>

SeederStep(p) == RefusePassword(p) \/ FindUser(p) \/ FindCompany(p) \/ SaveCompany(p) \/ SaveUser(p)

Crash(p) ==
    /\ proc[p] \in Seeding \cup {"up"}
    /\ Trouble
    /\ proc' = [proc EXCEPT ![p] = "off"]
    /\ runs' = [runs EXCEPT ![p] = 0]
    /\ UNCHANGED <<config, tableVars>>

-----------------------------------------------------------------------------
(***************************************************************************)
(* Others.  Companies also come with uploaded rules; users are changed and *)
(* removed by hand only, for no code does so.                              *)
(***************************************************************************)
AddCompany(c) ==
    /\ c \notin companies
    /\ Trouble
    /\ companies' = companies \cup {c}
    /\ UNCHANGED <<config, users, lastId, procVars>>

\* The rows user u may become: one column is changed.
Changed(u) ==
    {[u EXCEPT !.name = n] : n \in {n \in Names : \A v \in users : v.name # n}}
    \cup {[u EXCEPT !.type = t] : t \in UserType}
    \cup {[u EXCEPT !.company = c] : c \in companies \cup {Null}}
    \cup {[u EXCEPT !.password = w] : w \in Passwords}

ChangeUser(u) ==
    /\ Trouble
    /\ \E S \in {{}} \cup {{v} : v \in Changed(u)} : users' = (users \ {u}) \cup S
    /\ UNCHANGED <<config, companies, lastId, procVars>>

-----------------------------------------------------------------------------
\* However starts interleave: when nothing went wrong and no run is under way, those
\* that have ended have left an administrator, even where one of them failed because
\* of the other.
AdminSeeded ==
    /\ config.strong /\ trouble = 0
    /\ \A p \in Procs : proc[p] \notin Seeding
    /\ \E p \in Procs : proc[p] = "ended" \/ (proc[p] = "up" /\ config.seeds)
    => AdminExists

\* However starts before it ended, a run during which nothing goes wrong leaves an
\* administrator, or another process does.
SeedingEnds ==
    \A n \in 0 .. MaxTrouble :
        (\E p \in Procs : proc[p] = "find") /\ config.strong /\ trouble = n ~> AdminExists \/ trouble # n
=============================================================================
