------------------------------- MODULE Accounts -------------------------------
(***************************************************************************)
(* AuthService, JwtStrategy and the guards, beside the processes that      *)
(* Seeder starts.  A login reads its row, compares the password and signs  *)
(* what it has read; a request brings such a token, is let in if the row   *)
(* still agrees with it, and then acts for the user it names.  Rows change *)
(* between any two of these steps.  A token is the claims in it: no one    *)
(* can forge it, and when it expires is left out.                          *)
(***************************************************************************)
EXTENDS Seeder

CONSTANTS
    Clients,   \* each sends one login or one request
    Undefined  \* no companyId in a token

ASSUME UndefinedAssumption == Undefined \notin Companies \cup {Null}

Claims == [id : Nat, name : Names, type : UserType, company : Companies \cup {Undefined}]

VARIABLES
    tokens,  \* the tokens that were issued
    stage,   \* how far a client's call is
    server,  \* the process that serves it: a set of at most one, as the next two are
    read,    \* the row that was read for it
    brings,  \* the password or the token it comes with
    act,     \* what was last done for a client: {} or {[client, op, company]}
    seen     \* all rows there were in users since it began

clientVars == <<stage, server, read, brings, act>>
vars == <<seederVars, tokens, clientVars, seen>>

\* company_id || undefined.
ClaimsOf(u) ==
    [id |-> u.id, name |-> u.name, type |-> u.type,
     company |-> IF u.company = Null THEN Undefined ELSE u.company]

Init ==
    /\ SeederInit
    /\ tokens \in SUBSET {ClaimsOf(u) : u \in users}
    /\ stage = [c \in Clients |-> "new"]
    /\ server = [c \in Clients |-> {}]
    /\ read = [c \in Clients |-> {}]
    /\ brings = [c \in Clients |-> {}]
    /\ act = {}
    /\ seen = [c \in Clients |-> {}]

UnderWay == {"login", "guard", "open"}

\* A process listens once its seeding has ended.  The row is read.
Arrive(c, p, s, row, x) ==
    /\ stage[c] = "new"
    /\ proc[p] = "up"
    /\ stage' = [stage EXCEPT ![c] = s]
    /\ server' = [server EXCEPT ![c] = {p}]
    /\ read' = [read EXCEPT ![c] = row]
    /\ brings' = [brings EXCEPT ![c] = {x}]
    /\ UNCHANGED <<seederVars, tokens, act>>

\* With its answer a call is forgotten, whatever its status.
Answer(c) ==
    /\ stage' = [stage EXCEPT ![c] = "done"]
    /\ server' = [server EXCEPT ![c] = {}]
    /\ read' = [read EXCEPT ![c] = {}]
    /\ brings' = [brings EXCEPT ![c] = {}]

-----------------------------------------------------------------------------
(***************************************************************************)
(* Login.                                                                  *)
(***************************************************************************)
ValidateUser(c, p, name, password) ==
    Arrive(c, p, "login", {u \in users : u.name = name}, password)

\* Variant: whoever has a row is let in.
LoginOfAny(c) ==
    /\ stage[c] = "login"
    /\ \E u \in read[c] : tokens' = tokens \cup {ClaimsOf(u)}
    /\ Answer(c)
    /\ UNCHANGED <<seederVars, act>>

Login(c) ==
    /\ stage[c] = "login"
    /\ \E u \in read[c] : u.password \in brings[c] /\ tokens' = tokens \cup {ClaimsOf(u)}
    /\ Answer(c)
    /\ UNCHANGED <<seederVars, act>>

RefuseLogin(c) ==
    /\ stage[c] = "login"
    /\ \A u \in read[c] : u.password \notin brings[c]
    /\ Answer(c)
    /\ UNCHANGED <<seederVars, tokens, act>>

-----------------------------------------------------------------------------
(***************************************************************************)
(* A request with a token.                                                 *)
(***************************************************************************)
Present(c, p, token) == Arrive(c, p, "guard", {u \in users : u.id = token.id}, token)

\* Variant: the type is taken from the token alone.
AgreesButType(u, token) ==
    /\ u.name = token.name
    /\ u.type # "ADMIN" => u.company = token.company

\* Variant: null and undefined are the same.
AgreesLoosely(u, token) ==
    /\ u.name = token.name
    /\ u.type = token.type
    /\ u.type # "ADMIN" => ClaimsOf(u).company = token.company

\* JwtStrategy.validate compares strictly: no token is that of an owner without company.
Agrees(u, token) ==
    /\ u.name = token.name
    /\ u.type = token.type
    /\ u.type # "ADMIN" => u.company = token.company

Validate(c) ==
    /\ stage[c] = "guard"
    /\ IF \E u \in read[c], t \in brings[c] : Agrees(u, t)
       THEN stage' = [stage EXCEPT ![c] = "open"] /\ UNCHANGED <<server, read, brings>>
       ELSE Answer(c)
    /\ UNCHANGED <<seederVars, tokens, act>>

Does(c, op, company) ==
    /\ act' = {[client |-> c, op |-> op, company |-> company]}
    /\ Answer(c)

\* RolesGuard, and then the insertion, once bcrypt has hashed the password.
CreateUser(c, name, type, company, password) ==
    /\ stage[c] = "open"
    /\ \A t \in brings[c] : t.type = "ADMIN"
    /\ Insert(name, type, company, password)
    /\ Does(c, "create", company)
    /\ UNCHANGED <<config, companies, procVars, trouble, tokens>>

\* getTransactionRecords checks the company that is asked for.  (What it then reads with
\* status=unclassified are the rows without category of all companies.)
GetTransactionRecords(c, company) ==
    /\ stage[c] = "open"
    /\ \A t \in brings[c] : t.type = "ADMIN" \/ t.company = company
    /\ Does(c, "read", company)
    /\ UNCHANGED <<seederVars, tokens>>

\* processTransactions classifies rows by the rules of the user's company; an ADMIN has
\* no company here.
ProcessTransactions(c) ==
    /\ stage[c] = "open"
    /\ \E t \in brings[c] :
          /\ t.type = "ADMIN" \/ t.company # Undefined
          /\ Does(c, "process", IF t.type = "ADMIN" THEN Undefined ELSE t.company)
    /\ UNCHANGED <<seederVars, tokens>>

\* A role or a company is missing, the input is wrong, a constraint is violated, or the
\* database fails.
RefuseRequest(c) ==
    /\ stage[c] = "open"
    /\ Answer(c)
    /\ UNCHANGED <<seederVars, tokens, act>>

-----------------------------------------------------------------------------
Started(p) == (Start(p) \/ SeederStep(p) \/ SeederError(p)) /\ UNCHANGED <<tokens, clientVars>>

ByOthers ==
    /\ (\E c \in Companies : AddCompany(c)) \/ (\E u \in users : ChangeUser(u))
    /\ UNCHANGED <<tokens, clientVars>>

\* Variant: calls outlive their process.
DieAlone(p) == Crash(p) /\ UNCHANGED <<tokens, clientVars>>

\* A process takes the calls it serves with it.
Die(p) ==
    /\ Crash(p)
    /\ LET C == {c \in Clients : p \in server[c]} IN
          /\ stage' = [c \in Clients |-> IF c \in C THEN "done" ELSE stage[c]]
          /\ server' = [c \in Clients |-> IF c \in C THEN {} ELSE server[c]]
          /\ read' = [c \in Clients |-> IF c \in C THEN {} ELSE read[c]]
          /\ brings' = [c \in Clients |-> IF c \in C THEN {} ELSE brings[c]]
    /\ UNCHANGED <<tokens, act>>

Call(c) ==
    \/ \E p \in Apps, name \in Names, password \in Passwords : ValidateUser(c, p, name, password)
    \/ \E p \in Apps, token \in tokens : Present(c, p, token)
    \/ Login(c) \/ RefuseLogin(c) \/ Validate(c)
    \/ \E name \in Names, type \in UserType, company \in Companies \cup {Null}, password \in Passwords :
          CreateUser(c, name, type, company, password)
    \/ \E company \in Companies : GetTransactionRecords(c, company)
    \/ ProcessTransactions(c) \/ RefuseRequest(c)

\* The history: a call has seen the rows there were while it was under way.
Watch == seen' = [c \in Clients |-> IF stage'[c] \in UnderWay THEN seen[c] \cup users' ELSE {}]

Next == ((\E p \in Procs : Started(p) \/ Die(p)) \/ ByOthers \/ \E c \in Clients : Call(c)) /\ Watch

\* A statement of the seeder is answered, and the event loop resumes it.
Fairness == \A p \in Procs : WF_seederVars(SeederStep(p))

Spec == Init /\ [][Next]_vars
FairSpec == Spec /\ Fairness

-----------------------------------------------------------------------------
Stages == UnderWay \cup {"new", "done"}

\* Every table obeys its constraints, and a call under way is served by a process that
\* listens.
TypeOK ==
    /\ users \in SUBSET User /\ companies \in SUBSET Companies /\ lastId \in Nat
    /\ Constraints(users, companies) /\ \A u \in users : u.id <= lastId
    /\ proc \in [Procs -> Seeding \cup {"off", "up", "ended"}]
    /\ runs \in [Procs -> 0 .. 2]
    /\ tokens \in SUBSET Claims
    /\ stage \in [Clients -> Stages]
    /\ \A c \in Clients :
          IF stage[c] \in UnderWay THEN \E p \in Apps : server[c] = {p} /\ proc[p] = "up" ELSE server[c] = {}

\* A password that was right while a login went on, and no other way, leads to a token,
\* and the token says of its user what was true then.
TokensEarned ==
    [][\A t \in tokens' \ tokens : \E c \in Clients : \E u \in seen[c] :
          /\ stage[c] = "login"
          /\ u.password \in brings[c]
          /\ t = ClaimsOf(u)]_vars

\* Whenever its token was issued and whatever became of its user since: a request
\* creates users only for one who was an ADMIN at some moment since it began, and is let
\* through to the transactions of a company only for an ADMIN or for one who had it.
ActsAreCurrent ==
    [][\A e \in act' \ act : \A t \in brings[e.client] : \E u \in seen[e.client] :
          /\ u.id = t.id
          /\ u.type = "ADMIN" \/ (e.op # "create" /\ u.company = e.company)]_vars

\* An owner without a company never gets as far as the checks of the controller, which
\* would otherwise have to refuse such a user.
OwnersHaveCompany ==
    \A c \in Clients : stage[c] = "open" =>
        \A t \in brings[c] : t.type = "BUSINESS_OWNER" => t.company \in Companies
=============================================================================
