------------------------- MODULE ProcessRequestProofs -------------------------
(***************************************************************************)
(* Requests that bring files, for any number of them, any files, extension *)
(* lists, limits and batch size: what the upload log tells, what a failure *)
(* leaves behind, and that the transactions of all requests together are a *)
(* Ledger.                                                                 *)
(***************************************************************************)
EXTENDS ProcessRequest, FiniteSetTheorems, TLAPS

(***************************************************************************)
(* What files and configuration say does not change.                       *)
(***************************************************************************)
\* A number of rows is a number, whatever the file.
LEMMA DueNat ==
    ASSUME files \in Requests0, NEW r \in Reqs
    PROVE  Due(r) \in Nat
<1>1. files \in [Reqs -> [Part -> File \cup {NoFile}]]
  BY RequestAssumption
<1>2. CASE files[r].tx = NoFile
  BY <1>2 DEF Due
<1>3. CASE files[r].tx # NoFile
  <2>1. files[r].tx \in File
    BY <1>1, <1>3 DEF Part
  <2>2. Lines(r) \in Seq(Line)
    BY <2>1 DEF Lines, File
  <2>3. Transactions(Lines(r)) \subseteq 1 .. Len(Lines(r)) /\ Len(Lines(r)) \in Nat
    BY <2>2 DEF Transactions, RawRows
  <2>4. IsFiniteSet(1 .. Len(Lines(r)))
    BY <2>3, FS_Interval
  <2>5. IsFiniteSet(Transactions(Lines(r)))
    BY <2>3, <2>4, FS_Subset
  <2>6. QED
    BY <1>3, <2>5, FS_CardinalityType DEF Due, ValidCount
<1>4. QED
  BY <1>2, <1>3

LEMMA GivenFixed ==
    ASSUME UNCHANGED given
    PROVE  /\ files' = files /\ allowed' = allowed
           /\ \A r \in Reqs : /\ Due(r)' = Due(r)
                              /\ ParsesFile(Lines(r))' = ParsesFile(Lines(r))
                              /\ \A p \in Part : Faults(r, p)' = Faults(r, p)
BY DEF given, Due, Lines, Faults

\* Whole batches: a multiple of the batch size, said in a form the provers can add to.
Whole(n) == \E k \in Nat : n = k * BatchSize

LEMMA WholeBatches ==
    /\ Whole(0)
    /\ \A n \in Nat : Whole(n) => Whole(n + BatchSize) /\ n % BatchSize = 0
<1> USE RequestAssumption
<1>1. Whole(0)
  BY DEF Whole
<1>2. ASSUME NEW n \in Nat, Whole(n) PROVE Whole(n + BatchSize) /\ n % BatchSize = 0
  <2>1. PICK k \in Nat : n = k * BatchSize
    BY <1>2 DEF Whole
  <2>2. n + BatchSize = (k + 1) * BatchSize /\ k + 1 \in Nat
    BY <2>1
  <2>3. (k * BatchSize) % BatchSize = 0
    OBVIOUS
  <2>4. QED
    BY <2>1, <2>2, <2>3 DEF Whole
<1>3. QED
  BY <1>1, <1>2

(***************************************************************************)
(* The invariant.  One request at a time: how its stage, its two uploads,  *)
(* their log entries and what is stored belong together.                   *)
(***************************************************************************)
States == {"none", "logging", "done", "failed", "lost"}
Stages == {"new", "uploading", "rules", "parsing", "saving", "done"}

Typed ==
    /\ allowed \in Deployments
    /\ files \in Requests0
    /\ up \in [Reqs -> [Part -> States]]
    /\ logged \in [Reqs -> [Part -> Seq({"SUCCESS", "FAILED"})]]
    /\ stage \in [Reqs -> Stages]
    /\ ruled \subseteq Processes
    /\ posted \in [Reqs -> Nat]
    /\ answer \in [Reqs -> Statuses \cup {"none", "lost"}]

LogOK(r, p) ==
    /\ up[r][p] \in {"none", "logging", "lost"} => logged[r][p] = <<>>
    /\ up[r][p] = "done" => logged[r][p] = <<"SUCCESS">>
    /\ up[r][p] = "failed" =>
          logged[r][p] = <<>> \/ (logged[r][p] = <<"FAILED">> /\ Faults(r, p) # {})

StageOK(r) ==
    /\ (stage[r] = "done") <=> (answer[r] # "none")
    /\ stage[r] = "new" => \A p \in Part : up[r][p] = "none"
    /\ r \notin Processes /\ up[r]["tx"] = "logging" => up[r]["rules"] = "none"
    /\ stage[r] \in {"new", "uploading", "rules"} => r \notin ruled
    /\ stage[r] \in {"parsing", "saving"} => r \in ruled
    /\ stage[r] \in {"rules", "parsing", "saving"} => r \in Processes
    /\ stage[r] \in {"rules", "parsing", "saving"} \/ r \in ruled => \A p \in Part : up[r][p] = "done"

StoredOK(r) ==
    /\ posted[r] <= Due(r)
    /\ stage[r] \in {"new", "uploading", "rules", "parsing"} => posted[r] = 0
    /\ stage[r] = "saving" => ParsesFile(Lines(r)) /\ (posted[r] = Due(r) \/ Whole(posted[r]))
    /\ posted[r] > 0 => r \in ruled /\ ParsesFile(Lines(r))
    /\ answer[r] = "400" => Whole(posted[r]) /\ (posted[r] = 0 \/ posted[r] < Due(r))

RequestOK(r) == StageOK(r) /\ StoredOK(r) /\ \A p \in Part : LogOK(r, p)

IInv == Typed /\ \A r \in Reqs : RequestOK(r)

LEMMA InitInv == Init => IInv
<1> SUFFICES ASSUME Init PROVE IInv
  OBVIOUS
<1>1. Typed
  BY DEF Init, Typed, States, Stages
<1>2. ASSUME NEW r \in Reqs PROVE RequestOK(r)
  BY <1>1, DueNat DEF Init, Typed, Part, RequestOK, StageOK, StoredOK, LogOK
<1>3. QED
  BY <1>1, <1>2 DEF IInv

\* A step of one request is no step of another.
LEMMA Others ==
    ASSUME IInv, NEW r \in Reqs, UNCHANGED given, Typed',
           \A q \in Reqs \ {r} :
              /\ up'[q] = up[q] /\ logged'[q] = logged[q] /\ stage'[q] = stage[q]
              /\ (q \in ruled') <=> (q \in ruled)
              /\ posted'[q] = posted[q] /\ answer'[q] = answer[q],
           RequestOK(r)'
    PROVE  IInv'
<1>1. ASSUME NEW q \in Reqs \ {r} PROVE RequestOK(q)'
  BY GivenFixed DEF IInv, RequestOK, StageOK, StoredOK, LogOK
<1>2. QED
  BY <1>1 DEF IInv

(***************************************************************************)
(* Each step keeps the invariant of its request.                           *)
(***************************************************************************)
\* The request arrives: it is refused, answered, or its uploads begin.
LEMMA ArrivalInv ==
    ASSUME IInv, NEW r \in Reqs, Refuse(r) \/ AnswerAtOnce(r) \/ StartUploads(r)
    PROVE  IInv'
<1>1. UNCHANGED given
  BY DEF Refuse, AnswerAtOnce, StartUploads
<1>2. Typed /\ RequestOK(r) /\ Due(r) \in Nat
  BY DueNat DEF IInv, Typed
<1>3. CASE StartUploads(r)
  <2>1. Typed'
    BY <1>2, <1>3 DEF StartUploads, Received, Goto, given, tables, Typed, States, Stages
  <2>2. RequestOK(r)'
    BY <1>1, <1>2, <1>3, <2>1, GivenFixed
    DEF StartUploads, Received, Goto, given, tables, Typed, Part, RequestOK, StageOK, StoredOK, LogOK
  <2>3. QED
    BY <1>1, <1>2, <1>3, <2>1, <2>2, Others DEF StartUploads, Received, Goto, tables, Typed
<1>4. CASE Refuse(r) \/ AnswerAtOnce(r)
  <2>1. PICK s \in Statuses : /\ stage[r] = "new"
                              /\ Answer(r, s)
                              /\ UNCHANGED <<given, up, tables>>
    BY <1>4 DEF Refuse, AnswerAtOnce, Received, Statuses, StatusOfMulter
  <2>2. Typed'
    BY <1>2, <2>1 DEF Answer, given, tables, Typed, Stages
  <2>3. RequestOK(r)'
    BY <1>1, <1>2, <2>1, <2>2, GivenFixed, WholeBatches
    DEF Answer, given, tables, Typed, Statuses, RequestOK, StageOK, StoredOK, LogOK
  <2>4. QED
    BY <1>1, <1>2, <2>1, <2>2, <2>3, Others DEF Answer, tables, Typed
<1>5. QED
  BY <1>3, <1>4

\* An upload ends, well or not, and with it perhaps the request.
LEMMA UploadInv ==
    ASSUME IInv, NEW r \in Reqs, NEW p \in Part, Upload(r, p)
    PROVE  IInv'
<1>1. UNCHANGED given /\ up[r][p] = "logging"
  BY DEF Upload, UploadSucceeds, UploadUnlogged, UploadRejected
<1>2. Typed /\ RequestOK(r) /\ Due(r) \in Nat
  BY DueNat DEF IInv, Typed
\* Its entry is the first one.
<1>3. ASSUME NEW e \in {"SUCCESS", "FAILED"}, Logs(r, p, e)
      PROVE  /\ logged' = [logged EXCEPT ![r][p] = <<e>>]
             /\ logged' \in [Reqs -> [Part -> Seq({"SUCCESS", "FAILED"})]]
  <2>1. logged[r][p] = <<>>
    BY <1>1, <1>2 DEF RequestOK, LogOK
  <2>2. <<e>> \in Seq({"SUCCESS", "FAILED"}) /\ Append(<<>>, e) = <<e>>
    OBVIOUS
  <2>3. logged' = [logged EXCEPT ![r][p] = <<e>>]
    BY <1>2, <1>3, <2>1, <2>2 DEF Logs, Typed
  <2>4. QED
    BY <1>2, <2>2, <2>3 DEF Typed
<1>4. CASE UploadSucceeds(r, p)
  <2>1. /\ logged' = [logged EXCEPT ![r][p] = <<"SUCCESS">>]
        /\ logged' \in [Reqs -> [Part -> Seq({"SUCCESS", "FAILED"})]]
        /\ UNCHANGED <<ruled, posted>>
    BY <1>3, <1>4 DEF UploadSucceeds
  \* It answers the request, resumes it, or leaves it as it is.
  <2>2. CASE up' = [up EXCEPT ![r][p] = "done"]
    <3>1. Typed'
      BY <1>1, <1>2, <1>4, <2>1, <2>2
      DEF UploadSucceeds, Goto, Answer, given, Typed, States, Stages, Statuses
    <3>2. RequestOK(r)'
      BY <1>1, <1>2, <1>4, <2>1, <2>2, <3>1, GivenFixed
      DEF UploadSucceeds, Goto, Answer, Typed, RequestOK, StageOK, StoredOK, LogOK
    <3>3. QED
      BY <1>1, <1>2, <1>4, <2>1, <2>2, <3>1, <3>2, Others DEF UploadSucceeds, Goto, Answer, Typed
  \* It is followed by the upload of the rules, which had not begun.
  <2>3. CASE /\ r \notin Processes /\ p = "tx"
             /\ up' = [up EXCEPT ![r] = [q \in Part |-> IF q = p THEN "done" ELSE "logging"]]
             /\ stage[r] = "uploading"
             /\ Goto(r, "uploading")
    <3>1. Typed'
      BY <1>1, <1>2, <2>1, <2>3 DEF Goto, given, Typed, States, Stages
    <3>2. up[r]["rules"] = "none"
      BY <1>1, <1>2, <2>3 DEF RequestOK, StageOK
    <3>3. up'[r]["tx"] = "done" /\ up'[r]["rules"] = "logging" /\ logged[r]["rules"] = <<>>
      BY <1>2, <2>3, <3>2 DEF Typed, RequestOK, LogOK, Part
    <3>4. RequestOK(r)'
      BY <1>1, <1>2, <2>1, <2>3, <3>1, <3>3, GivenFixed
      DEF Goto, Typed, Part, RequestOK, StageOK, StoredOK, LogOK
    <3>5. QED
      BY <1>1, <1>2, <2>1, <2>3, <3>1, <3>4, Others DEF Goto, Typed
  <2>4. QED
    BY <1>4, <2>2, <2>3 DEF UploadSucceeds, Settles
<1>5. CASE UploadUnlogged(r, p) \/ UploadRejected(r, p)
  <2>1. PICK s \in Statuses : Throw(r, s)
    BY <1>5 DEF UploadUnlogged, UploadRejected, DatabaseStatus, StatusOfErrors, Statuses
  <2>2. /\ up' = [up EXCEPT ![r][p] = "failed"]
        /\ \/ logged' = [logged EXCEPT ![r][p] = <<"FAILED">>] /\ Faults(r, p) # {}
           \/ UNCHANGED logged
        /\ UNCHANGED <<ruled, posted>>
    BY <1>3, <1>5 DEF UploadUnlogged, UploadRejected, Settles, tables
  <2>3. Typed'
    BY <1>1, <1>2, <1>3, <1>5, <2>1, <2>2
    DEF UploadUnlogged, UploadRejected, Throw, Answer, tables, given, Typed, States, Stages, Statuses
  <2>4. RequestOK(r)'
    BY <1>1, <1>2, <2>1, <2>2, <2>3, GivenFixed, WholeBatches
    DEF Throw, Answer, given, Typed, Statuses, RequestOK, StageOK, StoredOK, LogOK
  <2>5. QED
    BY <1>1, <1>2, <2>1, <2>2, <2>3, <2>4, Others DEF Throw, Answer, Typed
<1>6. QED
  BY <1>4, <1>5 DEF Upload

\* The rules are saved, the file is parsed, a batch is saved, or the request ends.
LEMMA HandleInv ==
    ASSUME IInv, NEW r \in Processes, Handle(r)
    PROVE  IInv'
<1> USE RequestAssumption
<1>1. UNCHANGED <<given, up, logged>> /\ r \in Reqs
  BY DEF Handle, SaveRules, RulesFail, Parse, ParseFails, SaveBatch, BatchFails, Succeed, tables, Reqs
<1>2. Typed /\ RequestOK(r) /\ Due(r) \in Nat
  BY <1>1, DueNat DEF IInv, Typed
<1>3. CASE SaveRules(r)
  <2>1. Typed'
    BY <1>1, <1>2, <1>3 DEF SaveRules, Advance, Goto, given, Typed, Stages
  <2>2. RequestOK(r)'
    BY <1>1, <1>2, <1>3, <2>1, GivenFixed
    DEF SaveRules, Advance, Goto, Typed, RequestOK, StageOK, StoredOK, LogOK
  <2>3. QED
    BY <1>1, <1>2, <1>3, <2>1, <2>2, Others DEF SaveRules, Advance, Goto, Typed
<1>4. CASE Parse(r)
  <2>1. Typed'
    BY <1>1, <1>2, <1>4 DEF Parse, Advance, Goto, given, tables, Typed, Stages
  <2>2. RequestOK(r)'
    BY <1>1, <1>2, <1>4, <2>1, GivenFixed, WholeBatches
    DEF Parse, Advance, Goto, tables, Typed, RequestOK, StageOK, StoredOK, LogOK
  <2>3. QED
    BY <1>1, <1>2, <1>4, <2>1, <2>2, Others DEF Parse, Advance, Goto, tables, Typed
<1>5. CASE SaveBatch(r)
  <2>1. EndOfBatch(r) \in Nat /\ EndOfBatch(r) <= Due(r)
    BY <1>1, <1>2 DEF EndOfBatch, Typed
  <2>2. EndOfBatch(r) = Due(r) \/ Whole(EndOfBatch(r))
    BY <1>1, <1>2, <1>5, WholeBatches DEF EndOfBatch, SaveBatch, Typed, RequestOK, StoredOK
  <2>3. Typed'
    BY <1>1, <1>2, <1>5, <2>1 DEF SaveBatch, given, Typed
  <2>4. RequestOK(r)'
    BY <1>1, <1>2, <1>5, <2>1, <2>2, <2>3, GivenFixed
    DEF SaveBatch, Typed, RequestOK, StageOK, StoredOK, LogOK
  <2>5. QED
    BY <1>1, <1>2, <1>5, <2>3, <2>4, Others DEF SaveBatch, Typed
<1>6. CASE RulesFail(r) \/ ParseFails(r) \/ BatchFails(r) \/ Succeed(r)
  <2>1. PICK s \in {"201", "400"} : Answer(r, s)
    BY <1>6 DEF RulesFail, ParseFails, BatchFails, Succeed, Fail
  <2>2. /\ stage[r] \in {"rules", "parsing", "saving"}
        /\ stage[r] = "saving" /\ s = "400" => posted[r] < Due(r)
        /\ UNCHANGED <<ruled, posted>>
    BY <1>1, <1>2, <1>6, <2>1 DEF RulesFail, ParseFails, BatchFails, Succeed, Fail, Answer, tables, Typed
  <2>3. Typed'
    BY <1>1, <1>2, <2>1, <2>2 DEF Answer, given, Typed, Stages, Statuses
  <2>4. RequestOK(r)'
    BY <1>1, <1>2, <2>1, <2>2, <2>3, GivenFixed, WholeBatches
    DEF Answer, Typed, RequestOK, StageOK, StoredOK, LogOK
  <2>5. QED
    BY <1>1, <1>2, <2>1, <2>2, <2>3, <2>4, Others DEF Answer, Typed
<1>7. QED
  BY <1>3, <1>4, <1>5, <1>6 DEF Handle

\* The process dies with all its requests.
LEMMA CrashInv ==
    ASSUME IInv, Crash
    PROVE  IInv'
<1>1. Typed'
  BY DEF IInv, Crash, Typed, given, tables, States, Stages
<1>2. ASSUME NEW r \in Reqs PROVE RequestOK(r)'
  BY <1>1, <1>2, GivenFixed 
  DEF IInv, Crash, Running, tables, Typed, States, Part, RequestOK, StageOK, StoredOK, LogOK
<1>3. QED
  BY <1>1, <1>2 DEF IInv

LEMMA NextInv == IInv /\ [Next]_vars => IInv'
<1> SUFFICES ASSUME IInv, [Next]_vars PROVE IInv'
  OBVIOUS
<1>1. CASE UNCHANGED vars
  <2>1. UNCHANGED given /\ UNCHANGED <<up, logged, stage, ruled, posted, answer>>
    BY <1>1 DEF vars
  <2>2. QED
    BY <2>1, GivenFixed DEF given, IInv, Typed, RequestOK, StageOK, StoredOK, LogOK
<1>2. QED
  BY <1>1, ArrivalInv, UploadInv, HandleInv, CrashInv DEF Next

LEMMA Invariance == Spec => []IInv
BY InitInv, NextInv, PTL DEF Spec

(***************************************************************************)
(* The results.                                                            *)
(***************************************************************************)
\* Every request and every upload is in one of the states its handler knows, and no
\* request posts more transactions than its file has valid rows.
THEOREM TypeCorrect == Spec => []TypeOK
<1>1. IInv => TypeOK
  BY DEF IInv, Typed, RequestOK, StoredOK, TypeOK, States, Stages
<1>2. QED
  BY <1>1, Invariance, PTL

\* The upload log can be believed whatever uploads, failures and crashes interleave.
THEOREM LogBelieved == Spec => []LogTellsOutcome
<1>1. ASSUME IInv, NEW r \in Reqs, NEW p \in Part
      PROVE  /\ logged[r][p] \in {<<>>, <<"SUCCESS">>, <<"FAILED">>}
             /\ logged[r][p] = <<"FAILED">> => Faults(r, p) # {}
  <2>1. up[r][p] \in States /\ LogOK(r, p)
    BY <1>1 DEF IInv, Typed, RequestOK
  <2>2. <<"SUCCESS">> # <<"FAILED">> /\ <<>> # <<"FAILED">>
    OBVIOUS
  <2>3. QED
    BY <2>1, <2>2 DEF LogOK, States
<1>2. IInv => LogTellsOutcome
  <2>1. ASSUME IInv, NEW r \in Reqs, r \in ruled \/ posted[r] > 0, NEW p \in Part
        PROVE  logged[r][p] = <<"SUCCESS">>
    BY <2>1 DEF IInv, RequestOK, StageOK, StoredOK, LogOK
  <2>2. QED
    BY <1>1, <2>1 DEF LogTellsOutcome
<1>3. QED
  BY <1>2, Invariance, PTL

\* A failed request leaves whole batches and never all of them, and nothing of a file
\* that is rejected.
THEOREM FailureBounded == Spec => []FailureLeaves
<1>1. IInv => FailureLeaves
  BY WholeBatches DEF IInv, Typed, RequestOK, StoredOK, FailureLeaves, Reqs
<1>2. QED
  BY <1>1, Invariance, PTL

(***************************************************************************)
(* What a valid row says.                                                  *)
(***************************************************************************)
LEMMA PaymentOfRow ==
    ASSUME NEW line \in Line, ValidRow(line)
    PROVE  \E n \in 1 .. MaxAmount \div Cent :
              /\ {Amount(line.deposit), Amount(line.withdrawal)} = {0, n * Cent}
              /\ line.date.hour <= Now + 1
<1> DEFINE d == Amount(line.deposit)
           w == Amount(line.withdrawal)
<1>1. line \in DataLine
  BY DEF ValidRow, Line, Unparsed
<1>2. d \in 0 .. MaxAmount /\ w \in 0 .. MaxAmount
  BY DEF ValidRow, ValidateLimits
<1>3. (d = 0 /\ w > 0) \/ (d > 0 /\ w = 0)
  BY <1>2 DEF ValidRow, ValidateBusinessLogic
<1>4. d % Cent = 0 /\ w % Cent = 0
  BY DEF ValidRow, ValidateBusinessLogic
<1>5. line.date.hour <= Now + 1
  BY DEF ValidRow, ParsesDate, Tolerance
<1>6. ASSUME NEW x \in 1 .. MaxAmount, x % Cent = 0
      PROVE  \E n \in 1 .. MaxAmount \div Cent : x = n * Cent
  <2>1. x = (x \div Cent) * Cent
    BY <1>6, AmountAssumption DEF Cent
  <2>2. x \div Cent \in 1 .. MaxAmount \div Cent
    BY <1>6, <2>1, AmountAssumption DEF Cent
  <2>3. QED
    BY <2>1, <2>2
<1>7. CASE d = 0 /\ w > 0
  <2>1. PICK n \in 1 .. MaxAmount \div Cent : w = n * Cent
    BY <1>2, <1>4, <1>6, <1>7, AmountAssumption
  <2>2. {d, w} = {0, n * Cent}
    BY <1>7, <2>1
  <2>3. QED
    BY <1>5, <2>2
<1>8. CASE d > 0 /\ w = 0
  <2>1. PICK n \in 1 .. MaxAmount \div Cent : d = n * Cent
    BY <1>2, <1>4, <1>6, <1>8, AmountAssumption
  <2>2. {d, w} = {0, n * Cent}
    BY <1>8, <2>1
  <2>3. QED
    BY <1>5, <2>2
<1>9. QED
  BY <1>3, <1>7, <1>8

\* What is posted are payments of whole cents within the limits, none of them of tomorrow.
THEOREM PaymentsSound == Spec => []PaymentsOnly
<1>1. ASSUME IInv, NEW r \in Processes, posted[r] > 0, NEW i \in Transactions(Lines(r))
      PROVE  Lines(r)[i] \in Line /\ ValidRow(Lines(r)[i])
  <2>1. r \in Reqs /\ posted[r] \in Nat /\ posted[r] <= Due(r) /\ files[r].tx \in File \cup {NoFile}
    BY <1>1, RequestAssumption DEF Reqs, Part, IInv, Typed, RequestOK, StoredOK
  <2>2. Lines(r) \in Seq(Line)
    BY <1>1, <2>1 DEF Due, Lines, File
  <2>3. QED
    BY <2>2 DEF Transactions, RawRows
<1>2. IInv => PaymentsOnly
  BY <1>1, PaymentOfRow DEF PaymentsOnly
<1>3. QED
  BY <1>2, Invariance, PTL

(***************************************************************************)
(* The ledger.  A step of a request answers it, posts rules or a batch, or *)
(* is no step of the ledger.                                               *)
(***************************************************************************)
LedgerStep == [L!Next]_(L!vars)

LEMMA InitLedger == Init => L!Init
BY DueNat DEF Init, L!Init, Reqs

LEMMA DueFixed ==
    ASSUME UNCHANGED given
    PROVE  [r \in Processes |-> Due(r)]' = [r \in Processes |-> Due(r)]
BY GivenFixed DEF Reqs

LEMMA HiddenStep ==
    ASSUME UNCHANGED given, UNCHANGED <<ruled, posted, answer>>
    PROVE  LedgerStep
BY DueFixed DEF LedgerStep, L!vars

\* Requests to /files/upload are not seen in the ledger.
LEMMA UploadStep ==
    ASSUME IInv, NEW r \in Reqs \ Processes, NEW s, answer' = [answer EXCEPT ![r] = s],
           UNCHANGED given, UNCHANGED <<ruled, posted>>
    PROVE  LedgerStep
BY DueFixed DEF IInv, Typed, LedgerStep, L!vars, Reqs

LEMMA AnswerStep ==
    ASSUME IInv, NEW r \in Processes, NEW s \in Statuses, answer[r] = "none",
           answer' = [answer EXCEPT ![r] = s], UNCHANGED given, UNCHANGED <<ruled, posted>>,
           s = "201" => r \in ruled /\ posted[r] = Due(r)
    PROVE  LedgerStep
<1>1. r \in Reqs /\ answer \in [Reqs -> Statuses \cup {"none", "lost"}]
  BY DEF IInv, Typed, Reqs
<1>2. L!Answer(r)
  BY <1>1, DueFixed DEF L!Answer, Statuses, Reqs
<1>3. QED
  BY <1>2 DEF LedgerStep, L!Next

LEMMA StepLedger == IInv /\ [Next]_vars => LedgerStep
<1> SUFFICES ASSUME IInv, [Next]_vars PROVE LedgerStep
  OBVIOUS
<1> USE DEF Reqs
<1>1. ASSUME NEW r \in Reqs, Refuse(r) \/ AnswerAtOnce(r) PROVE LedgerStep
  <2>1. PICK s \in Statuses : /\ answer' = [answer EXCEPT ![r] = s]
                              /\ r \in Processes => s # "201"
    BY <1>1 DEF Refuse, AnswerAtOnce, Answer, StatusOfMulter, Statuses
  <2>2. stage[r] = "new" /\ UNCHANGED given /\ UNCHANGED <<ruled, posted>>
    BY <1>1 DEF Refuse, AnswerAtOnce, Received, tables
  <2>3. answer[r] = "none"
    BY <2>2 DEF IInv, RequestOK, StageOK
  <2>4. QED
    BY <2>1, <2>2, <2>3, AnswerStep, UploadStep
<1>2. ASSUME NEW r \in Reqs, StartUploads(r) PROVE LedgerStep
  BY <1>2, HiddenStep DEF StartUploads, Goto, tables
<1>3. ASSUME NEW r \in Reqs, NEW p \in Part, UploadSucceeds(r, p) PROVE LedgerStep
  BY <1>3, HiddenStep, UploadStep DEF UploadSucceeds, Goto, Answer
<1>4. ASSUME NEW r \in Reqs, NEW p \in Part, UploadUnlogged(r, p) \/ UploadRejected(r, p) PROVE LedgerStep
  <2>1. PICK s \in Statuses : Throw(r, s) /\ s # "201"
    BY <1>4 DEF UploadUnlogged, UploadRejected, DatabaseStatus, StatusOfErrors, Statuses
  <2>2. UNCHANGED given /\ UNCHANGED <<ruled, posted>>
    BY <1>4 DEF UploadUnlogged, UploadRejected, tables
  <2>3. CASE stage[r] = "uploading"
    <3>1. answer[r] = "none"
      BY <2>3 DEF IInv, RequestOK, StageOK
    <3>2. PICK t \in Statuses : answer' = [answer EXCEPT ![r] = t] /\ t # "201"
      BY <2>1, <2>3 DEF Throw, Answer, Statuses
    <3>3. QED
      BY <2>2, <3>1, <3>2, AnswerStep, UploadStep
  <2>4. CASE stage[r] # "uploading"
    BY <2>1, <2>2, <2>4, HiddenStep DEF Throw
  <2>5. QED
    BY <2>3, <2>4
<1>5. ASSUME NEW r \in Processes, SaveRules(r) PROVE LedgerStep
  <2>1. answer[r] = "none" /\ r \notin ruled
    BY <1>5 DEF SaveRules, Advance, IInv, RequestOK, StageOK
  <2>2. UNCHANGED given /\ ruled' = ruled \cup {r} /\ UNCHANGED <<posted, answer>>
    BY <1>5 DEF SaveRules, Advance, Goto
  <2>3. L!PostRules(r)
    BY <2>1, <2>2, DueFixed DEF L!PostRules
  <2>4. QED
    BY <2>3 DEF LedgerStep, L!Next
<1>6. ASSUME NEW r \in Processes, Parse(r) PROVE LedgerStep
  BY <1>6, HiddenStep DEF Parse, Advance, Goto, tables
<1>7. ASSUME NEW r \in Processes, SaveBatch(r) PROVE LedgerStep
  <2>1. /\ answer[r] = "none" /\ r \in ruled
        /\ Due(r) \in Nat /\ posted \in [Reqs -> Nat] /\ posted[r] < Due(r)
    BY <1>7, DueNat DEF SaveBatch, IInv, Typed, RequestOK, StageOK
  <2>2. /\ EndOfBatch(r) \in {posted[r] + BatchSize, Due(r)}
        /\ posted[r] < EndOfBatch(r)
        /\ EndOfBatch(r) <= posted[r] + BatchSize
        /\ EndOfBatch(r) <= Due(r)
    BY <2>1, RequestAssumption DEF EndOfBatch
  <2>3. UNCHANGED given /\ posted' = [posted EXCEPT ![r] = EndOfBatch(r)] /\ UNCHANGED <<ruled, answer>>
    BY <1>7 DEF SaveBatch
  <2>4. [q \in Processes |-> posted[q]]' = [[q \in Processes |-> posted[q]] EXCEPT ![r] = EndOfBatch(r)]
    BY <2>1, <2>3
  <2>5. L!PostRows(r)
    BY <2>1, <2>2, <2>3, <2>4, DueFixed DEF L!PostRows
  <2>6. QED
    BY <2>5 DEF LedgerStep, L!Next
<1>8. ASSUME NEW r \in Processes, RulesFail(r) \/ ParseFails(r) \/ BatchFails(r) \/ Succeed(r) PROVE LedgerStep
  <2>1. PICK s \in {"201", "400"} :
           /\ answer' = [answer EXCEPT ![r] = s]
           /\ s = "201" => stage[r] = "saving" /\ posted[r] = Due(r)
    BY <1>8 DEF RulesFail, ParseFails, BatchFails, Succeed, Fail, Answer
  <2>2. /\ stage[r] \in {"rules", "parsing", "saving"}
        /\ UNCHANGED given /\ UNCHANGED <<ruled, posted>>
    BY <1>8 DEF RulesFail, ParseFails, BatchFails, Succeed, Fail, tables
  <2>3. answer[r] = "none" /\ (s = "201" => r \in ruled)
    BY <2>1, <2>2 DEF IInv, RequestOK, StageOK
  <2>4. QED
    BY <2>1, <2>2, <2>3, AnswerStep DEF Statuses
<1>9. CASE Crash
  <2>1. UNCHANGED given /\ UNCHANGED <<ruled, posted>>
    BY <1>9 DEF Crash, tables
  <2>2. \A r \in Processes :
           answer'[r] = IF r \in Running \cap Processes /\ answer[r] = "none" THEN "lost" ELSE answer[r]
    BY <1>9 DEF Crash, Running, IInv, RequestOK, StageOK
  <2>3. L!Die
    <3> DEFINE a == [r \in Processes |-> IF answer[r] \in {"none", "lost"} THEN answer[r]
                                         ELSE IF answer[r] = "201" THEN "ok" ELSE "failed"]
    <3>1. a' = [r \in Processes |-> IF r \in Running \cap Processes /\ a[r] = "none" THEN "lost" ELSE a[r]]
      BY <2>2
    <3>2. Running \cap Processes \in SUBSET Processes
      OBVIOUS
    <3>3. QED
      BY <2>1, <3>1, <3>2, DueFixed DEF L!Die
  <2>4. QED
    BY <2>3 DEF LedgerStep, L!Next
<1>10. CASE UNCHANGED vars
  BY <1>10, HiddenStep DEF vars
<1>11. QED
  BY <1>1, <1>2, <1>3, <1>4, <1>5, <1>6, <1>7, <1>8, <1>9, <1>10 DEF Next, Upload, Handle

\* Rules first and once, then rows in whole batches, then one answer that is a success
\* only if all of it is in, then nothing: whatever fails, and whenever the process dies.
THEOREM Refinement == Spec => ImplementsLedger
BY InitLedger, StepLedger, Invariance, PTL DEF Spec, ImplementsLedger, L!Spec, LedgerStep

-----------------------------------------------------------------------------
(***************************************************************************)
(* The layout of a file.  A place's rank is how many places there are up   *)
(* to it; ranks are one to one, and so lines that are taken out of a file  *)
(* in their order are as many, and as many of them valid, as they were.    *)
(***************************************************************************)
Upto(P, p) == {q \in P : q <= p}
Rank(P) == [p \in P |-> Cardinality(Upto(P, p))]

LEMMA RankBijection ==
    ASSUME NEW P \in SUBSET Nat, IsFiniteSet(P)
    PROVE  Rank(P) \in Bijection(P, 1 .. Cardinality(P))
<1> DEFINE n == Cardinality(P)
<1>1. n \in Nat
  BY FS_CardinalityType
<1>2. ASSUME NEW p \in P
      PROVE  /\ IsFiniteSet(Upto(P, p)) /\ Cardinality(Upto(P, p)) \in 1 .. n
  <2>1. Upto(P, p) \in SUBSET P /\ p \in Upto(P, p)
    BY DEF Upto
  <2>2. IsFiniteSet(Upto(P, p)) /\ Cardinality(Upto(P, p)) <= n
    BY <2>1, FS_Subset
  <2>3. Cardinality(Upto(P, p)) \in Nat /\ Cardinality(Upto(P, p)) # 0
    BY <2>1, <2>2, FS_CardinalityType, FS_EmptySet
  <2>4. QED
    BY <1>1, <2>2, <2>3
<1>3. Rank(P) \in [P -> 1 .. n]
  BY <1>2 DEF Rank
<1>4. ASSUME NEW p \in P, NEW q \in P, p < q
      PROVE  Rank(P)[p] # Rank(P)[q]
  <2>1. Upto(P, p) \in SUBSET Upto(P, q) /\ q \in Upto(P, q) /\ q \notin Upto(P, p)
    <3>1. p \in Nat /\ q \in Nat /\ \A x \in P : x \in Nat
      OBVIOUS
    <3>2. \A x \in P : x <= p => x <= q
      BY <1>4, <3>1
    <3>3. q <= q /\ ~(q <= p)
      BY <1>4, <3>1
    <3>4. QED
      BY <3>2, <3>3 DEF Upto
  <2>2. Cardinality(Upto(P, p)) # Cardinality(Upto(P, q))
    BY <1>2, <2>1, FS_Subset
  <2>3. QED
    BY <2>2 DEF Rank
<1>5. \A p, q \in P : Rank(P)[p] = Rank(P)[q] => p = q
  BY <1>4
<1>6. Rank(P) \in Injection(P, 1 .. n)
  BY <1>3, <1>5 DEF Injection, IsInjective
<1>7. IsFiniteSet(1 .. n) /\ Cardinality(1 .. n) = n
  BY <1>1, FS_Interval
<1>8. Rank(P) \in Surjection(P, 1 .. n)
  BY <1>6, <1>7, FS_Injection
<1>9. QED
  BY <1>6, <1>8 DEF Bijection

\* The lines at places P, one for each place.
LEMMA LinesInOrder ==
    ASSUME NEW lines, NEW P \in SUBSET Nat, IsFiniteSet(P)
    PROVE  /\ DOMAIN LinesAt(lines, P) = 1 .. Cardinality(P)
           /\ \A p \in P : LinesAt(lines, P)[Rank(P)[p]] = lines[p]
<1> DEFINE n == Cardinality(P)
<1>1. DOMAIN LinesAt(lines, P) = 1 .. n
  BY DEF LinesAt
<1>2. Rank(P) \in [P -> 1 .. n] /\ \A p, q \in P : Rank(P)[p] = Rank(P)[q] => p = q
  BY RankBijection DEF Bijection, Injection, IsInjective
<1>3. ASSUME NEW p \in P
      PROVE  LinesAt(lines, P)[Rank(P)[p]] = lines[p]
  <2>1. Rank(P)[p] \in 1 .. n /\ \A q \in P : Cardinality({x \in P : x <= q}) = Rank(P)[p] <=> q = p
    BY <1>2 DEF Rank, Upto
  <2>2. (CHOOSE q \in P : Cardinality({x \in P : x <= q}) = Rank(P)[p]) = p
    BY <2>1
  <2>3. QED
    BY <2>1, <2>2 DEF LinesAt
<1>4. QED
  BY <1>1, <1>3

\* What is kept of a file has as many valid lines and, but for a header that it begins
\* with, as many errors.
LEMMA SameRows ==
    ASSUME NEW lines, IsFiniteSet(RawRows(lines)), RawRows(lines) \subseteq Nat,
           NEW body, body = LinesAt(lines, RawRows(lines))
    PROVE  /\ ValidCount(body) = ValidCount(lines)
           /\ Cardinality(Errors(lines)) = Cardinality(Errors(body)) +
                 (IF 1 \in DOMAIN body /\ body[1].kind = "header" THEN 1 ELSE 0)
<1> DEFINE P == RawRows(lines)
           f == Rank(P)
<1>1. f \in Bijection(P, DOMAIN body) /\ \A p \in P : body[f[p]] = lines[p]
  BY RankBijection, LinesInOrder
<1>2. /\ f \in [P -> DOMAIN body]
      /\ \A p, q \in P : f[p] = f[q] => p = q
      /\ \A i \in DOMAIN body : \E p \in P : f[p] = i
  BY <1>1 DEF Bijection, Injection, IsInjective, Surjection
<1>3. \A i \in DOMAIN body : ~IsEmptyRow(body[i])
  BY <1>1, <1>2 DEF RawRows
<1>4. RawRows(body) = {i \in DOMAIN body : ~(i = 1 /\ body[1].kind = "header")}
  BY <1>3 DEF RawRows
<1>5. Transactions(body) = {i \in DOMAIN body : ValidRow(body[i])}
  BY <1>4 DEF Transactions, ValidRow
<1>6. Transactions(lines) = {p \in P : ValidRow(lines[p])}
  BY DEF Transactions
<1>7. ASSUME NEW A \in SUBSET P, NEW B, B = {f[p] : p \in A}
      PROVE  Cardinality(A) = Cardinality(B)
  <2> DEFINE g == [p \in A |-> f[p]]
  <2>1. g \in Bijection(A, B)
    BY <1>2, <1>7 DEF Bijection, Injection, IsInjective, Surjection
  <2>2. IsFiniteSet(A)
    BY FS_Subset
  <2>3. QED
    BY <2>1, <2>2, FS_Bijection DEF ExistsBijection
<1>8. Transactions(body) = {f[p] : p \in Transactions(lines)}
  BY <1>1, <1>2, <1>5, <1>6
<1>9. ValidCount(body) = ValidCount(lines)
  BY <1>6, <1>7, <1>8 DEF ValidCount
<1> DEFINE E == {i \in DOMAIN body : ~ValidRow(body[i])}
<1>10. IsFiniteSet(E) /\ Cardinality(E) \in Nat /\ Cardinality(Errors(lines)) = Cardinality(E)
  <2>1. Errors(lines) = {p \in P : ~ValidRow(lines[p])}
    BY <1>6 DEF Errors
  <2>2. E = {f[p] : p \in Errors(lines)}
    BY <1>1, <1>2, <2>1
  <2>3. Errors(lines) \in SUBSET P
    BY <2>1
  <2>4. IsFiniteSet(DOMAIN body)
    BY <1>1, FS_Bijection DEF ExistsBijection
  <2>5. IsFiniteSet(E)
    BY <2>4, FS_Subset
  <2>6. QED
    BY <1>7, <2>2, <2>3, <2>5, FS_CardinalityType
<1>11. CASE 1 \in DOMAIN body /\ body[1].kind = "header"
  <2>1. 1 \in E
    BY <1>11 DEF ValidRow
  <2>2. Errors(body) = E \ {1}
    BY <1>4, <1>5, <1>11 DEF Errors
  <2>3. Cardinality(E \ {1}) = Cardinality(E) - 1
    BY <1>10, <2>1, FS_RemoveElement
  <2>4. Cardinality(Errors(lines)) = Cardinality(Errors(body)) + 1
    BY <1>10, <2>2, <2>3
  <2>5. QED
    BY <1>9, <1>11, <2>4
<1>12. CASE ~(1 \in DOMAIN body /\ body[1].kind = "header")
  <2>1. Errors(body) = E
    BY <1>4, <1>5, <1>12 DEF Errors
  <2>2. Cardinality(Errors(lines)) = Cardinality(Errors(body)) + 0
    BY <1>10, <2>1
  <2>3. QED
    BY <1>9, <1>12, <2>2
<1>13. QED
  BY <1>11, <1>12

\* For any file of transactions: its empty lines, and a header that is its very first line,
\* cost no row and no error; a header anywhere else, behind an empty line too, costs one error.
THEOREM LayoutSound == Spec => []OnlyStrayHeaderCosts
<1>1. ASSUME IInv PROVE OnlyStrayHeaderCosts
  <2> SUFFICES ASSUME NEW r \in Processes, "tx" \in Sent(r), Lines(r) # <<>>
               PROVE  LET printed == {i \in DOMAIN Lines(r) : ~IsEmptyRow(Lines(r)[i])}
                          header == IF Lines(r)[1].kind = "header" THEN {1} ELSE {}
                          body == LinesAt(Lines(r), printed \ header)
                          stray == IF 1 \in DOMAIN body /\ body[1].kind = "header" THEN 1 ELSE 0
                      IN  /\ ValidCount(body) = Due(r)
                          /\ Cardinality(Errors(Lines(r))) = Cardinality(Errors(body)) + stray
    BY DEF OnlyStrayHeaderCosts
  <2> DEFINE printed == {i \in DOMAIN Lines(r) : ~IsEmptyRow(Lines(r)[i])}
             header == IF Lines(r)[1].kind = "header" THEN {1} ELSE {}
             body == LinesAt(Lines(r), printed \ header)
             stray == IF 1 \in DOMAIN body /\ body[1].kind = "header" THEN 1 ELSE 0
  <2>1. files \in [Reqs -> [Part -> File \cup {NoFile}]] /\ r \in Reqs
    BY <1>1, RequestAssumption DEF IInv, Typed, Reqs
  <2>2. files[r].tx # NoFile /\ files[r].tx \in File
    BY <2>1 DEF Sent, Part
  <2>3. Lines(r) \in Seq(Line)
    BY <2>2 DEF Lines, File
  <2>4. RawRows(Lines(r)) = printed \ header
    BY DEF RawRows
  <2>5. RawRows(Lines(r)) \in SUBSET (1 .. Len(Lines(r))) /\ Len(Lines(r)) \in Nat
    BY <2>3 DEF RawRows
  <2>6. IsFiniteSet(RawRows(Lines(r))) /\ RawRows(Lines(r)) \subseteq Nat
    <3>1. IsFiniteSet(1 .. Len(Lines(r)))
      BY <2>5, FS_Interval
    <3>2. QED
      BY <2>5, <3>1, FS_Subset
  <2>7. Due(r) = ValidCount(Lines(r))
    BY <2>2 DEF Due
  <2>8. /\ ValidCount(body) = ValidCount(Lines(r))
        /\ Cardinality(Errors(Lines(r))) = Cardinality(Errors(body)) + stray
    BY <2>4, <2>6, SameRows
  <2>9. QED
    BY <2>7, <2>8
<1>2. QED
  BY <1>1, Invariance, PTL
=============================================================================
