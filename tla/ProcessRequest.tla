---------------------------- MODULE ProcessRequest ----------------------------
(***************************************************************************)
(* A request that brings files, from multer to its answer: POST            *)
(* /accounting/process, whose two files are uploaded in parallel before    *)
(* the rules are saved, the transactions parsed, and their batches saved,  *)
(* and POST /files/upload, which only uploads, one file after the other.   *)
(* An upload is validated and then logged; its log entry may be written    *)
(* when the request has already been answered.  Each step that awaits the  *)
(* database may fail, and the process may die between any two steps.       *)
(* Saving the rules is one step here and many in RuleStore; which rule a   *)
(* row gets is left to Classification.  Operators marked Variant are       *)
(* nearby mistakes used by no action.                                      *)
(***************************************************************************)
EXTENDS TransactionParser, FileValidation

CONSTANTS
    Processes,   \* requests to /accounting/process
    Uploads,     \* requests to /files/upload
    NoFile,
    Requests0,   \* the files requests may bring: a set of functions to [tx, rules]
    Deployments, \* the values of ALLOWED_FILE_EXTENSIONS to consider
    BatchSize    \* BATCH_SIZE

Reqs == Processes \cup Uploads
Part == {"tx", "rules"}

\* A file of transactions, a file of rules, and what is known of both.
File == [ext : {"csv", "json", "txt"}, mime : BOOLEAN, size : Nat, readable : BOOLEAN,
         json : {"none", "other", "rules"}, lines : Seq(Line)]

ASSUME RequestAssumption ==
    /\ Processes \cap Uploads = {}
    /\ Requests0 \subseteq [Reqs -> [Part -> File \cup {NoFile}]]
    /\ NoFile \notin File
    /\ BatchSize \in Nat \ {0}

VARIABLES
    allowed,  \* ALLOWED_FILE_EXTENSIONS
    files,    \* the files of each request; like the configuration they do not change
    up,       \* how far each of its uploads is
    logged,   \* table file_upload_logs: the entries of each upload
    stage,    \* the call a request awaits
    ruled,    \* the requests whose rules are saved
    posted,   \* how many transactions of each request are saved
    answer    \* the status of its answer

tables == <<logged, ruled, posted>>
given == <<allowed, files>>
vars == <<given, up, logged, stage, ruled, posted, answer>>

Lines(r) == files[r].tx.lines
FormatOf(p) == IF p = "tx" THEN "csv" ELSE "json"
Faults(r, p) == FileErrors(files[r][p], FormatOf(p), allowed)

\* The name a handler looks for.  multer accepts no field but `files', so that in
\* /files/upload the names of the fields never tell.
Wanted(r, p) == IF p = "rules" THEN "json" ELSE IF r \in Processes THEN "csv" ELSE "txt"
Sent(r) == {p \in Part : files[r][p] # NoFile}
Found(r) == {p \in Sent(r) : files[r][p].ext = Wanted(r, p)}

Due(r) == IF files[r].tx = NoFile THEN 0 ELSE ValidCount(Lines(r))

Init ==
    /\ allowed \in Deployments
    /\ files \in Requests0
    /\ up = [r \in Reqs |-> [p \in Part |-> "none"]]
    /\ logged = [r \in Reqs |-> [p \in Part |-> <<>>]]
    /\ stage = [r \in Reqs |-> "new"]
    /\ ruled = {}
    /\ posted = [r \in Reqs |-> 0]
    /\ answer = [r \in Reqs |-> "none"]

Answer(r, status) ==
    /\ stage' = [stage EXCEPT ![r] = "done"]
    /\ answer' = [answer EXCEPT ![r] = status]

Goto(r, s) ==
    /\ stage' = [stage EXCEPT ![r] = s]
    /\ UNCHANGED answer

-----------------------------------------------------------------------------
(***************************************************************************)
(* The request arrives.                                                    *)
(***************************************************************************)
Refuse(r) ==
    /\ stage[r] = "new"
    /\ \E p \in Sent(r) : RefusedByMulter(files[r][p]) /\ Answer(r, StatusOfMulter(files[r][p]))
    /\ UNCHANGED <<given, up, tables>>

Received(r) == stage[r] = "new" /\ \A p \in Sent(r) : ~RefusedByMulter(files[r][p])

\* Too few files; or none that /files/upload looks for, which is no error there.
AnswerAtOnce(r) ==
    /\ Received(r)
    /\ IF r \in Processes
       THEN Found(r) # Part /\ Answer(r, "400")
       ELSE Found(r) = {} /\ Answer(r, IF Sent(r) = {} THEN "400" ELSE "201")
    /\ UNCHANGED <<given, up, tables>>

\* The uploads that begin with the request: both, or the first one.
StartUploads(r) ==
    /\ Received(r)
    /\ IF r \in Processes THEN Found(r) = Part ELSE Found(r) # {}
    /\ up' = [up EXCEPT ![r] = [p \in Part |->
                IF p \in Found(r) /\ (r \in Processes \/ p = "tx" \/ Found(r) = {"rules"})
                THEN "logging" ELSE "none"]]
    /\ Goto(r, "uploading")
    /\ UNCHANGED <<given, tables>>

-----------------------------------------------------------------------------
(***************************************************************************)
(* processFileUpload.  The file has been validated before its log entry is *)
(* sent, and a failing upload throws after its entry was written.          *)
(***************************************************************************)
\* handleDatabaseError: a lost connection is told from other errors.
DatabaseStatus == {"500", "503"}

Settles(r, p, s) == up' = [up EXCEPT ![r][p] = s]
Logs(r, p, entry) == logged' = [logged EXCEPT ![r][p] = Append(@, entry)]

UploadSucceeds(r, p) ==
    /\ up[r][p] = "logging"
    /\ Faults(r, p) = {}
    /\ Logs(r, p, "SUCCESS")
    /\ IF stage[r] # "uploading" THEN Settles(r, p, "done") /\ UNCHANGED <<stage, answer>>
       ELSE IF r \in Processes
       THEN /\ Settles(r, p, "done")
            /\ IF \A q \in Part \ {p} : up[r][q] = "done" THEN Goto(r, "rules") ELSE Goto(r, "uploading")
       ELSE IF p = "tx" /\ "rules" \in Found(r)
       THEN /\ up' = [up EXCEPT ![r] = [q \in Part |-> IF q = p THEN "done" ELSE "logging"]]
            /\ Goto(r, "uploading")
       ELSE Settles(r, p, "done") /\ Answer(r, "201")
    /\ UNCHANGED <<given, ruled, posted>>

\* Variant: an error is noticed only if no other upload went well before.
ThrowFirst(r, status) ==
    IF stage[r] = "uploading" /\ \A p \in Part : up[r][p] # "done"
    THEN Answer(r, IF r \in Processes THEN "400" ELSE status)
    ELSE UNCHANGED <<stage, answer>>

\* The error reaches the client, unless the other upload's error has before.  The catch
\* of processTransactions answers all of them alike.
Throw(r, status) ==
    IF stage[r] = "uploading" THEN Answer(r, IF r \in Processes THEN "400" ELSE status)
    ELSE UNCHANGED <<stage, answer>>

\* Variant: a success that could not be logged is logged as a failure.
UploadUnloggedAsFailure(r, p) ==
    /\ up[r][p] = "logging"
    /\ Faults(r, p) = {}
    /\ Settles(r, p, "failed")
    /\ Logs(r, p, "FAILED")
    /\ \E s \in DatabaseStatus : Throw(r, s)
    /\ UNCHANGED <<given, ruled, posted>>

\* The success cannot be logged; validationResult is set, so no failure is logged either.
UploadUnlogged(r, p) ==
    /\ up[r][p] = "logging"
    /\ Faults(r, p) = {}
    /\ Settles(r, p, "failed")
    /\ \E s \in DatabaseStatus : Throw(r, s)
    /\ UNCHANGED <<given, tables>>

\* logUploadFailure keeps an error of its own to itself.
UploadRejected(r, p) ==
    /\ up[r][p] = "logging"
    /\ Faults(r, p) # {}
    /\ Settles(r, p, "failed")
    /\ Logs(r, p, "FAILED") \/ UNCHANGED logged
    /\ Throw(r, StatusOfErrors(Faults(r, p)))
    /\ UNCHANGED <<given, ruled, posted>>

-----------------------------------------------------------------------------
(***************************************************************************)
(* The rest of processTransactions.                                        *)
(***************************************************************************)
Advance(r, from, to) == stage[r] = from /\ Goto(r, to)
Fail(r, from) == stage[r] = from /\ Answer(r, "400")

SaveRules(r) ==
    /\ Advance(r, "rules", "parsing")
    /\ files[r].rules.json = "rules"
    /\ ruled' = ruled \cup {r}
    /\ UNCHANGED <<given, up, logged, posted>>

\* The file cannot be read any more, is not valid, or the database rejects the save.
RulesFail(r) ==
    /\ Fail(r, "rules")
    /\ UNCHANGED <<given, up, tables>>

Parse(r) ==
    /\ Advance(r, "parsing", "saving")
    /\ ParsesFile(Lines(r))
    /\ UNCHANGED <<given, up, tables>>

\* The file cannot be read any more, or is rejected.
ParseFails(r) ==
    /\ Fail(r, "parsing")
    /\ UNCHANGED <<given, up, tables>>

\* Variant: the last batch is as long as the others.
EndOfFullBatch(r) == posted[r] + BatchSize

EndOfBatch(r) == IF posted[r] + BatchSize <= Due(r) THEN posted[r] + BatchSize ELSE Due(r)

SaveBatch(r) ==
    /\ stage[r] = "saving"
    /\ posted[r] < Due(r)
    /\ posted' = [posted EXCEPT ![r] = EndOfBatch(r)]
    /\ UNCHANGED <<given, up, logged, stage, ruled, answer>>

\* Variant: the rows before the one that fails stay.
BatchFailsHalfway(r) ==
    /\ posted[r] < Due(r)
    /\ Fail(r, "saving")
    /\ posted' = [posted EXCEPT ![r] = @ + 1]
    /\ UNCHANGED <<given, up, logged, ruled>>

BatchFails(r) ==
    /\ posted[r] < Due(r)
    /\ Fail(r, "saving")
    /\ UNCHANGED <<given, up, tables>>

\* Variant: classifyAndSaveTransactions is not awaited.
SucceedEarly(r) ==
    /\ stage[r] = "saving"
    /\ Answer(r, "201")
    /\ UNCHANGED <<given, up, tables>>

Succeed(r) ==
    /\ stage[r] = "saving"
    /\ posted[r] = Due(r)
    /\ Answer(r, "201")
    /\ UNCHANGED <<given, up, tables>>

-----------------------------------------------------------------------------
Running == {r \in Reqs : stage[r] \notin {"new", "done"}}

\* The process dies; what is stored stays, and no one is answered.
Crash ==
    /\ stage' = [r \in Reqs |-> IF r \in Running THEN "done" ELSE stage[r]]
    /\ answer' = [r \in Reqs |-> IF r \in Running THEN "lost" ELSE answer[r]]
    /\ up' = [r \in Reqs |-> [p \in Part |-> IF up[r][p] = "logging" THEN "lost" ELSE up[r][p]]]
    /\ UNCHANGED <<given, tables>>

Upload(r, p) == UploadSucceeds(r, p) \/ UploadUnlogged(r, p) \/ UploadRejected(r, p)

Handle(r) ==
    \/ SaveRules(r) \/ RulesFail(r) \/ Parse(r) \/ ParseFails(r)
    \/ SaveBatch(r) \/ BatchFails(r) \/ Succeed(r)

Next ==
    \/ \E r \in Reqs :
          \/ Refuse(r) \/ AnswerAtOnce(r) \/ StartUploads(r)
          \/ \E p \in Part : Upload(r, p)
    \/ \E r \in Processes : Handle(r)
    \/ Crash

\* What a request awaits settles, and the event loop resumes it.
Fairness ==
    /\ \A r \in Reqs, p \in Part : WF_vars(Upload(r, p))
    /\ \A r \in Processes : WF_vars(Handle(r))

Spec == Init /\ [][Next]_vars
FairSpec == Spec /\ Fairness

-----------------------------------------------------------------------------
Statuses == {"201", "400", "413", "415", "500", "503"}

TypeOK ==
    /\ allowed \in Deployments
    /\ up \in [Reqs -> [Part -> {"none", "logging", "done", "failed", "lost"}]]
    /\ logged \in [Reqs -> [Part -> Seq({"SUCCESS", "FAILED"})]]
    /\ stage \in [Reqs -> {"new", "uploading", "rules", "parsing", "saving", "done"}]
    /\ ruled \subseteq Processes
    /\ posted \in [Reqs -> Nat]
    /\ \A r \in Reqs : posted[r] <= Due(r)
    /\ answer \in [Reqs -> Statuses \cup {"none", "lost"}]

\* The log can be believed, however uploads, failures and crashes interleave: an upload
\* has at most one entry, a FAILED one only if its file was found faulty, and there is
\* no change of rules or transactions whose two files are not logged as SUCCESS.
LogTellsOutcome ==
    \A r \in Reqs :
        /\ \A p \in Part :
              /\ logged[r][p] \in {<<>>, <<"SUCCESS">>, <<"FAILED">>}
              /\ logged[r][p] = <<"FAILED">> => Faults(r, p) # {}
        /\ r \in ruled \/ posted[r] > 0 => \A p \in Part : logged[r][p] = <<"SUCCESS">>

\* What a client finds after a failure: the transactions of its file up to the end of a
\* batch other than the last, none if the file was rejected, and none without the rules
\* that were sent with it.  Sending the request again duplicates exactly those.
FailureLeaves ==
    \A r \in Processes :
        /\ posted[r] > 0 => r \in ruled /\ ParsesFile(Lines(r))
        /\ answer[r] = "400" => posted[r] % BatchSize = 0 /\ (posted[r] = 0 \/ posted[r] < Due(r))

\* Whatever the file says, each transaction taken from it is one payment, in or out, of
\* a positive amount in whole cents, and not one of tomorrow.
PaymentsOnly ==
    \A r \in Processes : posted[r] > 0 => \A i \in Transactions(Lines(r)) :
        LET paid == {Amount(Lines(r)[i].deposit), Amount(Lines(r)[i].withdrawal)}
        IN  \E n \in 1 .. MaxAmount \div Cent :
                paid = {0, n * Cent} /\ Lines(r)[i].date.hour <= Now + 1

\* The lines at places P of a file, in their order: the i-th has i of them up to it.
LinesAt(lines, P) ==
    [i \in 1 .. Cardinality(P) |-> lines[CHOOSE p \in P : Cardinality({q \in P : q <= p}) = i]]

\* What the layout of a file costs.  Empty lines, and a header that is its very first line,
\* cost nothing.  A header anywhere else, be it only behind an empty line, is one faulty row
\* and may thereby have the file rejected; but it costs no other row.
OnlyStrayHeaderCosts ==
    \A r \in Processes : "tx" \in Sent(r) /\ Lines(r) # <<>> =>
        LET printed == {i \in DOMAIN Lines(r) : ~IsEmptyRow(Lines(r)[i])}
            header == IF Lines(r)[1].kind = "header" THEN {1} ELSE {}
            body == LinesAt(Lines(r), printed \ header)
            stray == IF 1 \in DOMAIN body /\ body[1].kind = "header" THEN 1 ELSE 0
        IN  /\ ValidCount(body) = Due(r)
            /\ Cardinality(Errors(Lines(r))) = Cardinality(Errors(body)) + stray

\* Rules once and first, then rows in whole batches, then one answer, then nothing: the
\* failures, the parallel uploads and their late log entries are not visible in the ledger.
L == INSTANCE Ledger WITH
        Requests <- Processes,
        Batch <- BatchSize,
        due <- [r \in Processes |-> Due(r)],
        ruled <- ruled,
        posted <- [r \in Processes |-> posted[r]],
        answer <- [r \in Processes |->
                    IF answer[r] \in {"none", "lost"} THEN answer[r]
                    ELSE IF answer[r] = "201" THEN "ok" ELSE "failed"]

ImplementsLedger == L!Spec

\* A request that has been received is answered, unless the process dies; and so does
\* an upload end that goes on when the other one has already failed the request.
RequestsEnd ==
    \A r \in Reqs :
        /\ stage[r] # "new" ~> answer[r] # "none"
        /\ \A p \in Part : up[r][p] = "logging" ~> up[r][p] # "logging"
=============================================================================
