---------------------------- MODULE FileValidation ----------------------------
(***************************************************************************)
(* FileValidationService and the limits of multer: what is wrong with an   *)
(* uploaded file.  A file is described by the extension of its name, its   *)
(* size, whether its MIME type is one of the three that multer lets        *)
(* through and whether it can be read back from the disk; its content is   *)
(* lines of CSV, and for JSON whether it parses and whether the rules in   *)
(* it are well-formed.                                                     *)
(***************************************************************************)
EXTENDS Naturals, Sequences, FiniteSets

CONSTANTS
    MaxFileSize,  \* FILE_UPLOAD_MAX_SIZE
    MulterLimit   \* limits.fileSize of multer.config.ts, always 10 MB

ASSUME SizeAssumption == MaxFileSize \in Nat /\ MulterLimit \in Nat

\* multer stores nothing of a request with such a file, and the handler never runs.
RefusedByMulter(file) == ~file.mime \/ file.size > MulterLimit
StatusOfMulter(file) == IF file.mime THEN "413" ELSE "400"

\* The extension, when these are allowed.
ValidateFileExtension(file, extensions) == file.ext \in extensions

ValidateFileSize(file) == file.size <= MaxFileSize

\* The hash of the empty file is on the list of known malware.
ScanForMalware(file) == file.size > 0

\* At least two lines that are not blank, the first of them with a comma.
LooksLikeCsv(lines) ==
    LET printed == {i \in DOMAIN lines : lines[i].kind # "empty"}
    IN  /\ Cardinality(printed) > 1
        /\ \E i \in printed : lines[i].kind # "word" /\ \A j \in printed : i <= j

ValidateFileContent(file, format) ==
    IF format = "csv" THEN LooksLikeCsv(file.lines) ELSE file.json # "none"

\* The checks that go wrong, when these extensions are allowed.  A file that cannot be read is not looked at any further.
FileErrors(file, format, extensions) ==
    {e \in {"extension", "size", "hash", "malware", "format"} :
        CASE e = "extension" -> ~ValidateFileExtension(file, extensions)
          [] e = "size" -> ~ValidateFileSize(file)
          [] e = "hash" -> ~file.readable
          [] e = "malware" -> file.readable /\ ~ScanForMalware(file)
          [] e = "format" -> file.readable /\ ~ValidateFileContent(file, format)}

\* throwAppropriateError.
StatusOfErrors(errors) ==
    IF "size" \in errors THEN "413" ELSE IF "extension" \in errors THEN "415" ELSE "400"
=============================================================================
