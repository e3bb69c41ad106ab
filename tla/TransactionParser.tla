--------------------------- MODULE TransactionParser ---------------------------
(***************************************************************************)
(* TransactionParserService: which lines of a file of bank transactions    *)
(* become transactions, and when the whole file is rejected.  A file is    *)
(* the sequence of its lines.  Texts are left out but for what the parser  *)
(* finds in them: whether a date has the expected form, and the number     *)
(* that an amount begins with, in thousandths.  Operators marked Variant   *)
(* are nearby mistakes used by no other operator.                          *)
(***************************************************************************)
EXTENDS Integers, Sequences, FiniteSets

CONSTANTS
    MaxAmount,  \* the largest amount accepted, 1000000000 in the code
    Now         \* the hour at which files are parsed

ASSUME AmountAssumption == MaxAmount \in Nat /\ Now \in Int

Tolerance == 1      \* a transaction may be this many hours ahead of the server
Cent == 10          \* the second decimal place, in thousandths

\* A cell holds a number (with or without commas, or something after it), a word, or nothing.
Cell == [text : {"number", "word", "blank"}, value : Int]

\* The instant a date names once the Date constructor has rolled it over: 2025-02-30 is
\* the second of March.
DateCell == [text : {"date", "word"}, hour : Int]

\* Lines are told apart by what the parser does with them: the header, nothing at all,
\* nothing but commas, too few cells, or six cells.
Unparsed == [kind : {"header", "empty", "commas", "word", "short"}]
DataLine == [kind : {"data"}, date : DateCell, deposit : Cell, withdrawal : Cell, balance : Cell]
Line == Unparsed \cup DataLine

\* The amount made of a cell: what cannot be read is 0.
Amount(cell) == IF cell.text = "number" THEN cell.value ELSE 0

\* Variant: only what exceeds the maximum is refused.
ValidateUpperLimits(row) ==
    /\ Amount(row.deposit) <= MaxAmount
    /\ Amount(row.withdrawal) <= MaxAmount
    /\ Amount(row.balance) <= MaxAmount

\* The decorators of TransactionRowDto.
ValidateLimits(row) ==
    /\ Amount(row.deposit) \in 0 .. MaxAmount
    /\ Amount(row.withdrawal) \in 0 .. MaxAmount
    /\ Amount(row.balance) <= MaxAmount

ValidateBusinessLogic(row) ==
    /\ ~(Amount(row.deposit) > 0 /\ Amount(row.withdrawal) > 0)
    /\ ~(Amount(row.deposit) = 0 /\ Amount(row.withdrawal) = 0)
    /\ \A cell \in {row.deposit, row.withdrawal, row.balance} : Amount(cell) % Cent = 0

ParsesDate(cell) == cell.text = "date" /\ cell.hour <= Now + Tolerance

\* What validateAndTransformRow and convertToTransaction let through.
ValidRow(line) ==
    /\ line.kind = "data"
    /\ ValidateLimits(line)
    /\ ValidateBusinessLogic(line)
    /\ ParsesDate(line.date)

IsEmptyRow(line) == line.kind \in {"empty", "commas"}

\* Variant: a header is skipped wherever it is, but empty lines are rows.
RowsButHeaders(lines) == {i \in DOMAIN lines : lines[i].kind # "header"}

\* The lines parseCsvContent keeps.  An empty line is an event too, and after any event
\* a header is a row like any other.
RawRows(lines) ==
    {i \in DOMAIN lines : ~(i = 1 /\ lines[i].kind = "header") /\ ~IsEmptyRow(lines[i])}

\* The lines that become transactions, in their order.
Transactions(lines) == {i \in RawRows(lines) : ValidRow(lines[i])}
Errors(lines) == RawRows(lines) \ Transactions(lines)

ValidCount(lines) == Cardinality(Transactions(lines))

\* parseTransactionFile and validateParseResult return: a file with no valid row is
\* rejected, and one with more errors than valid rows.
ParsesFile(lines) ==
    /\ Transactions(lines) # {}
    /\ Cardinality(Errors(lines)) <= ValidCount(lines)
=============================================================================
