--------------------------- MODULE MCProcessRequest ---------------------------
(***************************************************************************)
(* ProcessRequest with one request of each kind at a time, or both.  A     *)
(* file of up to three lines is tried by a request that is alone; requests *)
(* that meet, or fail on their way, bring one of a few files.              *)
(***************************************************************************)
EXTENDS ProcessRequest, TLC

CONSTANTS process, upload

Number(n) == [text |-> "number", value |-> n]
Blank == [text |-> "blank", value |-> 0]
Word == [text |-> "word", value |-> 0]
At(h) == [text |-> "date", hour |-> h]

Pay(date, deposit, withdrawal) ==
    [kind |-> "data", date |-> date, deposit |-> deposit, withdrawal |-> withdrawal, balance |-> Number(-20)]
Mark(k) == [kind |-> k]

Header == Mark("header")
Good == Pay(At(Now + 1), Number(MaxAmount), Blank)
GoodOut == Pay(At(Now), Word, Number(Cent))

\* Lines that differ from a good one in one or two cells.
BadLines ==
    {Pay(At(Now + 2), Number(20), Blank), Pay([text |-> "word", hour |-> 0], Number(20), Blank),
     Pay(At(Now), Blank, Word), Pay(At(Now), Number(20), Number(20)), Pay(At(Now), Number(-20), Number(0)),
     Pay(At(Now), Number(15), Blank), Pay(At(Now), Blank, Number(MaxAmount + Cent)),
     Pay(At(Now), Number(-20), Number(20))}

LinesTried == {Header, Good, GoodOut, Mark("empty"), Mark("commas"), Mark("word"), Mark("short")} \cup BadLines
Mixed == {Header, Good, Mark("empty"), Mark("short")}

MCLines ==
    {<<>>} \cup {<<a>> : a \in LinesTried} \cup {<<a, b>> : a \in LinesTried, b \in LinesTried}
    \cup {<<Header, a, b>> : a \in LinesTried, b \in LinesTried}
    \cup {<<a, b, c, d>> : a \in Mixed, b \in Mixed, c \in Mixed, d \in Mixed}

Csv(ls) == [ext |-> "csv", mime |-> TRUE, size |-> Len(ls), readable |-> TRUE, json |-> "none", lines |-> ls]
Rules == [ext |-> "json", mime |-> TRUE, size |-> 1, readable |-> TRUE, json |-> "rules", lines |-> <<>>]

\* Every fault a file may have by itself, and two at once.
Faulty(file) ==
    {file, [file EXCEPT !.mime = FALSE], [file EXCEPT !.size = MulterLimit + 1], [file EXCEPT !.size = MaxFileSize + 1],
     [file EXCEPT !.readable = FALSE], [file EXCEPT !.ext = "txt"], [file EXCEPT !.ext = "txt", !.size = MaxFileSize + 1]}

Accepted == Csv(<<Header, Good, GoodOut, Good, Mark("short")>>)
Rejected == Csv(<<Good, Mark("short"), Mark("short")>>)
NotRules == {[Rules EXCEPT !.json = j] : j \in {"other", "none"}}
Nobody == [tx |-> NoFile, rules |-> NoFile]

MCRequests0 ==
    {(process :> [tx |-> Csv(ls), rules |-> Rules]) @@ (upload :> Nobody) : ls \in MCLines}
    \cup {(process :> [tx |-> t, rules |-> q]) @@ (upload :> [tx |-> u, rules |-> v]) :
            t \in {Accepted, Rejected}, q \in {Rules} \cup NotRules,
            u \in Faulty([Accepted EXCEPT !.ext = "txt"]) \cup {Accepted, NoFile}, v \in {Rules, NoFile}}
    \cup {(process :> [tx |-> t, rules |-> q]) @@ (upload :> Nobody) :
            t \in Faulty(Accepted) \cup {NoFile}, q \in Faulty(Rules) \cup {NoFile}}
=============================================================================
