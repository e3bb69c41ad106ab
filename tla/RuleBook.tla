------------------------------- MODULE RuleBook -------------------------------
(***************************************************************************)
(* What saving a rules file promises of the rules in the database.  A save *)
(* takes effect at once and entirely, adds nothing but what its file says, *)
(* touches no company the file does not name, and brings nothing back: of  *)
(* the rules others saved it leaves some, perhaps without their keywords.  *)
(* The exception is a save that has lost its transaction: it adds the      *)
(* rules of its file bit by bit, and may end without some of them.         *)
(***************************************************************************)
CONSTANTS
    Companies, Savers,
    Contents   \* Contents[s][c]: the rules of company c in the file of save s

VARIABLES
    book,      \* the rules of each company: [by, entry, cat, kw]
    saved,     \* the saves that have taken effect
    lost       \* the saves that have lost their transaction

vars == <<book, saved, lost>>

\* q is a rule of S, with its keywords or without.
Remnant(q, S) ==
    \E r \in S : q.by = r.by /\ q.entry = r.entry /\ q.cat = r.cat /\ (q.kw => r.kw)

Init == DOMAIN book = Companies /\ saved = {} /\ lost = {}

Replace(s) ==
    /\ s \notin saved \cup lost
    /\ saved' = saved \cup {s}
    /\ DOMAIN book' = Companies
    /\ \A c \in Companies :
          IF Contents[s][c] = {}
          THEN book'[c] = book[c]
          ELSE /\ Contents[s][c] \subseteq book'[c]
               /\ \A q \in book'[c] \ Contents[s][c] : Remnant(q, book[c])
    /\ UNCHANGED lost

Lose(s) ==
    /\ s \notin saved \cup lost
    /\ lost' = lost \cup {s}
    /\ UNCHANGED <<book, saved>>

Amend(s) ==
    /\ s \in lost \ saved
    /\ DOMAIN book' = Companies
    /\ \A c \in Companies :
          IF Contents[s][c] = {}
          THEN book'[c] = book[c]
          ELSE \A q \in book'[c] : Remnant(q, book[c] \cup Contents[s][c])
    /\ UNCHANGED <<saved, lost>>

Close(s) ==
    /\ s \in lost \ saved
    /\ saved' = saved \cup {s}
    /\ UNCHANGED <<book, lost>>

Next == \E s \in Savers : Replace(s) \/ Lose(s) \/ Amend(s) \/ Close(s)

Spec == Init /\ [][Next]_vars
=============================================================================
