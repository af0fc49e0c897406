------------------------------- MODULE Merger -------------------------------
(***************************************************************************)
(* How one line of a vault file meets one row: `decide` and the part of    *)
(* `apply` around it, crates/notes-sync/src/merger.rs.                     *)
(*                                                                         *)
(* What a node is (text, note, marker, checks, image, deleted) is one      *)
(* member of Contents and the deleted flag; where it sits is a record of   *)
(* its own in the code, judged apart, and is not here.                     *)
(***************************************************************************)
EXTENDS Hlc

CONSTANT Contents

ASSUME ContentsAssumption == Contents \subseteq Nat \ {0}

Version == [content : Contents, deleted : BOOLEAN, stamp : Stamp]

\* No row, and no line: both are the lack of a version.
None == [content |-> 0, deleted |-> FALSE, stamp |-> Blank]

Known(v) == v.content # 0

Same(v, w) == v.content = w.content /\ v.deleted = w.deleted

\* SHA-256 of the state: some fixed order of the states, equal only for equals.
Digest(v) == 2 * v.content + (IF v.deleted THEN 1 ELSE 0)

\* The order every device agrees on: the stamp, and the digest under one stamp.
Beats(v, w) ==
    \/ Before(w.stamp, v.stamp)
    \/ v.stamp = w.stamp /\ Digest(v) > Digest(w)

\* A stamp this device issued.
Mine(v, device) == v.stamp # Blank /\ v.stamp.device = device

----------------------------------------------------------------------------
(* The verdict.  `first` is first_arrival: a document never applied here.  *)

\* Equal stamps over two contents: somebody changed one and did not restamp it.
Clash(row, line) == Known(row) /\ line.stamp = row.stamp /\ ~Same(row, line)

\* Mutant: the same runaway line is stamped again at every reading.
IssuesOnEveryDrift(row, line, first, drifted, device) ==
    \/ drifted
    \/ ~drifted /\ ~Known(row) /\ line.stamp = Blank
    \/ ~drifted /\ Clash(row, line) /\ ~first /\ Mine(line, device)

\* Verdict::Write under a stamp of this device's clock.
Issues(row, line, first, drifted, device) ==
    \/ drifted /\ ~(Known(row) /\ Same(row, line))
    \/ ~drifted /\ ~Known(row) /\ line.stamp = Blank
    \/ ~drifted /\ Clash(row, line) /\ ~first /\ Mine(line, device)

\* Verdict::Write under the line's own stamp.
Adopts(row, line, first, drifted) ==
    /\ ~drifted
    /\ \/ ~Known(row) /\ line.stamp # Blank
       \/ Known(row) /\ Before(row.stamp, line.stamp)
       \/ Clash(row, line) /\ first

\* A clash under another device's stamp, which no clock can order.
Tied(row, line, first, drifted, device) ==
    ~drifted /\ Clash(row, line) /\ ~first /\ ~Mine(line, device)

\* Mutants: a tie goes to the file, and to the row.
OverrulesEveryTie(row, line, first, drifted, device) ==
    Tied(row, line, first, drifted, device)
OverrulesNoTie(row, line, first, drifted, device) == FALSE

\* Verdict::Write keeping the stamp both carry.
Overrules(row, line, first, drifted, device) ==
    /\ Tied(row, line, first, drifted, device)
    /\ Digest(line) > Digest(row)

\* Verdict::LocalWins
LocalWins(row, line, first, drifted, device) ==
    \/ ~drifted /\ Known(row) /\ Before(line.stamp, row.stamp)
    \/ /\ Tied(row, line, first, drifted, device)
       /\ Digest(line) <= Digest(row)

\* Verdict::RewriteFile
RewritesFile(row, line, drifted) == drifted /\ Known(row) /\ Same(row, line)

Writes(row, line, first, drifted, device) ==
    \/ Issues(row, line, first, drifted, device)
    \/ Adopts(row, line, first, drifted)
    \/ Overrules(row, line, first, drifted, device)

\* The row after the line, `fresh` being the stamp the clock issues if asked.
Merged(row, line, first, drifted, device, fresh) ==
    IF Issues(row, line, first, drifted, device) THEN [line EXCEPT !.stamp = fresh]
    ELSE IF Writes(row, line, first, drifted, device) THEN line
    ELSE row

\* needs_write_back: the line is not what the row says now.
WritesBack(row, line, first, drifted, device) ==
    \/ Issues(row, line, first, drifted, device)
    \/ LocalWins(row, line, first, drifted, device)
    \/ RewritesFile(row, line, drifted)

----------------------------------------------------------------------------
(* The log of defeats.                                                     *)

\* Mutant: only deletions and ties are logged.
RowDefeatedUnlogged(row, line, dirty, first, drifted, device) ==
    /\ Known(row)
    /\ \/ drifted /\ ~Same(row, line)
       \/ Overrules(row, line, first, drifted, device)
       \/ /\ ~drifted /\ Before(row.stamp, line.stamp)
          /\ row.stamp # Blank
          /\ row.deleted # line.deleted

\* The row is written over and the log keeps it: a runaway stamp, a tie, a
\* deletion met or reversed, or an edit no file ever carried.
RowDefeated(row, line, dirty, first, drifted, device) ==
    /\ Known(row)
    /\ \/ drifted /\ ~Same(row, line)
       \/ Overrules(row, line, first, drifted, device)
       \/ /\ ~drifted /\ Before(row.stamp, line.stamp)
          /\ row.stamp # Blank
          /\ row.deleted # line.deleted \/ (dirty /\ ~Same(row, line))

\* own_earlier_word
OwnEarlierWord(row, line, device) ==
    Before(line.stamp, row.stamp) /\ Mine(line, device)

\* The line is turned away and the log keeps it.  A runaway line where there is
\* no row is logged for the stamp it lost.
LineDefeated(row, line, first, drifted, device) ==
    \/ drifted /\ ~Known(row)
    \/ /\ LocalWins(row, line, first, drifted, device)
       /\ ~Same(row, line)
       /\ ~OwnEarlierWord(row, line, device)
=============================================================================
