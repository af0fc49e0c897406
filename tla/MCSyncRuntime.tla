--------------------------- MODULE MCSyncRuntime ---------------------------
(***************************************************************************)
(* Two documents, and the situations they get into: a file that changes    *)
(* beside one that never rests, twice, under a watch that is started       *)
(* again, while its document is owed; somebody who types without a pause;  *)
(* an edit that meets an outage; a close in the middle of it.              *)
(***************************************************************************)
EXTENDS SyncRuntime

TwoPaths == {0, 1}
NewBytes == {<<1, 2>>, <<1, 3>>}

\* Changes and edits are of the document whose name comes last.
Quietly(changes, edits) ==
    [changes |-> [p \in TwoPaths |-> IF p = 1 THEN changes ELSE 0],
     edits |-> [p \in TwoPaths |-> IF p = 1 THEN edits ELSE 0],
     hot |-> {}, typing |-> {}, outages |-> 0, refusals |-> 0, restarts |-> 0, closes |-> 0]

AllSituations ==
    {[Quietly(1, 0) EXCEPT !.hot = {0}], [Quietly(1, 0) EXCEPT !.restarts = 1],
     Quietly(1, 1), [Quietly(0, 1) EXCEPT !.typing = {1}],
     [Quietly(0, 1) EXCEPT !.edits[0] = 1, !.refusals = 1],
     [Quietly(0, 1) EXCEPT !.outages = 1, !.closes = 1], [Quietly(1, 0) EXCEPT !.closes = 1]}

AnOutage == {[Quietly(0, 1) EXCEPT !.outages = 1]}
=============================================================================
