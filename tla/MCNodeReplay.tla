---------------------------- MODULE MCNodeReplay ----------------------------
(* NodeReplay with two devices and one line whose stamp is a runaway while  *)
(* the wall clock stands at 0 and ordinary once it has reached 1.           *)
EXTENDS NodeReplay

MCWritten == {[content |-> 1, deleted |-> TRUE, stamp |-> Blank]}

MCForeign ==
    {[content |-> 2, deleted |-> FALSE,
      stamp |-> [millis |-> MaxMillis, counter |-> 0, device |-> 3]]}
=============================================================================
