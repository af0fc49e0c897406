---------------------------- MODULE MCStampClock ----------------------------
(* StampClock on two rows, two devices and a three-millisecond wall clock.  *)
EXTENDS StampClock, TLC

CONSTANTS n1, n2

MCNodes == {n1, n2}

\* One ordinary reading, one within the drift window of a slow wall clock,
\* and one at the ceiling of the encoding.
MCArriving == {[millis |-> 1, counter |-> 1],
               [millis |-> 3, counter |-> 0],
               [millis |-> MaxMillis, counter |-> 0]}

MCOthers == {2}

NodeSymmetry == Permutations(MCNodes)
=============================================================================
