-------------------------------- MODULE Hlc --------------------------------
(***************************************************************************)
(* Stamps and readings of crates/notes-sync/src/hlc.rs.                    *)
(*                                                                         *)
(* A reading is the pair (millis, counter) the clock holds; a stamp is a   *)
(* reading with the device that issued it.  The code stores a stamp as a   *)
(* fixed-width base-36 string and compares strings; the string order is    *)
(* the lexicographic order on (millis, counter, device), which is what is  *)
(* written here.  Devices are natural numbers, in the order of their hex   *)
(* names.  The empty string, "no stamp", sorts below every stamp.          *)
(***************************************************************************)
EXTENDS Integers

CONSTANTS
    MaxCounter,   \* 36^2 - 1 in the code: the last counter inside one millisecond
    MaxMillis,    \* 36^9 - 1 in the code: the encoding's ceiling
    MaxDevice,    \* 16^8 - 1 in the code: a device is eight hex digits
    MaxDrift      \* 24 hours in milliseconds: how far ahead is still believed

ASSUME HlcAssumption ==
    /\ MaxCounter \in Nat
    /\ MaxMillis \in Nat
    /\ MaxDevice \in Nat
    /\ MaxDrift \in Nat

\* What a ClockState can hold: the millisecond may sit one past the ceiling,
\* after an issue that failed.
Reading == [millis : Nat, counter : 0 .. MaxCounter]

\* Hlc::new: what the fixed width can carry.
Stamp == [millis : 0 .. MaxMillis, counter : 0 .. MaxCounter, device : 0 .. MaxDevice]

\* The empty string: a row or a line without a stamp.
Blank == [millis |-> 0, counter |-> 0, device |-> 0]

\* The order `observe` compares readings in.
ReadingBefore(a, b) ==
    \/ a.millis < b.millis
    \/ a.millis = b.millis /\ a.counter < b.counter

\* The string order of two encoded stamps.
Before(s, t) ==
    \/ ReadingBefore(s, t)
    \/ s.millis = t.millis /\ s.counter = t.counter /\ s.device < t.device

AtMost(s, t) == s = t \/ Before(s, t)

ReadingOf(s) == [millis |-> s.millis, counter |-> s.counter]

StampBy(device, r) ==
    [millis |-> r.millis, counter |-> r.counter, device |-> device]

----------------------------------------------------------------------------
(* The clock.                                                              *)

\* Mutant: the counter runs on past what its two digits hold.
NowAtNoCarry(clock, wall) ==
    IF wall > clock.millis THEN [millis |-> wall, counter |-> 0]
    ELSE [clock EXCEPT !.counter = @ + 1]

\* Clock::now_at: the wall clock when it is ahead, else the next counter, and
\* a full counter carries into the millisecond.
NowAt(clock, wall) ==
    IF wall > clock.millis THEN [millis |-> wall, counter |-> 0]
    ELSE IF clock.counter = MaxCounter
         THEN [millis |-> clock.millis + 1, counter |-> 0]
         ELSE [clock EXCEPT !.counter = @ + 1]

\* Hlc::new refuses a millisecond past the ceiling; the clock has moved by then.
Encodable(r) == r.millis <= MaxMillis

\* Clock::observe
Observe(clock, s) ==
    IF ReadingBefore(clock, s) THEN ReadingOf(s) ELSE clock

\* Mutant: every reading is believed.
BeyondDriftNever(s, wall) == FALSE

\* Clock::is_beyond_drift
BeyondDrift(s, wall) == s.millis > wall + MaxDrift

\* What `apply` does with a line's stamp before it issues anything: a drifted
\* reading is left behind.
ObserveArrival(clock, s, wall) ==
    IF s = Blank \/ BeyondDrift(s, wall) THEN clock ELSE Observe(clock, s)

Greatest(stored) == CHOOSE s \in stored : \A t \in stored : AtMost(t, s)

\* Mutant: a restarted clock knows nothing of the rows.
ReseedUnseeded(stored, wall) == [millis |-> 0, counter |-> 0]

\* reseed: the largest stored stamp, or nothing at all when that one has
\* drifted.  `stored` is never empty here: it holds Blank when nothing is.
Reseed(stored, wall) ==
    ObserveArrival([millis |-> 0, counter |-> 0], Greatest(stored), wall)
=============================================================================
