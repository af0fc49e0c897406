----------------------------- MODULE WatchQueue -----------------------------
(***************************************************************************)
(* Two small calculations the sync threads obey, over ages instead of      *)
(* readings of a clock: which file the watch thread takes next, and when   *)
(* the export thread writes.  An age is counted up to the limit it is      *)
(* compared with, where it stays.                                          *)
(***************************************************************************)
EXTENDS Naturals, FiniteSets

CONSTANTS
    Paths,     \* 0 .. n: the order of the names
    Quiet,     \* how long a path has to be quiet to be read
    Idle,      \* how long the typing has to stop before an export
    Ceiling    \* and how long a change waits for that at most

ASSUME QueueAssumption ==
    /\ Paths \subseteq Nat
    /\ {Quiet, Idle, Ceiling} \subseteq Nat \ {0}

None == 1000000

Older(age, limit) == IF age = None \/ age = limit THEN age ELSE age + 1

-----------------------------------------------------------------------------
\* WatchQueue: pending, with the age of the last event, and verifying.

EmptyQueue == [pending |-> [p \in Paths |-> None], verifying |-> {}]

Saw(q, S) ==
    [pending |-> [p \in Paths |-> IF p \in S THEN 0 ELSE q.pending[p]],
     verifying |-> q.verifying \ S]

Verify(q, S) ==
    [q EXCEPT !.verifying = @ \cup {p \in S : q.pending[p] = None}]

Least(S) == CHOOSE p \in S : \A o \in S : p <= o

\* What next_in_flight may answer: reported paths first, then those to verify.
Waiting(q) ==
    LET reported == {p \in Paths : q.pending[p] # None /\ q.pending[p] >= Quiet}
    IN IF reported # {} THEN reported ELSE q.verifying

NextInFlight(q) == Least(Waiting(q))

Without(q, p) ==
    IF q.pending[p] # None THEN [q EXCEPT !.pending[p] = None]
    ELSE [q EXCEPT !.verifying = @ \ {p}]

QueueAged(q) == [q EXCEPT !.pending = [p \in Paths |-> Older(@[p], Quiet)]]

-----------------------------------------------------------------------------
\* Debounce: the age of the first change not exported, and of the last one.

Untouched == [first |-> None, last |-> 0]

Touched(b) == [first |-> IF b.first = None THEN 0 ELSE b.first, last |-> 0]

\* Mutant: only quiet is waited for.
DueWhenQuiet(b) == b.first # None /\ b.last >= Idle

\* decide: a moment of quiet, or long enough since the first change.
Due(b) == b.first # None /\ (b.last >= Idle \/ b.first >= Ceiling)

BounceAged(b) ==
    [first |-> Older(b.first, Ceiling), last |-> IF b.first = None THEN 0 ELSE Older(b.last, Idle)]
=============================================================================
