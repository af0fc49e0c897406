----------------------------- MODULE NodeReplay -----------------------------
(***************************************************************************)
(* One node on several devices, and every line any file ever carried of    *)
(* it: the lines arrive in any order, late, again and after newer ones.    *)
(* Edits, lines typed or changed by hand, runaway clocks and clashes are   *)
(* all here; the files themselves, the dirty marks and the put-back of a   *)
(* reading are VaultSync's.  Nothing here is a first arrival.              *)
(***************************************************************************)
EXTENDS Merger

CONSTANTS
    Replicas,    \* the devices
    Written,     \* what a user makes of the node, unstamped
    Foreign,     \* lines of devices outside the model, runaway ones included
    MaxWall,     \* bound: the wall clock
    MaxHand      \* bound: lines changed by hand

ASSUME ReplayAssumption ==
    /\ Replicas \subseteq 1 .. MaxDevice
    /\ Written \subseteq [content : Contents, deleted : BOOLEAN, stamp : {Blank}]
    /\ Foreign \subseteq Version
    /\ MaxWall \in Nat
    /\ MaxHand \in Nat

VARIABLES
    row,      \* the row of each device
    clock,    \* its clock
    lines,    \* every line a file has carried
    hands,    \* counts the lines changed by hand, for the bound
    told      \* history: the versions a device has written or accepted

vars == <<row, clock, lines, hands, told>>

TypeOK ==
    /\ row \in [Replicas -> Version \cup {None}]
    /\ clock \in [Replicas -> Reading]
    /\ lines \subseteq Version
    /\ hands \in 0 .. MaxHand
    /\ told \in [Replicas -> SUBSET Version]

Init ==
    /\ row = [r \in Replicas |-> None]
    /\ clock = [r \in Replicas |-> [millis |-> 0, counter |-> 0]]
    /\ lines = Foreign
    /\ hands = 0
    /\ told = [r \in Replicas |-> {}]

\* The row takes this version under the reading the clock has issued.
Stamped(r, version, next) ==
    LET v == [version EXCEPT !.stamp = StampBy(r, next)] IN
    /\ Encodable(next)
    /\ row' = [row EXCEPT ![r] = v]
    /\ clock' = [clock EXCEPT ![r] = next]
    /\ told' = [told EXCEPT ![r] = @ \cup {v}]

\* A change made in the app: text, a deletion or its restoring.
Edit(r, version, wall) ==
    /\ ~Same(version, row[r])
    /\ Stamped(r, version, NowAt(clock[r], wall))
    /\ UNCHANGED <<lines, hands>>

\* The row reaches a file.
Publish(r) ==
    /\ Known(row[r])
    /\ lines' = lines \cup {row[r]}
    /\ UNCHANGED <<row, clock, hands, told>>

\* Somebody changes a line in an editor and leaves its stamp, or types one.
HandEdit(v, content, stamp) ==
    /\ hands < MaxHand
    /\ stamp \in {v.stamp, Blank}
    /\ lines' = lines \cup {[v EXCEPT !.content = content, !.stamp = stamp]}
    /\ hands' = hands + 1
    /\ UNCHANGED <<row, clock, told>>

\* A line is merged: `apply` for one entry.  A runaway stamp is not believed,
\* so its line counts only as what the device restamps it to.
Merge(r, line, wall) ==
    LET drifted == BeyondDrift(line.stamp, wall)
        heard == ObserveArrival(clock[r], line.stamp, wall)
        next == NowAt(heard, wall)
        issues == Issues(row[r], line, FALSE, drifted, r)
        after == Merged(row[r], line, FALSE, drifted, r, StampBy(r, next))
    IN
    /\ issues => Encodable(next)
    /\ row' = [row EXCEPT ![r] = after]
    /\ clock' = [clock EXCEPT ![r] = IF issues THEN next ELSE heard]
    /\ told' = [told EXCEPT ![r] = @ \cup (IF drifted THEN {} ELSE {line})
                                     \cup (IF issues THEN {after} ELSE {})]
    /\ UNCHANGED <<lines, hands>>

Next ==
    \/ \E r \in Replicas, wall \in 0 .. MaxWall :
         \/ \E v \in Written : Edit(r, v, wall)
         \/ \E line \in lines : Merge(r, line, wall)
    \/ \E r \in Replicas : Publish(r)
    \/ \E v \in lines, c \in Contents : \E s \in {v.stamp, Blank} : HandEdit(v, c, s)

Spec == Init /\ [][Next]_vars

----------------------------------------------------------------------------
(* Properties.                                                             *)

\* The row is the greatest version the device has accepted: no order, delay or
\* repetition of the files can leave an older one standing.
RowIsGreatest ==
    \A r \in Replicas :
        /\ row[r] \in told[r] \cup {None}
        /\ \A v \in told[r] : ~Beats(v, row[r])

\* sync-spec section 8, rule 2: devices told the same things say the same,
\* ties by hand and runaway stamps included.
SameToldSameRow ==
    \A r, q \in Replicas : told[r] = told[q] => row[r] = row[q]

\* A line merged again changes nothing at all, a runaway one included: a
\* replay that issued a stamp each time would never let the vault settle.
ReplaySettles ==
    \A r \in Replicas, line \in lines, wall \in 0 .. MaxWall :
        LET drifted == BeyondDrift(line.stamp, wall)
            once == Merged(row[r], line, FALSE, drifted, r,
                           StampBy(r, NowAt(ObserveArrival(clock[r], line.stamp, wall), wall)))
        IN ~Issues(once, line, FALSE, drifted, r)
           /\ Merged(once, line, FALSE, drifted, r, Blank) = once

\* The clock stands at or above all a device has accepted, which is what makes
\* an edit beat it.
ClockCoversTold ==
    \A r \in Replicas : \A v \in told[r] : ~ReadingBefore(clock[r], ReadingOf(v.stamp))

Register == INSTANCE LwwRegister WITH value <- row

\* Every device is a last-writer-wins register over what it has accepted.
IsRegister == Register!Spec
=============================================================================
