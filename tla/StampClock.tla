----------------------------- MODULE StampClock -----------------------------
(***************************************************************************)
(* One device's stamps over its whole life: the in-memory clock, the rows  *)
(* and the documents table it is rebuilt from, edits, arriving lines,      *)
(* exports and restarts, under a wall clock that may be set back.          *)
(*                                                                         *)
(* A line of a file is one arrival; a longer document is a run of arrivals *)
(* with the same clock.  The content of a row is left to Merger and        *)
(* VaultSync: here a line either says what the row says or it does not.    *)
(***************************************************************************)
EXTENDS Hlc

CONSTANTS
    Nodes,
    Self,         \* this device
    Others,       \* the devices whose lines arrive
    Arriving,     \* the readings a line of another device may carry
    MaxWall,      \* bound: the wall clock
    WallBack,     \* how far the wall clock may be set back in one step
    MaxIssued     \* bound: stamps issued

ASSUME StampClockAssumption ==
    /\ Self \in 1 .. MaxDevice
    /\ Others \subseteq (1 .. MaxDevice) \ {Self}
    /\ Arriving \subseteq Reading
    /\ \A r \in Arriving : Encodable(r)
    /\ MaxWall \in Nat
    /\ WallBack \in Nat
    /\ MaxIssued \in Nat

VARIABLES
    wall,       \* the system clock, in milliseconds
    clock,      \* Clock.state, lost at a restart
    row,        \* notes_nodes.hlc, Blank where there is no row
    applied,    \* the largest sync_documents.applied_max_hlc
    exported,   \* sync_node_exports.exported_hlc, Blank where none
    issued,     \* counts stamps issued, for the bound
    abandoned,  \* history: a restart has left the stored reading behind
    shown       \* history: the stamps of this device that a file has carried

vars == <<wall, clock, row, applied, exported, issued, abandoned, shown>>

Stored == {row[n] : n \in Nodes} \cup {applied, Blank}

ArrivingStamps ==
    {StampBy(d, r) : d \in Others, r \in Arriving} \cup shown

TypeOK ==
    /\ wall \in 0 .. MaxWall
    /\ clock \in Reading
    /\ row \in [Nodes -> Stamp]
    /\ applied \in Stamp
    /\ exported \in [Nodes -> Stamp]
    /\ issued \in 0 .. MaxIssued
    /\ abandoned \in BOOLEAN
    /\ shown \subseteq Stamp

Init ==
    /\ wall \in 0 .. MaxWall
    /\ clock = [millis |-> 0, counter |-> 0]
    /\ row = [n \in Nodes |-> Blank]
    /\ applied = Blank
    /\ exported = [n \in Nodes |-> Blank]
    /\ issued = 0
    /\ abandoned = FALSE
    /\ shown = {}

\* The environment: the wall clock moves on, or is set back by a little.
WallMoves ==
    /\ wall' \in {w \in 0 .. MaxWall : w >= wall - WallBack}
    /\ UNCHANGED <<clock, row, applied, exported, issued, abandoned, shown>>

\* A change to a row fires the stamping trigger.  The clock moves even when the
\* reading cannot be encoded; the statement then fails and the row stays.
Edit(n) ==
    LET next == NowAt(clock, wall) IN
    /\ issued < MaxIssued
    /\ clock' = next
    /\ row' = IF Encodable(next) THEN [row EXCEPT ![n] = StampBy(Self, next)] ELSE row
    /\ issued' = issued + 1
    /\ UNCHANGED <<wall, applied, exported, abandoned, shown>>

\* Mutant: a merge issues and stores without listening first.
HeardNothing(s) == clock

\* The clock after a line has been considered and before a stamp is issued.
Heard(s) == ObserveArrival(clock, s, wall)

\* The line's stamp is taken as it is: no row yet, or a newer line.
Take(n, s) ==
    /\ ~BeyondDrift(s, wall)
    /\ s # Blank
    /\ Before(row[n], s)
    /\ row' = [row EXCEPT ![n] = s]
    /\ exported' = [exported EXCEPT ![n] = Blank]
    /\ clock' = Heard(s)
    /\ UNCHANGED issued

\* A fresh stamp: a runaway stamp over other content, a line nobody stamped
\* where there is no row, or this device's own stamp over other content.
Restamp(n, s) ==
    LET next == NowAt(Heard(s), wall) IN
    /\ \/ BeyondDrift(s, wall)
       \/ s = Blank /\ row[n] = Blank
       \/ s = row[n] /\ s.device = Self
    /\ issued < MaxIssued
    /\ Encodable(next)
    /\ row' = [row EXCEPT ![n] = StampBy(Self, next)]
    /\ exported' = [exported EXCEPT ![n] = Blank]
    /\ clock' = next
    /\ issued' = issued + 1

\* The row stands: an older line, the same line again, or the same content
\* under a runaway stamp.
Stand(n, s) ==
    /\ AtMost(s, row[n]) \/ BeyondDrift(s, wall)
    /\ row[n] # Blank
    /\ clock' = Heard(s)
    /\ UNCHANGED <<row, exported, issued>>

\* The same foreign stamp over other content, and the line's digest wins: the
\* content changes, the stamp stays, and what was exported no longer counts.
Tie(n, s) ==
    /\ s = row[n]
    /\ s # Blank
    /\ s.device # Self
    /\ clock' = Heard(s)
    /\ exported' = [exported EXCEPT ![n] = Blank]
    /\ UNCHANGED <<row, issued>>

\* One line merged, and its document recorded.  record_document keeps the
\* largest stamp of the document, a drifted one included.
Arrive(n, s) ==
    /\ Take(n, s) \/ Restamp(n, s) \/ Stand(n, s) \/ Tie(n, s)
    /\ applied' = IF Before(applied, s) THEN s ELSE applied
    /\ UNCHANGED <<wall, abandoned, shown>>

\* The row's line reaches the file and is recorded as what the file says: an
\* export pass that commits (VaultSync has the one that dies before it does).
Export(n) ==
    /\ row[n] # Blank
    /\ exported' = [exported EXCEPT ![n] = row[n]]
    /\ shown' = shown \cup {s \in {row[n]} : s.device = Self}
    /\ UNCHANGED <<wall, clock, row, applied, issued, abandoned>>

\* settle_readings: a row edited back to what its file says takes back the
\* reading the file has.
PutBack(n) ==
    /\ exported[n] # Blank
    /\ row[n] # exported[n]
    /\ row' = [row EXCEPT ![n] = exported[n]]
    /\ UNCHANGED <<wall, clock, applied, exported, issued, abandoned, shown>>

\* The app stops, or dies, and the next start rebuilds the clock.
Restart ==
    /\ clock' = Reseed(Stored, wall)
    /\ abandoned' = (abandoned \/ BeyondDrift(Greatest(Stored), wall))
    /\ UNCHANGED <<wall, row, applied, exported, issued, shown>>

Next ==
    \/ WallMoves
    \/ Restart
    \/ \E n \in Nodes :
         \/ Edit(n)
         \/ Export(n)
         \/ PutBack(n)
         \/ \E s \in ArrivingStamps \cup {Blank} : Arrive(n, s)

Spec == Init /\ [][Next]_vars

----------------------------------------------------------------------------
(* Properties.                                                             *)

\* The clock stands at or above every stamp the database holds, unless a
\* restart left a runaway reading behind.  It is what makes the next edit of
\* any row beat the row: the reseed after a crash, the observe before a merge
\* and the put-back at an export all have to keep it.
Covers(s) == ~ReadingBefore(clock, s)
ClockCoversRows ==
    abandoned \/ \A n \in Nodes : Covers(row[n])

\* A stamp one of this device's files has carried is never issued again, by an
\* edit or by a merge, over any number of restarts: two contents under one stamp
\* is the one conflict nobody's clock can order.
NeverIssuedTwice ==
    [][issued' # issued /\ ~abandoned =>
          \A n \in Nodes : row'[n] # row[n] => row'[n] \notin shown]_vars

\* The clock can always issue one more stamp: a runaway reading is never
\* allowed to pin it to the ceiling of the encoding, where every later edit,
\* the delete that would remove the runaway row included, would fail.
CanIssue == Encodable(NowAt(clock, wall))
=============================================================================
