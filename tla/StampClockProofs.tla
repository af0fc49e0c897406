-------------------------- MODULE StampClockProofs --------------------------
(***************************************************************************)
(* The clock of one device never falls behind its rows, never issues a     *)
(* stamp its files have carried and is never pinned to the ceiling of the  *)
(* encoding, for any rows, any other devices, any readings that arrive and *)
(* any wall clock.                                                         *)
(***************************************************************************)
EXTENDS StampClock, HlcProofs

\* Every stored or arriving stamp is one the encoding can carry.
LEMMA StampsAreStamps ==
    ASSUME TypeOK
    PROVE  /\ Stored \subseteq Stamp
           /\ ArrivingStamps \cup {Blank} \subseteq Stamp
           /\ wall \in Nat
<1> USE HlcAssumption, StampClockAssumption
<1>1. wall \in Nat
  BY DEF TypeOK
<1>2. Stored \subseteq Stamp
  BY BlankLeast DEF TypeOK, Stored
<1>3. ASSUME NEW d \in Others, NEW r \in Arriving PROVE StampBy(d, r) \in Stamp
  <2>1. r \in Reading /\ r.millis <= MaxMillis
    BY DEF Encodable
  <2>2. d \in 0 .. MaxDevice
    OBVIOUS
  <2> QED BY <2>1, <2>2 DEF StampBy, Stamp, Reading
<1>4. ArrivingStamps \cup {Blank} \subseteq Stamp
  <2>1. {StampBy(d, r) : d \in Others, r \in Arriving} \subseteq Stamp
    BY <1>3
  <2>2. shown \subseteq Stamp
    BY DEF TypeOK
  <2> QED BY <2>1, <2>2, BlankLeast DEF ArrivingStamps
<1> QED BY <1>1, <1>2, <1>4

\* A reading the encoding can carry makes a stamp of this device.
LEMMA OwnStamp ==
    ASSUME NEW r \in Reading, Encodable(r)
    PROVE  StampBy(Self, r) \in Stamp
<1>1. Self \in 0 .. MaxDevice
  BY HlcAssumption, StampClockAssumption
<1> QED BY <1>1, HlcAssumption DEF StampBy, Stamp, Reading, Encodable

\* The clock as an arriving line leaves it.
LEMMA HeardCovers ==
    ASSUME TypeOK, NEW s \in ArrivingStamps \cup {Blank}
    PROVE  /\ Heard(s) \in Reading
           /\ ~ReadingBefore(Heard(s), clock)
           /\ ~BeyondDrift(s, wall) => ~ReadingBefore(Heard(s), s)
           /\ NowAt(Heard(s), wall) \in Reading
           /\ ReadingBefore(Heard(s), NowAt(Heard(s), wall))
<1>1. s \in Stamp /\ clock \in Reading /\ wall \in Nat
  BY StampsAreStamps DEF TypeOK
<1>2. /\ Heard(s) \in Reading
      /\ ~ReadingBefore(Heard(s), clock)
      /\ ~BeyondDrift(s, wall) => ~ReadingBefore(Heard(s), s)
  BY <1>1, ArrivalCovers DEF Heard
<1> QED BY <1>1, <1>2, NowAtAdvances

----------------------------------------------------------------------------
(* Types.                                                                  *)

\* Types hold at the start.
LEMMA TypeCorrectAtFirst == Init => TypeOK
<1> USE HlcAssumption, StampClockAssumption
<1> SUFFICES ASSUME Init PROVE TypeOK
  OBVIOUS
<1>1. Blank \in Stamp
  BY BlankLeast
<1>2. clock \in Reading
  BY DEF Init, Reading
<1>3. row \in [Nodes -> Stamp] /\ exported \in [Nodes -> Stamp] /\ applied \in Stamp
  BY <1>1 DEF Init
<1>4. wall \in 0 .. MaxWall /\ issued \in 0 .. MaxIssued
  BY DEF Init
<1>5. abandoned \in BOOLEAN /\ shown \subseteq Stamp
  BY DEF Init
<1> QED BY <1>2, <1>3, <1>4, <1>5 DEF TypeOK

\* The clock always holds a reading and every stamp stored can be encoded: an
\* issue past the ceiling never reaches a row.
THEOREM TypeCorrect == Spec => []TypeOK
<1> USE HlcAssumption, StampClockAssumption
<1>1. Init => TypeOK
  BY TypeCorrectAtFirst
<1>2. TypeOK /\ [Next]_vars => TypeOK'
  <2> SUFFICES ASSUME TypeOK, [Next]_vars PROVE TypeOK'
    OBVIOUS
  <2>0. /\ clock \in Reading /\ wall \in Nat /\ row \in [Nodes -> Stamp]
        /\ exported \in [Nodes -> Stamp] /\ Blank \in Stamp
    BY StampsAreStamps, BlankLeast DEF TypeOK
  <2>1. CASE WallMoves
    BY <2>1 DEF WallMoves, TypeOK
  <2>2. CASE Restart
    <3>1. Greatest(Stored) \in Stamp
      BY StampsAreStamps, GreatestExists DEF Stored
    <3>2. [millis |-> 0, counter |-> 0] \in Reading
      BY DEF Reading
    <3>3. clock' \in Reading
      BY <2>0, <2>2, <3>1, <3>2, ArrivalCovers DEF Restart, Reseed
    <3>4. abandoned' \in BOOLEAN
      BY <2>2 DEF Restart, TypeOK, BeyondDrift
    <3> QED BY <2>2, <3>3, <3>4 DEF Restart, TypeOK
  <2>3. ASSUME NEW n \in Nodes, Edit(n) PROVE TypeOK'
    <3>1. NowAt(clock, wall) \in Reading
      BY <2>0, NowAtAdvances
    <3>2. row' \in [Nodes -> Stamp]
      BY <2>0, <2>3, <3>1, OwnStamp DEF Edit
    <3>3. clock' \in Reading /\ issued' \in 0 .. MaxIssued
      BY <2>3, <3>1 DEF Edit, TypeOK
    <3> QED BY <2>3, <3>2, <3>3 DEF Edit, TypeOK
  <2>4. ASSUME NEW n \in Nodes, Export(n) PROVE TypeOK'
    BY <2>0, <2>4 DEF Export, TypeOK
  <2>5. ASSUME NEW n \in Nodes, PutBack(n) PROVE TypeOK'
    BY <2>0, <2>5 DEF PutBack, TypeOK
  <2>6. ASSUME NEW n \in Nodes, NEW s \in ArrivingStamps \cup {Blank}, Arrive(n, s)
        PROVE TypeOK'
    <3>0. /\ s \in Stamp /\ Heard(s) \in Reading /\ NowAt(Heard(s), wall) \in Reading
      BY StampsAreStamps, HeardCovers
    <3>1. /\ row' \in [Nodes -> Stamp] /\ exported' \in [Nodes -> Stamp]
          /\ clock' \in Reading /\ issued' \in 0 .. MaxIssued
      <4>1. CASE Take(n, s)
        BY <2>0, <3>0, <4>1 DEF Take, TypeOK
      <4>2. CASE Restamp(n, s)
        <5>1. StampBy(Self, NowAt(Heard(s), wall)) \in Stamp
          BY <3>0, <4>2, OwnStamp DEF Restamp
        <5> QED BY <2>0, <3>0, <4>2, <5>1 DEF Restamp, TypeOK
      <4>3. CASE Stand(n, s)
        BY <2>0, <3>0, <4>3 DEF Stand, TypeOK
      <4>4. CASE Tie(n, s)
        BY <2>0, <3>0, <4>4 DEF Tie, TypeOK
      <4> QED BY <2>6, <4>1, <4>2, <4>3, <4>4 DEF Arrive
    <3>2. applied' \in Stamp
      BY <2>6, <3>0 DEF Arrive, TypeOK
    <3> QED BY <2>6, <3>1, <3>2 DEF Arrive, TypeOK
  <2>7. CASE UNCHANGED vars
    BY <2>7 DEF vars, TypeOK
  <2> QED BY <2>1, <2>2, <2>3, <2>4, <2>5, <2>6, <2>7 DEF Next
<1> QED BY <1>1, <1>2, PTL DEF Spec

----------------------------------------------------------------------------
(* The clock covers the rows.                                              *)

\* What a file of this device last said of a node: an edit taken back returns
\* to it, so it must not outrun the row.
LastSaid(n) == IF exported[n] = Blank THEN row[n] ELSE exported[n]

\* The invariant is not inductive alone: a put-back gives a row the exported
\* reading, so that one has to be covered too, and a stamp shown long ago has to
\* be at most what the file says now.
CoverInv ==
    /\ \A n \in Nodes : Covers(row[n]) /\ AtMost(exported[n], row[n])
    /\ \A s \in shown : \E n \in Nodes : AtMost(s, LastSaid(n))

CoverIInv == TypeOK /\ (abandoned \/ CoverInv)

\* A clock at or above a stamp is at or above what is at most that stamp.
LEMMA CoversBelow ==
    ASSUME NEW c \in Reading, NEW s \in Stamp, NEW t \in Stamp,
           AtMost(s, t), ~ReadingBefore(c, t)
    PROVE  ~ReadingBefore(c, s)
  BY HlcAssumption DEF AtMost, Before, ReadingBefore, Reading, Stamp

\* A later clock's stamp is above every stamp the earlier one covers.
LEMMA IssuedAbove ==
    ASSUME NEW c \in Reading, NEW e \in Reading, NEW s \in Stamp, NEW d \in 0 .. MaxDevice,
           ~ReadingBefore(c, s), ReadingBefore(c, e)
    PROVE  Before(s, StampBy(d, e))
  BY HlcAssumption DEF StampBy, Before, ReadingBefore, Reading, Stamp

\* One row takes a stamp above its own, and what was said of it is forgotten.
LEMMA RaisedRow ==
    ASSUME TypeOK, CoverInv, NEW n \in Nodes, NEW t \in Stamp,
           AtMost(row[n], t),
           row' = [row EXCEPT ![n] = t],
           exported' = [exported EXCEPT ![n] = Blank] \/ exported' = exported,
           shown' = shown,
           clock' \in Reading, ~ReadingBefore(clock', clock), ~ReadingBefore(clock', t)
    PROVE  CoverInv'
<1> USE HlcAssumption, StampClockAssumption
<1>0. /\ clock \in Reading /\ row \in [Nodes -> Stamp] /\ exported \in [Nodes -> Stamp]
      /\ shown \subseteq Stamp /\ Blank \in Stamp
  BY BlankLeast DEF TypeOK
<1>1. ASSUME NEW m \in Nodes PROVE ~ReadingBefore(clock', row'[m]) /\ AtMost(exported'[m], row'[m])
  <2>1. ~ReadingBefore(clock, row[m]) /\ AtMost(exported[m], row[m])
    BY DEF CoverInv, Covers
  <2>2. CASE m = n
    <3>1. row'[m] = t /\ exported'[m] \in {Blank, exported[n]}
      BY <1>0, <2>2
    <3>2. AtMost(exported[n], t)
      BY <1>0, <2>1, <2>2, AtMostTransitive
    <3> QED BY <3>1, <3>2, BlankLeast
  <2>3. CASE m # n
    <3>1. row'[m] = row[m] /\ exported'[m] = exported[m]
      BY <1>0, <2>3
    <3>2. ~ReadingBefore(clock', row[m])
      BY <1>0, <2>1, CoverageKept
    <3> QED BY <2>1, <3>1, <3>2
  <2> QED BY <2>2, <2>3
<1>2. ASSUME NEW s \in shown PROVE \E m \in Nodes : AtMost(s, LastSaid(m)')
  <2>1. PICK m \in Nodes : AtMost(s, LastSaid(m))
    BY DEF CoverInv
  <2>2. CASE m # n
    BY <1>0, <2>1, <2>2 DEF LastSaid
  <2>3. CASE m = n
    <3>1. AtMost(s, t)
      <4>1. AtMost(LastSaid(n), row[n])
        BY DEF CoverInv, LastSaid, AtMost
      <4>2. AtMost(s, row[n])
        BY <1>0, <2>1, <2>3, <4>1, AtMostTransitive DEF LastSaid
      <4> QED BY <1>0, <4>2, AtMostTransitive
    <3>2. LastSaid(n)' \in {t, exported[n]}
      BY <1>0 DEF LastSaid
    <3>3. LastSaid(n)' = exported[n] => exported[n] = LastSaid(n) \/ LastSaid(n)' = t
      BY <1>0 DEF LastSaid
    <3> QED BY <2>1, <2>3, <3>1, <3>2, <3>3
  <2> QED BY <2>2, <2>3
<1> QED BY <1>1, <1>2 DEF CoverInv, Covers

\* A believed greatest reading covers every row when the clock starts again.
LEMMA RestartCovers ==
    ASSUME TypeOK, Restart, ~abandoned'
    PROVE  \A n \in Nodes : ~ReadingBefore(clock', row[n])
<1> DEFINE g == Greatest(Stored)
           zero == [millis |-> 0, counter |-> 0]
<1>1. g \in Stamp /\ (\A t \in Stored : AtMost(t, g)) /\ Stored \subseteq Stamp
  BY StampsAreStamps, GreatestExists DEF Stored
<1>2. ~BeyondDrift(g, wall)
  BY DEF Restart
<1>3. zero \in Reading /\ wall \in Nat
  BY HlcAssumption, StampsAreStamps DEF Reading
<1>4. clock' = ObserveArrival(zero, g, wall)
  BY DEF Restart, Reseed
<1>5. clock' \in Reading /\ ~ReadingBefore(clock', g)
  <2> HIDE DEF g, zero
  <2> QED BY <1>1, <1>2, <1>3, <1>4, ArrivalCovers
<1>6. ASSUME NEW n \in Nodes PROVE ~ReadingBefore(clock', row[n])
  <2>1. row[n] \in Stored
    BY DEF Stored
  <2> HIDE DEF g
  <2> QED BY <1>1, <1>5, <2>1, CoversBelow
<1> QED BY <1>6

\* The invariant is kept by every step.
LEMMA CoverStep == CoverIInv /\ [Next]_vars /\ TypeOK' => CoverIInv'
<1> USE HlcAssumption, StampClockAssumption
<1> SUFFICES ASSUME TypeOK, abandoned \/ CoverInv, [Next]_vars, TypeOK', ~abandoned'
             PROVE  CoverInv'
  BY DEF CoverIInv
<1>0. /\ clock \in Reading /\ wall \in Nat /\ row \in [Nodes -> Stamp]
      /\ exported \in [Nodes -> Stamp] /\ Blank \in Stamp /\ shown \subseteq Stamp
      /\ clock' \in Reading
  BY StampsAreStamps, BlankLeast DEF TypeOK
<1>a. ~abandoned
  BY DEF Next, vars, WallMoves, Restart, Edit, Export, PutBack, Arrive
<1>b. CoverInv
  BY <1>a
<1>c. \A n \in Nodes : ~ReadingBefore(clock, row[n]) /\ AtMost(exported[n], row[n])
  BY <1>b DEF CoverInv, Covers
<1>1. CASE WallMoves \/ UNCHANGED vars
  BY <1>b, <1>1 DEF WallMoves, vars, CoverInv, Covers, LastSaid
<1>2. CASE Restart
  BY <1>b, <1>2, RestartCovers DEF Restart, CoverInv, Covers, LastSaid
<1>3. ASSUME NEW n \in Nodes, Edit(n) PROVE CoverInv'
  <2> DEFINE next == NowAt(clock, wall)
             t == StampBy(Self, next)
  <2>1. next \in Reading /\ ReadingBefore(clock, next)
    BY <1>0, NowAtAdvances
  <2>2. ~ReadingBefore(next, clock) /\ ~ReadingBefore(next, t)
    BY <1>0, <2>1 DEF ReadingBefore, Reading, StampBy
  <2>3. CASE Encodable(next)
    <3>1. t \in Stamp
      BY <2>1, <2>3, OwnStamp
    <3>2. AtMost(row[n], t)
      <4>1. row[n] \in Stamp /\ Self \in 0 .. MaxDevice
        BY <1>0
      <4> HIDE DEF next
      <4> QED BY <1>0, <1>c, <2>1, <4>1, IssuedAbove DEF AtMost
    <3>3. /\ row' = [row EXCEPT ![n] = t] /\ exported' = exported /\ shown' = shown
          /\ clock' = next
      BY <1>3, <2>3 DEF Edit
    <3> HIDE DEF next, t
    <3> QED BY <1>0, <1>b, <2>1, <2>2, <3>1, <3>2, <3>3, RaisedRow
  <2>4. CASE ~Encodable(next)
    <3>1. row' = row /\ exported' = exported /\ shown' = shown /\ clock' = next
      BY <1>3, <2>4 DEF Edit
    <3>2. \A m \in Nodes : ~ReadingBefore(clock', row[m])
      BY <1>0, <1>c, <2>1, <2>2, <3>1, CoverageKept
    <3> QED BY <1>b, <3>1, <3>2 DEF CoverInv, Covers, LastSaid
  <2> QED BY <2>3, <2>4
<1>4. ASSUME NEW n \in Nodes, Export(n) PROVE CoverInv'
  <2>1. /\ row' = row /\ clock' = clock
        /\ exported' = [exported EXCEPT ![n] = row[n]]
        /\ shown' \subseteq shown \cup {row[n]} /\ row[n] # Blank
    BY <1>4 DEF Export
  <2>2. \A m \in Nodes : ~ReadingBefore(clock', row'[m]) /\ AtMost(exported'[m], row'[m])
    BY <1>0, <1>c, <2>1 DEF AtMost
  <2>3. LastSaid(n)' = row[n] /\ \A m \in Nodes : m # n => LastSaid(m)' = LastSaid(m)
    BY <1>0, <2>1 DEF LastSaid
  <2>4. AtMost(LastSaid(n), row[n]) /\ LastSaid(n) \in Stamp /\ row[n] \in Stamp
    BY <1>0, <1>c DEF LastSaid, AtMost
  <2>5. ASSUME NEW s \in shown' PROVE \E m \in Nodes : AtMost(s, LastSaid(m)')
    <3>1. CASE s = row[n]
      BY <2>3, <3>1 DEF AtMost
    <3>2. CASE s \in shown
      <4>1. PICK m \in Nodes : AtMost(s, LastSaid(m))
        BY <1>b, <3>2 DEF CoverInv
      <4>2. CASE m # n
        BY <2>3, <4>1, <4>2
      <4>3. CASE m = n
        BY <1>0, <2>3, <2>4, <3>2, <4>1, <4>3, AtMostTransitive
      <4> QED BY <4>2, <4>3
    <3> QED BY <2>1, <3>1, <3>2
  <2> QED BY <2>2, <2>5 DEF CoverInv, Covers
<1>5. ASSUME NEW n \in Nodes, PutBack(n) PROVE CoverInv'
  <2>1. /\ row' = [row EXCEPT ![n] = exported[n]] /\ exported' = exported
        /\ shown' = shown /\ clock' = clock /\ exported[n] # Blank
    BY <1>5 DEF PutBack
  <2>2. ~ReadingBefore(clock, exported[n])
    BY <1>0, <1>c, CoversBelow
  <2>3. \A m \in Nodes : ~ReadingBefore(clock', row'[m]) /\ AtMost(exported'[m], row'[m])
    BY <1>0, <1>c, <2>1, <2>2 DEF AtMost
  <2>4. \A m \in Nodes : LastSaid(m)' = LastSaid(m)
    BY <1>0, <2>1 DEF LastSaid
  <2> QED BY <1>b, <2>1, <2>3, <2>4 DEF CoverInv, Covers
<1>6. ASSUME NEW n \in Nodes, NEW s \in ArrivingStamps \cup {Blank}, Arrive(n, s)
      PROVE CoverInv'
  <2>0. /\ s \in Stamp /\ shown' = shown
        /\ Heard(s) \in Reading /\ ~ReadingBefore(Heard(s), clock)
        /\ ~BeyondDrift(s, wall) => ~ReadingBefore(Heard(s), s)
    BY <1>6, StampsAreStamps, HeardCovers DEF Arrive
  <2>1. CASE Take(n, s)
    BY <1>0, <1>b, <2>0, <2>1, RaisedRow DEF Take, AtMost
  <2>2. CASE Restamp(n, s)
    <3> DEFINE next == NowAt(Heard(s), wall)
               t == StampBy(Self, next)
    <3>1. next \in Reading /\ ReadingBefore(Heard(s), next)
      BY <2>0, HeardCovers
    <3>2. ~ReadingBefore(next, clock) /\ ~ReadingBefore(next, t)
      BY <1>0, <2>0, <3>1 DEF ReadingBefore, Reading, StampBy
    <3>3. t \in Stamp
      BY <2>2, <3>1, OwnStamp DEF Restamp
    <3>4. AtMost(row[n], t)
      <4>1. ~ReadingBefore(Heard(s), row[n])
        BY <1>0, <1>c, <2>0, CoverageKept
      <4>2. row[n] \in Stamp /\ Self \in 0 .. MaxDevice
        BY <1>0
      <4> HIDE DEF next
      <4> QED BY <2>0, <3>1, <4>1, <4>2, IssuedAbove DEF AtMost
    <3>5. /\ row' = [row EXCEPT ![n] = t] /\ clock' = next
          /\ exported' = [exported EXCEPT ![n] = Blank]
      BY <2>2 DEF Restamp
    <3> HIDE DEF next, t
    <3> QED BY <1>0, <1>b, <2>0, <3>1, <3>2, <3>3, <3>4, <3>5, RaisedRow
  <2>3. CASE Stand(n, s) \/ Tie(n, s)
    <3>1. row' = [row EXCEPT ![n] = row[n]] /\ clock' = Heard(s)
      BY <1>0, <2>3 DEF Stand, Tie
    <3>2. exported' = exported \/ exported' = [exported EXCEPT ![n] = Blank]
      BY <2>3 DEF Stand, Tie
    <3>3. ~ReadingBefore(Heard(s), row[n]) /\ AtMost(row[n], row[n]) /\ row[n] \in Stamp
      BY <1>0, <1>c, <2>0, CoverageKept DEF AtMost
    <3> QED BY <1>0, <1>b, <2>0, <3>1, <3>2, <3>3, RaisedRow
  <2> QED BY <1>6, <2>1, <2>2, <2>3 DEF Arrive
<1> QED BY <1>1, <1>2, <1>3, <1>4, <1>5, <1>6 DEF Next

\* The two together are an invariant of the specification.
LEMMA CoverInvariant == Spec => []CoverIInv
<1>1. Init => CoverIInv
  <2>1. Init => TypeOK
    BY TypeCorrectAtFirst
  <2>2. Init => CoverInv
    BY BlankLeast DEF Init, CoverInv, Covers, ReadingBefore, Blank, AtMost
  <2> QED BY <2>1, <2>2 DEF CoverIInv
<1>2. CoverIInv /\ [Next]_vars /\ TypeOK' => CoverIInv'
  BY CoverStep
<1> QED BY <1>1, <1>2, TypeCorrect, PTL DEF Spec

\* However often the app is restarted, whatever arrives and wherever the wall
\* clock is set, the clock stands at or above every row: the next edit of a row
\* beats what the row says.
THEOREM ClockAlwaysCoversRows == Spec => []ClockCoversRows
<1>1. CoverIInv => ClockCoversRows
  BY DEF CoverIInv, CoverInv, ClockCoversRows
<1> QED BY <1>1, CoverInvariant, PTL

\* No stamp a file of this device has carried is ever issued for anything else.
THEOREM StampsIssuedOnce == Spec => NeverIssuedTwice
<1> USE HlcAssumption, StampClockAssumption
<1>1. CoverIInv /\ [Next]_vars =>
        [issued' # issued /\ ~abandoned =>
           \A n \in Nodes : row'[n] # row[n] => row'[n] \notin shown]_vars
  <2> SUFFICES ASSUME TypeOK, CoverInv, Next, issued' # issued,
                      NEW n \in Nodes, row'[n] # row[n], row'[n] \in shown
               PROVE  FALSE
    BY DEF CoverIInv
  <2>0. /\ clock \in Reading /\ wall \in Nat /\ row \in [Nodes -> Stamp]
        /\ exported \in [Nodes -> Stamp] /\ shown \subseteq Stamp /\ issued \in Nat
        /\ Self \in 0 .. MaxDevice
    BY StampsAreStamps DEF TypeOK
  <2>1. PICK c \in Reading : /\ ~ReadingBefore(c, clock)
                             /\ NowAt(c, wall) \in Reading
                             /\ ReadingBefore(c, NowAt(c, wall))
                             /\ row'[n] = StampBy(Self, NowAt(c, wall))
    <3>1. CASE \E m \in Nodes : Edit(m)
      <4>1. row'[n] = StampBy(Self, NowAt(clock, wall))
        BY <2>0, <3>1 DEF Edit
      <4>2. ~ReadingBefore(clock, clock)
        BY <2>0 DEF ReadingBefore, Reading
      <4> QED BY <2>0, <4>1, <4>2, NowAtAdvances
    <3>2. CASE \E m \in Nodes, s \in ArrivingStamps \cup {Blank} : Arrive(m, s)
      <4>1. PICK m \in Nodes, s \in ArrivingStamps \cup {Blank} : Arrive(m, s)
        BY <3>2
      <4>2. Restamp(m, s)
        BY <4>1 DEF Arrive, Take, Stand, Tie
      <4>3. row'[n] = StampBy(Self, NowAt(Heard(s), wall))
        BY <2>0, <4>2 DEF Restamp
      <4> QED BY <4>3, HeardCovers
    <3>3. ~WallMoves /\ ~Restart /\ \A m \in Nodes : ~Export(m) /\ ~PutBack(m)
      BY DEF WallMoves, Restart, Export, PutBack
    <3> QED BY <3>1, <3>2, <3>3 DEF Next
  <2>2. PICK m \in Nodes : AtMost(row'[n], LastSaid(m))
    BY DEF CoverInv
  <2>3. LastSaid(m) \in Stamp /\ row[m] \in Stamp /\ AtMost(LastSaid(m), row[m])
    BY <2>0 DEF CoverInv, LastSaid, AtMost
  <2>4. ~ReadingBefore(clock, row[m])
    BY DEF CoverInv, Covers
  <2>5. ~ReadingBefore(c, LastSaid(m))
    BY <2>0, <2>1, <2>3, <2>4, CoverageKept, CoversBelow
  <2>6. Before(LastSaid(m), row'[n])
    BY <2>0, <2>1, <2>3, <2>5, IssuedAbove
  <2>7. row'[n] \in Stamp
    BY <2>0
  <2> QED BY <2>2, <2>3, <2>6, <2>7, BeforeTransitive, BeforeIrreflexive DEF AtMost
<1> QED BY <1>1, CoverInvariant, PTL DEF Spec, NeverIssuedTwice

----------------------------------------------------------------------------
(* Room to issue.                                                          *)

\* A reading is only ever as late as the wall clock, the drift that is still
\* believed and the stamps issued can make it.
Reach == MaxWall + MaxDrift + issued

IssueIInv == TypeOK /\ clock.millis <= Reach

\* How far the clock moves: an issue by a millisecond at most past the wall or
\* itself, a line to where it is still believed.
LEMMA ClockReach ==
    ASSUME NEW c \in Reading, NEW s \in Stamp, NEW w \in 0 .. MaxWall
    PROVE  /\ NowAt(c, w).millis <= c.millis + 1 \/ NowAt(c, w).millis <= MaxWall
           /\ \/ ObserveArrival(c, s, w) = c
              \/ ObserveArrival(c, s, w).millis <= MaxWall + MaxDrift
BY HlcAssumption, StampClockAssumption
   DEF NowAt, ObserveArrival, Observe, ReadingOf, BeyondDrift, Reading, Stamp

\* No line and no restart takes the clock further than the wall clock and the
\* drift allow; only issuing does, a millisecond a stamp at most.
LEMMA IssueStep == IssueIInv /\ [Next]_vars /\ TypeOK' => IssueIInv'
<1> USE HlcAssumption, StampClockAssumption
<1> SUFFICES ASSUME IssueIInv, [Next]_vars, TypeOK' PROVE clock'.millis <= Reach'
  BY DEF IssueIInv
<1>1. /\ clock \in Reading /\ clock' \in Reading /\ wall \in 0 .. MaxWall
      /\ issued \in Nat /\ issued' \in Nat /\ clock.millis <= MaxWall + MaxDrift + issued
  BY DEF IssueIInv, TypeOK, Reach
<1>2. TypeOK
  BY DEF IssueIInv
<1>3. CASE clock' = clock /\ issued' = issued
  BY <1>1, <1>3 DEF Reach
<1>4. CASE Restart
  <2>1. Greatest(Stored) \in Stamp
    BY <1>2, StampsAreStamps, GreatestExists DEF Stored
  <2> DEFINE zero == [millis |-> 0, counter |-> 0]
  <2>2. zero \in Reading /\ zero.millis = 0
    BY DEF Reading
  <2> HIDE DEF zero
  <2>3. clock' = ObserveArrival(zero, Greatest(Stored), wall) /\ issued' = issued
    BY <1>4 DEF Restart, Reseed, zero
  <2>4. clock' = zero \/ clock'.millis <= MaxWall + MaxDrift
    BY <1>1, <2>1, <2>2, <2>3, ClockReach
  <2>5. clock'.millis <= MaxWall + MaxDrift
    BY <2>2, <2>4
  <2>6. clock'.millis \in Nat
    BY <1>1 DEF Reading
  <2>7. Reach' = MaxWall + MaxDrift + issued
    BY <2>3 DEF Reach
  <2>8. QED
    BY <1>1, <2>5, <2>6, <2>7
<1>5. ASSUME NEW n \in Nodes, Edit(n) PROVE clock'.millis <= Reach'
  <2>1. clock' = NowAt(clock, wall) /\ issued' = issued + 1
    BY <1>5 DEF Edit
  <2>2. clock'.millis <= clock.millis + 1 \/ clock'.millis <= MaxWall
    BY <1>1, <2>1, BlankLeast, ClockReach
  <2>3. clock'.millis \in Nat /\ clock.millis \in Nat
    BY <1>1 DEF Reading
  <2>4. QED
    BY <1>1, <2>1, <2>2, <2>3 DEF Reach
<1>6. ASSUME NEW n \in Nodes, NEW s \in ArrivingStamps \cup {Blank}, Arrive(n, s)
      PROVE clock'.millis <= Reach'
  <2>1. s \in Stamp /\ Heard(s) \in Reading
    BY <1>2, StampsAreStamps, HeardCovers
  <2>2. Heard(s) = clock \/ Heard(s).millis <= MaxWall + MaxDrift
    BY <1>1, <2>1, ClockReach DEF Heard
  <2>3. Heard(s).millis <= MaxWall + MaxDrift + issued /\ Heard(s).millis \in Nat
    BY <1>1, <2>1, <2>2 DEF Reading
  <2>4. \/ clock' = Heard(s) /\ issued' = issued
        \/ clock' = NowAt(Heard(s), wall) /\ issued' = issued + 1
    BY <1>6 DEF Arrive, Take, Restamp, Stand, Tie
  <2>5. CASE clock' = Heard(s) /\ issued' = issued
    BY <2>3, <2>5 DEF Reach
  <2>6. CASE clock' = NowAt(Heard(s), wall) /\ issued' = issued + 1
    <3>1. clock'.millis <= Heard(s).millis + 1 \/ clock'.millis <= MaxWall
      BY <1>1, <2>1, <2>6, ClockReach
    <3>2. clock'.millis \in Nat
      BY <1>1 DEF Reading
    <3>3. QED
      BY <1>1, <2>3, <2>6, <3>1, <3>2 DEF Reach
  <2>7. QED
    BY <2>4, <2>5, <2>6
<1>7. WallMoves \/ UNCHANGED vars \/ (\E n \in Nodes : Export(n) \/ PutBack(n))
      => clock' = clock /\ issued' = issued
  BY DEF WallMoves, vars, Export, PutBack
<1>8. QED
  BY <1>3, <1>4, <1>5, <1>6, <1>7 DEF Next

\* While the ceiling of the encoding is further off than the wall clock, the
\* drift and a millisecond for every stamp issued, the clock can always issue one
\* more: no file, however far ahead its stamps, ever stops the user's edits.
THEOREM AlwaysCanIssue ==
    ASSUME MaxWall + MaxDrift + MaxIssued < MaxMillis
    PROVE  Spec => []CanIssue
<1>1. Init => IssueIInv
  <2>1. Init => TypeOK
    BY TypeCorrectAtFirst
  <2>2. Init => clock.millis <= Reach
    BY HlcAssumption, StampClockAssumption DEF Init, Reach
  <2>3. QED
    BY <2>1, <2>2 DEF IssueIInv
<1>2. IssueIInv /\ [Next]_vars /\ TypeOK' => IssueIInv'
  BY IssueStep
<1>3. IssueIInv => CanIssue
  <2> SUFFICES ASSUME IssueIInv PROVE NowAt(clock, wall).millis <= MaxMillis
    BY DEF CanIssue, Encodable
  <2>1. /\ clock \in Reading /\ wall \in 0 .. MaxWall /\ issued \in 0 .. MaxIssued
        /\ clock.millis <= MaxWall + MaxDrift + issued
    BY DEF IssueIInv, TypeOK, Reach
  <2>2. NowAt(clock, wall).millis <= clock.millis + 1 \/ NowAt(clock, wall).millis <= MaxWall
    BY <2>1, BlankLeast, ClockReach
  <2>3. NowAt(clock, wall).millis \in Nat /\ clock.millis \in Nat
    BY <2>1, NowAtAdvances, StampClockAssumption DEF Reading
  <2>4. QED
    BY <2>1, <2>2, <2>3, HlcAssumption, StampClockAssumption
<1>4. QED
  BY <1>1, <1>2, <1>3, TypeCorrect, PTL DEF Spec
=============================================================================
