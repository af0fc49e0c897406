-------------------------- MODULE NodeReplayProofs --------------------------
(***************************************************************************)
(* For any devices, any lines in any order, any hand edits and any wall    *)
(* clocks: the row of a device is the greatest version it has accepted, so *)
(* devices that were told the same things say the same; and a line that    *)
(* comes again changes nothing.                                            *)
(***************************************************************************)
EXTENDS NodeReplay, HlcProofs

----------------------------------------------------------------------------
(* Versions.                                                               *)

\* The parts of a version.
LEMMA VersionParts ==
    \A v \in Version : /\ v.content \in Nat \ {0} /\ v.content \in Contents
                       /\ v.deleted \in BOOLEAN /\ v.stamp \in Stamp /\ Known(v)
  BY ContentsAssumption DEF Version, Known

\* There is no version where there is no row.
LEMMA NoneUnknown == ~Known(None) /\ None \notin Version
  BY VersionParts DEF Known, None

\* What a digest is, by cases.
LEMMA DigestForm ==
    ASSUME NEW v \in Version
    PROVE  \/ v.deleted = TRUE /\ Digest(v) = 2 * v.content + 1
           \/ v.deleted = FALSE /\ Digest(v) = 2 * v.content + 0
<1>1. v.deleted = TRUE \/ v.deleted = FALSE
  BY VersionParts
<1>2. Digest(v) = 2 * v.content + (IF v.deleted THEN 1 ELSE 0)
  BY DEF Digest
<1>3. ASSUME v.deleted = TRUE PROVE (IF v.deleted THEN 1 ELSE 0) = 1
  BY <1>3, Zenon
<1>4. ASSUME v.deleted = FALSE PROVE (IF v.deleted THEN 1 ELSE 0) = 0
  BY <1>4, Zenon
<1> QED BY <1>1, <1>2, <1>3, <1>4

\* Two states have one digest only when they are the same state.
LEMMA DigestInjective ==
    ASSUME NEW v \in Version, NEW w \in Version
    PROVE  /\ Digest(v) \in Nat
           /\ Digest(v) = Digest(w) => Same(v, w)
<1>1. /\ v.content \in Nat /\ w.content \in Nat
      /\ v.deleted \in BOOLEAN /\ w.deleted \in BOOLEAN
  BY VersionParts
<1>2. \/ v.deleted = TRUE /\ Digest(v) = 2 * v.content + 1
      \/ v.deleted = FALSE /\ Digest(v) = 2 * v.content + 0
  BY DigestForm
<1>3. \/ w.deleted = TRUE /\ Digest(w) = 2 * w.content + 1
      \/ w.deleted = FALSE /\ Digest(w) = 2 * w.content + 0
  BY DigestForm
<1>4. \A m \in Nat, n \in Nat : 2 * m + 1 # 2 * n + 0
  OBVIOUS
<1>5. CASE v.deleted = w.deleted
  <2>1. v.content = w.content \/ Digest(v) # Digest(w)
    BY <1>1, <1>2, <1>3, <1>5
  <2> QED BY <1>1, <1>2, <1>3, <1>5, <2>1 DEF Same
<1>6. CASE v.deleted # w.deleted
  BY <1>1, <1>2, <1>3, <1>4, <1>6
<1> QED BY <1>5, <1>6

\* The same state under the same stamp is the same version.
LEMMA SameVersion ==
    ASSUME NEW v \in Version, NEW w \in Version, Same(v, w), v.stamp = w.stamp
    PROVE  v = w
  BY DEF Version, Same

\* The order is total: of two versions neither beats the other only when they
\* are one.
LEMMA BeatsTotal ==
    ASSUME NEW v \in Version, NEW w \in Version, ~Beats(v, w), ~Beats(w, v)
    PROVE  v = w
<1>1. v.stamp \in Stamp /\ w.stamp \in Stamp
  BY VersionParts
<1>2. v.stamp = w.stamp
  BY <1>1, BeforeTotal DEF Beats
<1>3. Digest(v) \in Nat /\ Digest(w) \in Nat
  BY DigestInjective
<1>4. Digest(v) = Digest(w)
  BY <1>2, <1>3 DEF Beats
<1> QED BY <1>2, <1>4, DigestInjective, SameVersion

\* What does not beat a version does not beat one that is above it.
LEMMA BeatsUpward ==
    ASSUME NEW u \in Version, NEW v \in Version, NEW w \in Version,
           ~Beats(u, v), Beats(w, v)
    PROVE  ~Beats(u, w)
<1>1. /\ u.stamp \in Stamp /\ v.stamp \in Stamp /\ w.stamp \in Stamp
      /\ Digest(u) \in Nat /\ Digest(v) \in Nat /\ Digest(w) \in Nat
  BY VersionParts, DigestInjective
<1>2. Before(u.stamp, v.stamp) \/ (u.stamp = v.stamp /\ Digest(u) <= Digest(v))
  BY <1>1, BeforeTotal DEF Beats
<1>3. CASE Before(v.stamp, w.stamp)
  <2>1. Before(u.stamp, w.stamp)
    BY <1>1, <1>2, <1>3, BeforeTransitive
  <2>2. ~Before(w.stamp, u.stamp) /\ u.stamp # w.stamp
    BY <1>1, <2>1, BeforeTransitive, BeforeIrreflexive
  <2> QED BY <2>2 DEF Beats
<1>4. CASE v.stamp = w.stamp /\ Digest(w) > Digest(v)
  <2>1. CASE Before(u.stamp, v.stamp)
    <3>1. ~Before(w.stamp, u.stamp) /\ u.stamp # w.stamp
      BY <1>1, <1>4, <2>1, BeforeTransitive, BeforeIrreflexive
    <3> QED BY <3>1 DEF Beats
  <2>2. CASE u.stamp = v.stamp /\ Digest(u) <= Digest(v)
    <3>1. ~Before(w.stamp, u.stamp) /\ ~(Digest(u) > Digest(w))
      BY <1>1, <1>4, <2>2, BeforeIrreflexive
    <3> QED BY <3>1 DEF Beats
  <2> QED BY <1>2, <2>1, <2>2
<1> QED BY <1>3, <1>4 DEF Beats

\* A fresh stamp beats everything the clock covers.
LEMMA FreshBeats ==
    ASSUME NEW c \in Reading, NEW e \in Reading, ReadingBefore(c, e),
           NEW r \in 0 .. MaxDevice, NEW v \in Version, NEW w \in Version,
           w.stamp = StampBy(r, e), ~ReadingBefore(c, v.stamp)
    PROVE  Beats(w, v) /\ ~Beats(v, w)
<1>1. v.stamp \in Stamp /\ w.stamp \in Stamp
  BY VersionParts
<1>2. Before(v.stamp, w.stamp)
  BY <1>1, HlcAssumption DEF StampBy, Before, ReadingBefore, Reading, Stamp
<1>3. ~Before(w.stamp, v.stamp) /\ v.stamp # w.stamp
  BY <1>1, <1>2, BeforeTransitive, BeforeIrreflexive
<1> QED BY <1>2, <1>3 DEF Beats

----------------------------------------------------------------------------
(* What a merge makes of a row.                                            *)

\* A version under another stamp.
Restamped(v, stamp) == [v EXCEPT !.stamp = stamp]

\* Types, and the four things a merged line can do: be issued a stamp of its
\* own, be taken as it is over a row it beats, or leave the row standing, which
\* then is known and not beaten by any line that was believed.
LEMMA MergedForm ==
    ASSUME NEW row1 \in Version \cup {None}, NEW line \in Version,
           NEW wall, NEW r, NEW fresh
    PROVE  LET drifted == BeyondDrift(line.stamp, wall)
               after == Merged(row1, line, FALSE, drifted, r, fresh)
               issues == Issues(row1, line, FALSE, drifted, r)
           IN \/ issues /\ after = Restamped(line, fresh)
              \/ /\ ~issues /\ ~drifted /\ after = line
                 /\ Known(row1) => Beats(line, row1)
              \/ /\ ~issues /\ after = row1 /\ Known(row1)
                 /\ ~drifted => ~Beats(line, row1)
<1> DEFINE drifted == BeyondDrift(line.stamp, wall)
           after == Merged(row1, line, FALSE, drifted, r, fresh)
           issues == Issues(row1, line, FALSE, drifted, r)
<1>1. CASE issues
  BY <1>1 DEF Merged, Restamped
<1>2. CASE ~issues /\ Adopts(row1, line, FALSE, drifted)
  <2>1. after = line
    BY <1>2 DEF Merged, Writes
  <2> QED BY <1>2, <2>1 DEF Adopts, Beats
<1>3. CASE ~issues /\ Overrules(row1, line, FALSE, drifted, r)
  <2>1. after = line
    BY <1>3 DEF Merged, Writes
  <2> QED BY <1>3, <2>1 DEF Overrules, Tied, Clash, Beats
<1>4. CASE ~issues /\ ~Adopts(row1, line, FALSE, drifted) /\ ~Overrules(row1, line, FALSE, drifted, r)
  <2>1. after = row1
    BY <1>4 DEF Merged, Writes
  <2>2. Known(row1)
    BY <1>4 DEF Issues, Adopts
  <2>3. ASSUME ~drifted PROVE ~Beats(line, row1)
    <3>1. ~Before(row1.stamp, line.stamp)
      BY <1>4, <2>2, <2>3 DEF Adopts
    <3>2. ASSUME line.stamp = row1.stamp PROVE ~(Digest(line) > Digest(row1))
      <4>1. row1 \in Version
        BY <2>2, NoneUnknown
      <4>2. CASE Same(row1, line)
        <5>1. Digest(line) = Digest(row1)
          BY <4>2 DEF Same, Digest
        <5> QED BY <4>1, <5>1, DigestInjective
      <4>3. CASE ~Same(row1, line)
        <5>1. Tied(row1, line, FALSE, drifted, r)
          BY <1>4, <2>2, <2>3, <3>2, <4>3 DEF Tied, Clash, Issues
        <5> QED BY <1>4, <5>1 DEF Overrules
      <4> QED BY <4>2, <4>3
    <3> QED BY <3>1, <3>2 DEF Beats
  <2> QED BY <1>4, <2>1, <2>2, <2>3
<1> QED BY <1>1, <1>2, <1>3, <1>4

\* A version under a stamp this device can issue.
LEMMA StampedVersion ==
    ASSUME NEW v \in Version, NEW r \in 1 .. MaxDevice, NEW c \in Reading, Encodable(c)
    PROVE  /\ Restamped(v, StampBy(r, c)) \in Version
           /\ Restamped(v, StampBy(r, c)).stamp = StampBy(r, c)
<1>1. StampBy(r, c) \in Stamp
  BY HlcAssumption DEF StampBy, Stamp, Reading, Encodable
<1> QED BY <1>1 DEF Version, Restamped

----------------------------------------------------------------------------
(* Types.                                                                  *)

\* What the user makes of a node is a version, but for its stamp.
LEMMA WrittenVersions == Written \subseteq Version
<1>1. ASSUME NEW v \in Written PROVE v \in Version
  <2>1. v \in [content : Contents, deleted : BOOLEAN, stamp : {Blank}]
    BY ReplayAssumption
  <2> QED BY <2>1, BlankLeast DEF Version
<1> QED BY <1>1

\* A row after a merge, and the clock, have their types.
LEMMA MergeTypes ==
    ASSUME TypeOK, NEW r \in Replicas, NEW line \in lines, NEW wall \in 0 .. MaxWall,
           Merge(r, line, wall)
    PROVE  LET drifted == BeyondDrift(line.stamp, wall)
               heard == ObserveArrival(clock[r], line.stamp, wall)
               next == NowAt(heard, wall)
               issues == Issues(row[r], line, FALSE, drifted, r)
               fresh == StampBy(r, next)
           IN /\ line \in Version /\ row[r] \in Version \cup {None}
              /\ r \in 1 .. MaxDevice /\ r \in 0 .. MaxDevice
              /\ clock[r] \in Reading /\ heard \in Reading /\ next \in Reading
              /\ ~ReadingBefore(heard, clock[r]) /\ ReadingBefore(heard, next)
              /\ drifted \in BOOLEAN
              /\ ~drifted => ~ReadingBefore(heard, line.stamp)
              /\ issues => Restamped(line, fresh) \in Version /\ Restamped(line, fresh).stamp = fresh
<1> USE HlcAssumption, ReplayAssumption
<1>1. line \in Version /\ row[r] \in Version \cup {None} /\ clock[r] \in Reading
  BY DEF TypeOK
<1>2. line.stamp \in Stamp
  BY <1>1, VersionParts
<1>3. wall \in Nat /\ r \in 1 .. MaxDevice /\ r \in 0 .. MaxDevice
  OBVIOUS
<1> DEFINE drifted == BeyondDrift(line.stamp, wall)
           heard == ObserveArrival(clock[r], line.stamp, wall)
           next == NowAt(heard, wall)
           issues == Issues(row[r], line, FALSE, drifted, r)
<1>4. /\ heard \in Reading /\ ~ReadingBefore(heard, clock[r])
      /\ ~drifted => ~ReadingBefore(heard, line.stamp)
  BY <1>1, <1>2, <1>3, ArrivalCovers
<1>5. next \in Reading /\ ReadingBefore(heard, next)
  <2> HIDE DEF heard
  <2> QED BY <1>3, <1>4, NowAtAdvances
<1>6. drifted \in BOOLEAN
  BY DEF BeyondDrift
<1>7. issues => Encodable(next)
  BY DEF Merge
<1>8. issues => /\ Restamped(line, StampBy(r, next)) \in Version
                /\ Restamped(line, StampBy(r, next)).stamp = StampBy(r, next)
  <2> HIDE DEF issues, next
  <2> QED BY <1>1, <1>3, <1>5, <1>7, StampedVersion
<1> QED BY <1>1, <1>3, <1>4, <1>5, <1>6, <1>8

\* Rows, clocks and lines keep their types: no step stores a stamp the encoding
\* cannot carry.
LEMMA TypeStep == TypeOK /\ [Next]_vars => TypeOK'
<1> USE HlcAssumption, ReplayAssumption
<1> SUFFICES ASSUME TypeOK, [Next]_vars PROVE TypeOK'
  OBVIOUS
<1>1. ASSUME NEW r \in Replicas, NEW wall \in 0 .. MaxWall, NEW v \in Written, Edit(r, v, wall)
      PROVE TypeOK'
  <2> DEFINE next == NowAt(clock[r], wall)
             w == Restamped(v, StampBy(r, next))
  <2>1. next \in Reading
    BY NowAtAdvances DEF TypeOK
  <2>2. Encodable(next) /\ v \in Version
    BY <1>1, WrittenVersions DEF Edit, Stamped
  <2>3. w \in Version
    <3> HIDE DEF next
    <3> QED BY <2>1, <2>2, StampedVersion
  <2>4. /\ row' = [row EXCEPT ![r] = w] /\ clock' = [clock EXCEPT ![r] = next]
        /\ told' = [told EXCEPT ![r] = @ \cup {w}] /\ UNCHANGED <<lines, hands>>
    BY <1>1 DEF Edit, Stamped, Restamped
  <2> HIDE DEF w, next
  <2> QED BY <2>1, <2>3, <2>4 DEF TypeOK
<1>2. ASSUME NEW r \in Replicas, NEW wall \in 0 .. MaxWall, NEW line \in lines, Merge(r, line, wall)
      PROVE TypeOK'
  <2> DEFINE drifted == BeyondDrift(line.stamp, wall)
             heard == ObserveArrival(clock[r], line.stamp, wall)
             next == NowAt(heard, wall)
             issues == Issues(row[r], line, FALSE, drifted, r)
             after == Merged(row[r], line, FALSE, drifted, r, StampBy(r, next))
             added == (IF drifted THEN {} ELSE {line}) \cup (IF issues THEN {after} ELSE {})
  <2>1. /\ line \in Version /\ heard \in Reading /\ next \in Reading
        /\ issues => Restamped(line, StampBy(r, next)) \in Version
        /\ drifted \in BOOLEAN /\ row[r] \in Version \cup {None} /\ r \in 1 .. MaxDevice
    BY <1>2, MergeTypes
  <2>2. after \in Version
    <3>1. \/ issues /\ after = Restamped(line, StampBy(r, next))
          \/ /\ ~issues /\ ~drifted /\ after = line
             /\ Known(row[r]) => Beats(line, row[r])
          \/ /\ ~issues /\ after = row[r] /\ Known(row[r])
             /\ ~drifted => ~Beats(line, row[r])
      <4> HIDE DEF next
      <4> QED BY <2>1, MergedForm
    <3> HIDE DEF after, issues, next
    <3> QED BY <2>1, <3>1, NoneUnknown
  <2>3. added \subseteq Version
    <3> HIDE DEF after, issues, drifted
    <3> QED BY <2>1, <2>2
  <2>4. /\ row' = [row EXCEPT ![r] = after]
        /\ clock' = [clock EXCEPT ![r] = IF issues THEN next ELSE heard]
        /\ told' = [told EXCEPT ![r] = @ \cup added]
        /\ UNCHANGED <<lines, hands>>
    <3>1. told' = [told EXCEPT ![r] = @ \cup (IF drifted THEN {} ELSE {line})
                                      \cup (IF issues THEN {after} ELSE {})]
      BY <1>2 DEF Merge
    <3>2. told' = [told EXCEPT ![r] = @ \cup added]
      <4> HIDE DEF after, issues, drifted
      <4> QED BY <3>1
    <3> QED BY <1>2, <3>2 DEF Merge
  <2> HIDE DEF after, issues, heard, next, added
  <2> QED BY <2>1, <2>2, <2>3, <2>4 DEF TypeOK
<1>3. ASSUME NEW r \in Replicas, Publish(r) PROVE TypeOK'
  <2>1. row[r] \in Version
    BY <1>3, NoneUnknown DEF Publish, TypeOK
  <2> QED BY <1>3, <2>1 DEF Publish, TypeOK
<1>4. ASSUME NEW v \in lines, NEW c \in Contents, NEW s \in {v.stamp, Blank}, HandEdit(v, c, s)
      PROVE TypeOK'
  <2>1. v \in Version /\ s \in Stamp
    BY BlankLeast, VersionParts DEF TypeOK
  <2>2. [v EXCEPT !.content = c, !.stamp = s] \in Version
    BY <2>1 DEF Version
  <2>3. hands' \in 0 .. MaxHand
    BY <1>4 DEF HandEdit, TypeOK
  <2> QED BY <1>4, <2>2, <2>3 DEF HandEdit, TypeOK
<1>5. CASE UNCHANGED vars
  BY <1>5 DEF vars, TypeOK
<1> QED BY <1>1, <1>2, <1>3, <1>4, <1>5 DEF Next

\* Types hold at the start.
LEMMA TypeAtFirst == Init => TypeOK
<1> USE HlcAssumption, ReplayAssumption
<1> SUFFICES ASSUME Init PROVE TypeOK
  OBVIOUS
<1>1. [millis |-> 0, counter |-> 0] \in Reading
  BY DEF Reading
<1>2. clock \in [Replicas -> Reading]
  BY <1>1 DEF Init
<1>3. hands \in 0 .. MaxHand /\ lines \subseteq Version
  BY DEF Init
<1>4. row \in [Replicas -> Version \cup {None}] /\ told \in [Replicas -> SUBSET Version]
  BY DEF Init
<1> QED BY <1>2, <1>3, <1>4 DEF TypeOK

\* Type correctness.
THEOREM TypeCorrect == Spec => []TypeOK
<1> QED BY TypeAtFirst, TypeStep, PTL DEF Spec

----------------------------------------------------------------------------
(* The row is the greatest version accepted.                               *)

\* The order invariant needs the clock's: an edit beats what was accepted only
\* because the clock stands above all of it.
ReplayIInv == TypeOK /\ RowIsGreatest /\ ClockCoversTold

\* What both invariants say of one device, in terms of stamps.
LEMMA Accepted ==
    ASSUME ReplayIInv, NEW r \in Replicas
    PROVE  /\ clock[r] \in Reading /\ told[r] \subseteq Version
           /\ row[r] \in Version \cup {None}
           /\ ~Known(row[r]) => told[r] = {}
           /\ Known(row[r]) => row[r] \in told[r]
           /\ \A v \in told[r] : ~Beats(v, row[r]) /\ ~ReadingBefore(clock[r], v.stamp)
<1>1. /\ clock[r] \in Reading /\ told[r] \subseteq Version /\ row[r] \in Version \cup {None}
  BY DEF ReplayIInv, TypeOK
<1>2. \A v \in told[r] : ~Beats(v, row[r]) /\ ~ReadingBefore(clock[r], v.stamp)
  BY DEF ReplayIInv, RowIsGreatest, ClockCoversTold, ReadingBefore, ReadingOf
<1>3. ASSUME row[r] = None PROVE told[r] = {}
  <2> SUFFICES ASSUME NEW v \in told[r] PROVE FALSE
    OBVIOUS
  <2>1. ~Beats(v, None) /\ v \in Version
    BY <1>1, <1>2, <1>3
  <2>2. v.stamp \in Stamp
    BY <2>1, VersionParts
  <2>3. v.stamp = Blank
    BY <2>1, <2>2, BlankLeast DEF Beats, AtMost, None
  <2>4. Digest(v) > Digest(None)
    <3>1. v.content \in Nat \ {0}
      BY <2>1, VersionParts
    <3>2. Digest(v) = 2 * v.content + 1 \/ Digest(v) = 2 * v.content + 0
      BY <2>1, DigestForm
    <3>3. Digest(None) = 0
      BY DEF Digest, None
    <3> QED BY <3>1, <3>2, <3>3
  <2> QED BY <2>1, <2>3, <2>4 DEF Beats, None
<1>4. row[r] \in told[r] \cup {None}
  BY DEF ReplayIInv, RowIsGreatest
<1>5. Known(row[r]) => row[r] \in told[r]
  BY <1>4, NoneUnknown
<1>6. ~Known(row[r]) => told[r] = {}
  BY <1>1, <1>3, VersionParts
<1> QED BY <1>1, <1>2, <1>5, <1>6

\* A device accepts some versions and its row becomes one of them all that none
\* of them beats.
LEMMA AcceptStep ==
    ASSUME ReplayIInv, TypeOK', NEW r \in Replicas, NEW v, NEW T, NEW c \in Reading,
           row' = [row EXCEPT ![r] = v],
           told' = [told EXCEPT ![r] = @ \cup T], T \subseteq Version,
           v \in told[r] \cup T, \A w \in told[r] \cup T : ~Beats(w, v),
           clock' = [clock EXCEPT ![r] = c],
           ~ReadingBefore(c, clock[r]), \A w \in T : ~ReadingBefore(c, w.stamp)
    PROVE  RowIsGreatest' /\ ClockCoversTold'
<1>0. /\ row \in [Replicas -> Version \cup {None}] /\ clock \in [Replicas -> Reading]
      /\ told \in [Replicas -> SUBSET Version]
  BY DEF ReplayIInv, TypeOK
<1>1. ASSUME NEW q \in Replicas
      PROVE  /\ row'[q] \in told'[q] \cup {None}
             /\ \A w \in told'[q] : ~Beats(w, row'[q])
             /\ \A w \in told'[q] : ~ReadingBefore(clock'[q], w.stamp)
  <2>1. CASE q = r
    <3>1. row'[q] = v /\ told'[q] = told[r] \cup T /\ clock'[q] = c
      BY <1>0, <2>1
    <3>2. ASSUME NEW w \in told[r] PROVE ~ReadingBefore(c, w.stamp)
      <4>1. ~ReadingBefore(clock[r], w.stamp) /\ w.stamp \in Stamp /\ clock[r] \in Reading
        BY Accepted, VersionParts
      <4> QED BY <4>1, CoverageKept
    <3> QED BY <3>1, <3>2
  <2>2. CASE q # r
    <3>1. row'[q] = row[q] /\ told'[q] = told[q] /\ clock'[q] = clock[q]
      BY <1>0, <2>2
    <3> QED BY <3>1, Accepted DEF ReplayIInv, RowIsGreatest
  <2> QED BY <2>1, <2>2
<1> QED BY <1>1 DEF RowIsGreatest, ClockCoversTold, ReadingBefore, ReadingOf

\* A change made in the app.
LEMMA EditStep ==
    ASSUME ReplayIInv, TypeOK', NEW r \in Replicas, NEW wall \in 0 .. MaxWall,
           NEW v \in Written, Edit(r, v, wall)
    PROVE  RowIsGreatest' /\ ClockCoversTold'
<1> DEFINE next == NowAt(clock[r], wall)
           w == Restamped(v, StampBy(r, next))
<1>1. clock[r] \in Reading /\ wall \in Nat /\ r \in 1 .. MaxDevice /\ r \in 0 .. MaxDevice
  BY Accepted, HlcAssumption, ReplayAssumption
<1>2. next \in Reading /\ ReadingBefore(clock[r], next)
  BY <1>1, NowAtAdvances
<1>3. Encodable(next) /\ v \in Version
  BY WrittenVersions DEF Edit, Stamped
<1>4. w \in Version /\ w.stamp = StampBy(r, next)
  <2> HIDE DEF next
  <2> QED BY <1>1, <1>2, <1>3, StampedVersion
<1>5. /\ row' = [row EXCEPT ![r] = w] /\ clock' = [clock EXCEPT ![r] = next]
      /\ told' = [told EXCEPT ![r] = @ \cup {w}]
  BY DEF Edit, Stamped, Restamped
<1> HIDE DEF next, w
<1>6. ~ReadingBefore(next, clock[r]) /\ ~ReadingBefore(next, w.stamp)
  BY <1>1, <1>2, <1>4, HlcAssumption DEF ReadingBefore, Reading, StampBy
<1>7. \A x \in told[r] \cup {w} : ~Beats(x, w)
  <2>1. \A x \in told[r] : ~Beats(x, w)
    BY <1>1, <1>2, <1>4, Accepted, FreshBeats
  <2>2. ~Beats(w, w)
    BY <1>4, VersionParts, BeforeIrreflexive, DigestInjective DEF Beats
  <2> QED BY <2>1, <2>2
<1>8. {w} \subseteq Version /\ w \in told[r] \cup {w} /\ \A x \in {w} : ~ReadingBefore(next, x.stamp)
  BY <1>4, <1>6
<1> DEFINE T == {w}
<1>9. T \subseteq Version /\ w \in told[r] \cup T /\ told' = [told EXCEPT ![r] = @ \cup T]
      /\ (\A x \in told[r] \cup T : ~Beats(x, w)) /\ \A x \in T : ~ReadingBefore(next, x.stamp)
  BY <1>5, <1>7, <1>8
<1> HIDE DEF T
<1> QED BY <1>2, <1>5, <1>6, <1>9, AcceptStep

\* A line merged: the fresh stamp, the line as it is, or the row as it was.
LEMMA MergeKeepsGreatest ==
    ASSUME ReplayIInv, TypeOK', NEW r \in Replicas, NEW wall \in 0 .. MaxWall,
           NEW line \in lines, Merge(r, line, wall)
    PROVE  /\ RowIsGreatest' /\ ClockCoversTold'
           /\ Known(row'[r])
           /\ \E T : told' = [told EXCEPT ![r] = @ \cup T]
           /\ \E v : row' = [row EXCEPT ![r] = v]
<1> DEFINE drifted == BeyondDrift(line.stamp, wall)
           heard == ObserveArrival(clock[r], line.stamp, wall)
           next == NowAt(heard, wall)
           issues == Issues(row[r], line, FALSE, drifted, r)
           fresh == StampBy(r, next)
           after == Merged(row[r], line, FALSE, drifted, r, fresh)
           T == (IF drifted THEN {} ELSE {line}) \cup (IF issues THEN {after} ELSE {})
           c == IF issues THEN next ELSE heard
<1>1. /\ line \in Version /\ row[r] \in Version \cup {None}
      /\ r \in 0 .. MaxDevice
      /\ clock[r] \in Reading /\ heard \in Reading /\ next \in Reading
      /\ ~ReadingBefore(heard, clock[r]) /\ ReadingBefore(heard, next)
      /\ drifted \in BOOLEAN
      /\ ~drifted => ~ReadingBefore(heard, line.stamp)
      /\ issues => Restamped(line, fresh) \in Version /\ Restamped(line, fresh).stamp = fresh
  BY MergeTypes DEF ReplayIInv
<1>2. \/ issues /\ after = Restamped(line, fresh)
      \/ /\ ~issues /\ ~drifted /\ after = line
         /\ Known(row[r]) => Beats(line, row[r])
      \/ /\ ~issues /\ after = row[r] /\ Known(row[r])
         /\ ~drifted => ~Beats(line, row[r])
  <2> HIDE DEF fresh
  <2> QED BY <1>1, MergedForm
<1>3. /\ row' = [row EXCEPT ![r] = after] /\ clock' = [clock EXCEPT ![r] = c]
      /\ told' = [told EXCEPT ![r] = @ \cup T]
  <2>1. told' = [told EXCEPT ![r] = @ \cup (IF drifted THEN {} ELSE {line})
                                    \cup (IF issues THEN {after} ELSE {})]
    BY DEF Merge
  <2>2. told' = [told EXCEPT ![r] = @ \cup T]
    <3> HIDE DEF after, issues, drifted
    <3> QED BY <2>1
  <2> QED BY <2>2 DEF Merge
<1> HIDE DEF issues, drifted, heard, next, fresh, after
<1>4. after \in Version
  BY <1>1, <1>2, NoneUnknown
<1>5. T \subseteq Version /\ c \in Reading
  BY <1>1, <1>4
<1>6. ~ReadingBefore(next, clock[r]) /\ ~ReadingBefore(next, fresh)
      /\ (~drifted => ~ReadingBefore(next, line.stamp))
  <2>1. line.stamp \in Stamp
    BY <1>1, VersionParts
  <2> QED BY <1>1, <2>1, HlcAssumption DEF fresh, ReadingBefore, Reading, StampBy, Stamp
<1>7. ~ReadingBefore(c, clock[r]) /\ \A x \in T : ~ReadingBefore(c, x.stamp)
  BY <1>1, <1>2, <1>6
<1>8. after \in told[r] \cup T /\ \A x \in told[r] \cup T : ~Beats(x, after)
  <2>0. \A x \in Version : ~Beats(x, x)
    BY VersionParts, BeforeIrreflexive, DigestInjective DEF Beats
  <2>1. CASE issues
    <3>1. after.stamp = fresh /\ after \in T /\ T \subseteq {line, after}
      BY <1>1, <1>2, <2>1
    <3>2. ASSUME NEW x \in Version, ~ReadingBefore(heard, x.stamp) PROVE ~Beats(x, after)
      BY <1>1, <1>4, <3>1, <3>2, FreshBeats DEF fresh
    <3>3. ASSUME NEW x \in told[r] PROVE ~Beats(x, after)
      <4>1. x \in Version /\ ~ReadingBefore(clock[r], x.stamp) /\ x.stamp \in Stamp
        BY Accepted, VersionParts
      <4> QED BY <1>1, <3>2, <4>1, CoverageKept
    <3>4. ASSUME NEW x \in T PROVE ~Beats(x, after)
      <4>1. CASE x = after
        BY <1>4, <2>0, <4>1
      <4>2. CASE x # after
        <5>1. x = line /\ ~drifted
          BY <4>2
        <5> QED BY <1>1, <3>2, <5>1
      <4> QED BY <4>1, <4>2
    <3> QED BY <3>1, <3>3, <3>4
  <2>2. CASE ~issues /\ ~drifted /\ after = line /\ (Known(row[r]) => Beats(line, row[r]))
    <3>1. T = {line}
      BY <2>2
    <3>3. ASSUME NEW x \in told[r] PROVE ~Beats(x, line)
      <4>1. Known(row[r]) /\ row[r] \in Version /\ ~Beats(x, row[r]) /\ x \in Version
        BY <1>1, Accepted, NoneUnknown
      <4> QED BY <1>1, <2>2, <4>1, BeatsUpward
    <3> QED BY <1>1, <2>0, <2>2, <3>1, <3>3
  <2>3. CASE ~issues /\ after = row[r] /\ Known(row[r]) /\ (~drifted => ~Beats(line, row[r]))
    <3>1. T \subseteq {line} /\ (drifted => T = {})
      BY <2>3
    <3> QED BY <2>3, <3>1, Accepted
  <2> QED BY <1>2, <2>1, <2>2, <2>3
<1>9. row'[r] = after
  BY <1>3 DEF ReplayIInv, TypeOK
<1>10. RowIsGreatest' /\ ClockCoversTold'
  <2> HIDE DEF T, c
  <2> QED BY <1>3, <1>5, <1>7, <1>8, AcceptStep
<1> QED BY <1>3, <1>4, <1>9, <1>10, VersionParts

\* Every step keeps the invariant: one case an action.
LEMMA ReplayStep == ReplayIInv /\ [Next]_vars => ReplayIInv'
<1> SUFFICES ASSUME ReplayIInv, [Next]_vars PROVE ReplayIInv'
  OBVIOUS
<1>0. TypeOK'
  BY TypeStep DEF ReplayIInv
<1>1. ASSUME NEW r \in Replicas, NEW wall \in 0 .. MaxWall, NEW v \in Written, Edit(r, v, wall)
      PROVE RowIsGreatest' /\ ClockCoversTold'
  BY <1>0, <1>1, EditStep
<1>2. ASSUME NEW r \in Replicas, NEW wall \in 0 .. MaxWall, NEW line \in lines, Merge(r, line, wall)
      PROVE RowIsGreatest' /\ ClockCoversTold'
  BY <1>0, <1>2, MergeKeepsGreatest
<1>3. ASSUME UNCHANGED <<row, clock, told>> PROVE RowIsGreatest' /\ ClockCoversTold'
  BY <1>3 DEF ReplayIInv, RowIsGreatest, ClockCoversTold
<1>4. RowIsGreatest' /\ ClockCoversTold'
  BY <1>1, <1>2, <1>3 DEF Next, Publish, HandEdit, vars
<1> QED BY <1>0, <1>4 DEF ReplayIInv

\* It holds at the start and so always.
LEMMA ReplayInvariant == Spec => []ReplayIInv
<1>1. Init => ReplayIInv
  BY TypeAtFirst DEF ReplayIInv, Init, RowIsGreatest, ClockCoversTold
<1> QED BY <1>1, ReplayStep, PTL DEF Spec

\* No order, delay or repetition of the files leaves an older version standing.
THEOREM RowAlwaysGreatest == Spec => []RowIsGreatest
<1>1. ReplayIInv => RowIsGreatest
  BY DEF ReplayIInv
<1> QED BY <1>1, ReplayInvariant, PTL

\* A device's clock stands above all it was told, runaway stamps excepted, which
\* it was not told but restamped.
THEOREM ClockAlwaysCoversTold == Spec => []ClockCoversTold
<1>1. ReplayIInv => ClockCoversTold
  BY DEF ReplayIInv
<1> QED BY <1>1, ReplayInvariant, PTL

\* A line that was merged says nothing new: it is not stamped again, and the row
\* it left stands.
LEMMA MergedTwice ==
    ASSUME NEW row1 \in Version \cup {None}, NEW line \in Version, NEW clock1 \in Reading,
           NEW wall \in Nat, NEW r
    PROVE  LET drifted == BeyondDrift(line.stamp, wall)
               once == Merged(row1, line, FALSE, drifted, r,
                              StampBy(r, NowAt(ObserveArrival(clock1, line.stamp, wall), wall)))
           IN /\ ~Issues(once, line, FALSE, drifted, r)
              /\ Merged(once, line, FALSE, drifted, r, Blank) = once
<1> DEFINE drifted == BeyondDrift(line.stamp, wall)
           heard == ObserveArrival(clock1, line.stamp, wall)
           fresh == StampBy(r, NowAt(heard, wall))
           once == Merged(row1, line, FALSE, drifted, r, fresh)
<1>1. line.stamp \in Stamp /\ Known(line)
  BY VersionParts
<1>2. /\ heard \in Reading
      /\ ~drifted => ~ReadingBefore(heard, line.stamp)
  BY <1>1, ArrivalCovers
<1>3. NowAt(heard, wall) \in Reading /\ ReadingBefore(heard, NowAt(heard, wall))
  <2> HIDE DEF heard
  <2> QED BY <1>2, NowAtAdvances
<1>4. ~drifted => ~Before(fresh, line.stamp)
  <2> DEFINE next == NowAt(heard, wall)
  <2>1. /\ fresh.millis = next.millis /\ fresh.counter = next.counter
        /\ next \in Reading /\ ReadingBefore(heard, next) /\ heard \in Reading
    BY <1>2, <1>3 DEF StampBy
  <2> HIDE DEF next, heard, fresh, drifted
  <2> QED BY <1>1, <1>2, <2>1, HlcAssumption DEF Before, ReadingBefore, Reading, Stamp
<1>5. ASSUME NEW w, Known(w), Same(w, line), ~drifted => ~Before(w.stamp, line.stamp)
      PROVE  /\ ~Issues(w, line, FALSE, drifted, r)
             /\ Merged(w, line, FALSE, drifted, r, Blank) = w
  <2>1. ~Issues(w, line, FALSE, drifted, r)
    BY <1>5 DEF Issues, Clash
  <2>2. ~Writes(w, line, FALSE, drifted, r)
    BY <1>5, <2>1 DEF Writes, Adopts, Overrules, Tied, Clash
  <2> QED BY <2>1, <2>2 DEF Merged
<1>6. CASE Issues(row1, line, FALSE, drifted, r)
  <2>1. once = Restamped(line, fresh)
    BY <1>6 DEF Merged, Restamped
  <2>2. /\ once.content = line.content /\ once.deleted = line.deleted /\ once.stamp = fresh
    <3> HIDE DEF once, fresh
    <3> QED BY <2>1 DEF Restamped, Version
  <2>3. Known(once) /\ Same(once, line)
    BY <1>1, <2>2 DEF Known, Same
  <2> HIDE DEF once, fresh, drifted
  <2> QED BY <1>4, <1>5, <2>2, <2>3 DEF once, fresh, drifted
<1>7. CASE ~Issues(row1, line, FALSE, drifted, r) /\ Writes(row1, line, FALSE, drifted, r)
  <2>1. once = line
    BY <1>7 DEF Merged
  <2>2. Same(line, line) /\ ~Before(line.stamp, line.stamp)
    BY <1>1, BeforeIrreflexive DEF Same
  <2> HIDE DEF once, fresh, drifted
  <2> QED BY <1>1, <1>5, <2>1, <2>2 DEF once, fresh, drifted
<1>8. CASE ~Issues(row1, line, FALSE, drifted, r) /\ ~Writes(row1, line, FALSE, drifted, r)
  <2>1. once = row1
    BY <1>8 DEF Merged
  <2> QED BY <1>8, <2>1 DEF Merged
<1> QED BY <1>6, <1>7, <1>8

\* A line merged again issues no stamp and leaves the row, a runaway one too, so
\* that a vault that is read over and over comes to rest.
THEOREM ReplayAlwaysSettles == Spec => []ReplaySettles
<1>1. TypeOK => ReplaySettles
  <2> SUFFICES ASSUME TypeOK, NEW r \in Replicas, NEW line \in lines, NEW wall \in 0 .. MaxWall
               PROVE  LET drifted == BeyondDrift(line.stamp, wall)
                          once == Merged(row[r], line, FALSE, drifted, r,
                              StampBy(r, NowAt(ObserveArrival(clock[r], line.stamp, wall), wall)))
                      IN /\ ~Issues(once, line, FALSE, drifted, r)
                         /\ Merged(once, line, FALSE, drifted, r, Blank) = once
    BY DEF ReplaySettles
  <2>1. /\ row[r] \in Version \cup {None} /\ line \in Version
        /\ clock[r] \in Reading /\ wall \in Nat
    BY ReplayAssumption DEF TypeOK
  <2> QED BY <2>1, MergedTwice
<1> QED BY <1>1, TypeCorrect, PTL

\* Devices that were told the same things say the same: the merge gives one
\* answer, whatever came first and however often.
THEOREM AlwaysSameToldSameRow == Spec => []SameToldSameRow
<1>1. ReplayIInv => SameToldSameRow
  <2> SUFFICES ASSUME ReplayIInv, NEW r \in Replicas, NEW q \in Replicas, told[r] = told[q]
               PROVE  row[r] = row[q]
    BY DEF SameToldSameRow
  <2>1. CASE told[r] = {}
    <3>1. row[r] = None /\ row[q] = None
      BY <2>1 DEF ReplayIInv, RowIsGreatest
    <3> QED BY <3>1
  <2>2. CASE told[r] # {}
    <3>1. /\ row[r] \in told[r] /\ row[q] \in told[r] /\ told[r] \subseteq Version
      BY <2>2, Accepted
    <3>2. ~Beats(row[r], row[q]) /\ ~Beats(row[q], row[r])
      BY <3>1, Accepted
    <3> QED BY <3>1, <3>2, BeatsTotal
  <2> QED BY <2>1, <2>2
<1> QED BY <1>1, ReplayInvariant, PTL

\* The edits, clocks, files, hand edits and clashes together implement a
\* last-writer-wins register on every device: each step of theirs tells one
\* device something, or nobody anything.
THEOREM ReplayImplementsRegister == Spec => IsRegister
<1>1. Init => Register!Init
  BY DEF Init, Register!Init, None, Register!None, Blank, Register!Blank
<1>2. ReplayIInv /\ [Next]_vars => [Register!Next]_<<told, row>>
  <2> SUFFICES ASSUME ReplayIInv, [Next]_vars PROVE [Register!Next]_<<told, row>>
    OBVIOUS
  <2>0. ReplayIInv' /\ TypeOK'
    BY ReplayStep DEF ReplayIInv
  <2>1. ASSUME NEW r \in Replicas, NEW T, NEW v,
               told' = [told EXCEPT ![r] = @ \cup T], row' = [row EXCEPT ![r] = v],
               Known(row'[r])
        PROVE  Register!Hear(r)
    <3>1. told \in [Replicas -> SUBSET Version] /\ row \in [Replicas -> Version \cup {None}]
      BY DEF ReplayIInv, TypeOK
    <3>2. /\ told[r] \subseteq told'[r]
          /\ told' = [told EXCEPT ![r] = told'[r]]
          /\ row' = [row EXCEPT ![r] = row'[r]]
      BY <2>1, <3>1
    <3>3. row'[r] \in told'[r] /\ \A w \in told'[r] : ~Beats(w, row'[r])
      BY <2>0, <2>1, NoneUnknown DEF ReplayIInv, RowIsGreatest
    <3>4. Register!GreatestOf(row'[r], told'[r])
      <4>1. ASSUME NEW a, NEW b, ~Beats(a, b) PROVE ~Register!Beats(a, b)
        BY <4>1 DEF Beats, Before, ReadingBefore, Digest, Register!Beats, Register!Before,
           Register!ReadingBefore, Register!Digest
      <4> QED BY <3>3, <4>1 DEF Register!GreatestOf
    <3> QED BY <3>2, <3>4 DEF Register!Hear
  <2>2. ASSUME NEW r \in Replicas, NEW wall \in 0 .. MaxWall, NEW v \in Written, Edit(r, v, wall)
        PROVE  Register!Hear(r)
    <3> DEFINE w == Restamped(v, StampBy(r, NowAt(clock[r], wall)))
    <3>1. row' = [row EXCEPT ![r] = w] /\ told' = [told EXCEPT ![r] = @ \cup {w}]
      BY <2>2 DEF Edit, Stamped, Restamped
    <3>2. w \in Version
      <4>1. clock[r] \in Reading /\ wall \in Nat /\ r \in 1 .. MaxDevice
        BY Accepted, HlcAssumption, ReplayAssumption
      <4>2. Encodable(NowAt(clock[r], wall)) /\ v \in Version
        BY <2>2, WrittenVersions DEF Edit, Stamped
      <4> QED BY <4>1, <4>2, NowAtAdvances, StampedVersion
    <3>3. row'[r] = w
      BY <3>1 DEF ReplayIInv, TypeOK
    <3> HIDE DEF w
    <3>4. Known(row'[r])
      BY <3>2, <3>3, VersionParts
    <3> QED BY <2>1, <3>1, <3>4
  <2>3. ASSUME NEW r \in Replicas, NEW wall \in 0 .. MaxWall, NEW line \in lines, Merge(r, line, wall)
        PROVE  Register!Hear(r)
    <3>1. /\ Known(row'[r])
          /\ \E T : told' = [told EXCEPT ![r] = @ \cup T]
          /\ \E v : row' = [row EXCEPT ![r] = v]
      BY <2>0, <2>3, MergeKeepsGreatest
    <3> QED BY <2>1, <3>1
  <2> QED BY <2>2, <2>3 DEF Next, Publish, HandEdit, vars, Register!Next
<1> QED BY <1>1, <1>2, ReplayInvariant, PTL DEF Spec, IsRegister, Register!Spec
=============================================================================
