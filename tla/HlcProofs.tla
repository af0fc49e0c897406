------------------------------ MODULE HlcProofs ------------------------------
(***************************************************************************)
(* What the order of stamps and the clock's operations promise, for every  *)
(* width of the encoding and every drift.                                  *)
(***************************************************************************)
EXTENDS Hlc, WellFoundedInduction, TLAPS

----------------------------------------------------------------------------
(* The order.                                                              *)

\* No stamp is before itself.
LEMMA BeforeIrreflexive == \A s \in Stamp : ~Before(s, s)
  BY HlcAssumption DEF Before, ReadingBefore, Stamp

\* The order of stamps is transitive.
LEMMA BeforeTransitive ==
    ASSUME NEW s \in Stamp, NEW t \in Stamp, NEW u \in Stamp,
           Before(s, t), Before(t, u)
    PROVE  Before(s, u)
  BY HlcAssumption DEF Before, ReadingBefore, Stamp

\* Two stamps are equal, or one is before the other: a comparison always has
\* an answer, and the same one on every device.
LEMMA BeforeTotal ==
    ASSUME NEW s \in Stamp, NEW t \in Stamp
    PROVE  Before(s, t) \/ s = t \/ Before(t, s)
<1>1. CASE s.millis = t.millis /\ s.counter = t.counter /\ s.device = t.device
  BY <1>1 DEF Stamp
<1>2. CASE ~(s.millis = t.millis /\ s.counter = t.counter /\ s.device = t.device)
  BY <1>2, HlcAssumption DEF Before, ReadingBefore, Stamp
<1> QED BY <1>1, <1>2

\* "At most" is transitive.
LEMMA AtMostTransitive ==
    ASSUME NEW s \in Stamp, NEW t \in Stamp, NEW u \in Stamp,
           AtMost(s, t), AtMost(t, u)
    PROVE  AtMost(s, u)
  BY BeforeTransitive DEF AtMost

\* No stamp at all is a stamp, and the least of them.
LEMMA BlankLeast ==
    /\ Blank \in Stamp
    /\ \A s \in Stamp : AtMost(Blank, s)
<1>1. Blank \in Stamp
  BY HlcAssumption DEF Blank, Stamp
<1>2. ASSUME NEW s \in Stamp PROVE ~Before(s, Blank)
  BY HlcAssumption DEF Blank, Before, ReadingBefore, Stamp
<1> QED BY <1>1, <1>2, BeforeTotal DEF AtMost

----------------------------------------------------------------------------
(* The greatest stored stamp.                                              *)

\* A set of naturals with a member has a least one.
LEMMA LeastNatural ==
    ASSUME NEW T, T \subseteq Nat, T # {}
    PROVE  \E m \in T : \A k \in T : m <= k
<1>1. PICK m \in T : \A k \in T : ~(<<k, m>> \in OpToRel(<, Nat))
  BY NatLessThanWellFounded, WFMin, Zenon
<1>2. \A k \in T : ~(k < m)
  BY <1>1 DEF OpToRel
<1> QED BY <1>2

\* A set of naturals with a member and a bound has a greatest one.
LEMMA GreatestNatural ==
    ASSUME NEW b \in Nat, NEW T, T \subseteq 0 .. b, T # {}
    PROVE  \E m \in T : \A k \in T : k <= m
<1> DEFINE U == {b - k : k \in T}
<1>1. U \subseteq Nat
  <2>1. \A k \in T : b - k \in Nat
    OBVIOUS
  <2> QED BY <2>1
<1>2. U # {}
  OBVIOUS
<1>3. PICK u \in U : \A k \in U : u <= k
  <2> HIDE DEF U
  <2> QED BY <1>1, <1>2, LeastNatural
<1>4. PICK m \in T : u = b - m
  OBVIOUS
<1>5. ASSUME NEW k \in T PROVE k <= m
  <2>1. u <= b - k
    BY <1>3
  <2>2. k \in 0 .. b /\ m \in 0 .. b
    OBVIOUS
  <2> QED BY <2>1, <2>2, <1>4
<1> QED BY <1>5

\* Any stamps at all have a greatest one, however many are stored.
LEMMA GreatestExists ==
    ASSUME NEW S, S \subseteq Stamp, S # {}
    PROVE  /\ Greatest(S) \in S
           /\ \A t \in S : AtMost(t, Greatest(S))
<1> DEFINE M == {s.millis : s \in S}
<1>1. PICK m \in M : \A k \in M : k <= m
  <2>1. M \subseteq 0 .. MaxMillis /\ M # {}
    BY DEF Stamp
  <2> QED BY <2>1, HlcAssumption, GreatestNatural
<1> DEFINE A == {s \in S : s.millis = m}
           C == {s.counter : s \in A}
<1>2. PICK c \in C : \A k \in C : k <= c
  <2>1. C \subseteq 0 .. MaxCounter /\ C # {}
    BY DEF Stamp
  <2> QED BY <2>1, HlcAssumption, GreatestNatural
<1> DEFINE B == {s \in A : s.counter = c}
           D == {s.device : s \in B}
<1>3. PICK d \in D : \A k \in D : k <= d
  <2>1. D \subseteq 0 .. MaxDevice /\ D # {}
    BY DEF Stamp
  <2> QED BY <2>1, HlcAssumption, GreatestNatural
<1>4. PICK g \in B : g.device = d
  OBVIOUS
<1>5. ASSUME NEW t \in S PROVE AtMost(t, g)
  <2>1. t.millis <= m
    BY <1>1
  <2>2. t.millis = m => t.counter <= c
    BY <1>2
  <2>3. t.millis = m /\ t.counter = c => t.device <= d
    BY <1>3
  <2>4. g \in Stamp /\ t \in Stamp /\ g.millis = m /\ g.counter = c
    OBVIOUS
  <2>5. ~Before(g, t)
    BY <2>1, <2>2, <2>3, <2>4, <1>4, HlcAssumption DEF Before, ReadingBefore, Stamp
  <2> QED BY <2>4, <2>5, BeforeTotal DEF AtMost
<1>6. \E s \in S : \A t \in S : AtMost(t, s)
  BY <1>5
<1> QED BY <1>6 DEF Greatest

----------------------------------------------------------------------------
(* The clock.                                                              *)

\* The clock issues readings, and each is later than all before: an edit on a
\* wall clock that stands still or goes back included.
LEMMA NowAtAdvances ==
    ASSUME NEW clock \in Reading, NEW wall \in Nat
    PROVE  /\ NowAt(clock, wall) \in Reading
           /\ ReadingBefore(clock, NowAt(clock, wall))
  BY HlcAssumption DEF NowAt, ReadingBefore, Reading

\* Listening to a stamp never turns the clock back, and leaves it at the stamp
\* or above.
LEMMA ObserveCovers ==
    ASSUME NEW clock \in Reading, NEW s \in Stamp
    PROVE  /\ Observe(clock, s) \in Reading
           /\ ~ReadingBefore(Observe(clock, s), clock)
           /\ ~ReadingBefore(Observe(clock, s), s)
  BY HlcAssumption DEF Observe, ReadingOf, ReadingBefore, Reading, Stamp

\* The same of an arriving line, which is only listened to when it is believed.
LEMMA ArrivalCovers ==
    ASSUME NEW clock \in Reading, NEW s \in Stamp, NEW wall \in Nat
    PROVE  /\ ObserveArrival(clock, s, wall) \in Reading
           /\ ~ReadingBefore(ObserveArrival(clock, s, wall), clock)
           /\ ~BeyondDrift(s, wall) => ~ReadingBefore(ObserveArrival(clock, s, wall), s)
<1>1. s = Blank => ~ReadingBefore(clock, s)
  BY HlcAssumption DEF Blank, ReadingBefore, Reading
<1>2. ~ReadingBefore(clock, clock)
  BY HlcAssumption DEF ReadingBefore, Reading
<1> QED BY <1>1, <1>2, ObserveCovers DEF ObserveArrival

\* Where a clock stands at or above a reading, a later clock does too.
LEMMA CoverageKept ==
    ASSUME NEW c \in Reading, NEW e \in Reading, NEW s \in Stamp,
           ~ReadingBefore(c, s), ~ReadingBefore(e, c)
    PROVE  ~ReadingBefore(e, s)
  BY HlcAssumption DEF ReadingBefore, Reading, Stamp
=============================================================================
