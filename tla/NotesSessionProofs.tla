------------------------- MODULE NotesSessionProofs -------------------------
(***************************************************************************)
(* Five things about a session, whatever is typed, undone, redone, merged  *)
(* and rebuilt, in any order and with any number of watch threads, and     *)
(* three more for one watch thread that takes turns with the rebuild.      *)
(*                                                                         *)
(* The floor is a position in the undo stack, and the two stacks share one *)
(* limit.  The argument counts; what the entries hold does not matter, so  *)
(* a stack is a sequence over some set or other.                           *)
(*                                                                         *)
(* What a commit did ends the entry on top of the stack.  For that an      *)
(* entry is two lists, of whatever mutations: it joins another by putting  *)
(* its list behind.                                                        *)
(*                                                                         *)
(* A request is applied once.  The record of answers is bounded and is not *)
(* what the argument rests on: a request is applied at the revision it was *)
(* sent with, and the stored revision never comes back to it.              *)
(*                                                                         *)
(* While a merge or a rebuild has news to tell, the session is behind and  *)
(* can commit nothing; so when nobody else writes, the revision the news   *)
(* was read at is still the stored one when the session hears of it.       *)
(*                                                                         *)
(* The state has its type: an entry is drawn up as the difference of two   *)
(* tables, and a transaction makes a table of a table.                     *)
(*                                                                         *)
(* The two stacks are one tale: the undo stack, and on it the redo stack   *)
(* from its top down.  An undo or a redo moves the line between what is    *)
(* done and what is not; the tale stays.  It is true when of any row the   *)
(* later of two entries found what the earlier left, the last one done     *)
(* left what the table holds and the first one undone found it.  A commit  *)
(* writes on, a merge with news puts the entries it names out of reach,    *)
(* and what is in reach of a true tale goes through and is the session's   *)
(* own work.  A loop over a list of mutations is a function of how far it  *)
(* is, and what holds all along has no first place where it fails.         *)
(***************************************************************************)
EXTENDS NotesSession, FiniteSetTheorems, SequenceTheorems, WellFoundedInduction, TLAPS

Stack(s) == \E S : s \in Seq(S)

Counted ==
    /\ Stack(undo) /\ Stack(redo)
    /\ floor \in Nat
    /\ HistoryWithinLimits

-----------------------------------------------------------------------------
(* Lemmas about stacks.                                                    *)

\* A push makes a stack one longer.
LEMMA Pushed ==
    ASSUME NEW s, NEW e, Stack(s)
    PROVE  Stack(Append(s, e)) /\ Len(Append(s, e)) = Len(s) + 1 /\ Len(s) \in Nat
<1>1. PICK S : s \in Seq(S)
  BY DEF Stack
<1>2. s \in Seq(S \cup {e})
  BY <1>1
<1>3. Append(s, e) \in Seq(S \cup {e}) /\ Len(Append(s, e)) = Len(s) + 1 /\ Len(s) \in Nat
  BY <1>2
<1>4. QED
  BY <1>3 DEF Stack

\* A pop makes a stack that is not empty one shorter.
LEMMA Popped ==
    ASSUME NEW s, Stack(s), s # <<>>
    PROVE  Stack(Front(s)) /\ Len(Front(s)) = Len(s) - 1 /\ Len(s) \in Nat \ {0}
<1>1. PICK S : s \in Seq(S)
  BY DEF Stack
<1>2. Len(s) \in Nat \ {0}
  BY <1>1
<1>3. PICK n \in Nat : n = Len(s) - 1
  BY <1>2
<1>4. Front(s) = SubSeq(s, 1, n)
  BY <1>3 DEF Front
<1>5. SubSeq(s, 1, n) \in Seq(S) /\ Len(SubSeq(s, 1, n)) = n
  BY <1>1, <1>2, <1>3
<1>6. QED
  BY <1>2, <1>3, <1>4, <1>5 DEF Stack

\* A push that keeps to the limit drops the oldest entry when it goes over it.
LEMMA Kept ==
    ASSUME NEW s, NEW e, Stack(s)
    PROVE  LET t == Bounded(Append(s, e))
           IN /\ Stack(t)
              /\ Len(t) = IF Len(s) + 1 > MaxHistory THEN Len(s) ELSE Len(s) + 1
<1> DEFINE u == Append(s, e)
<1>1. Stack(u) /\ Len(u) = Len(s) + 1 /\ Len(s) \in Nat
  BY Pushed
<1>2. PICK S : u \in Seq(S)
  BY <1>1 DEF Stack
<1>3. u # <<>>
  BY <1>1
<1> HIDE DEF u
<1>4. Tail(u) \in Seq(S) /\ Len(Tail(u)) = Len(s)
  BY <1>1, <1>2, <1>3
<1>5. /\ Stack(Bounded(u))
      /\ Len(Bounded(u)) = IF Len(s) + 1 > MaxHistory THEN Len(s) ELSE Len(s) + 1
  BY <1>1, <1>4, SessionAssumption DEF Bounded, Stack
<1>6. QED
  BY <1>5 DEF u

\* The empty stack.
LEMMA Emptied == Stack(<<>>) /\ Len(<<>>) = 0
<1>1. <<>> \in Seq({}) /\ Len(<<>>) = 0
  OBVIOUS
<1>2. QED
  BY <1>1 DEF Stack

-----------------------------------------------------------------------------
(* The steps that move the stacks.                                         *)

\* service.rs:70: an entry joins the last one or is pushed, the floor moving
\* down when the oldest is dropped; there is nothing to redo after it.
LEMMA RecordHistoryCounted ==
    ASSUME Counted, NEW e, RecordHistory(e)
    PROVE  Counted'
<1> USE DEF Counted, HistoryWithinLimits
<1>1. redo' = <<>> /\ Stack(redo') /\ Len(redo') = 0
  BY Emptied DEF RecordHistory
<1>2. Len(undo) \in Nat /\ Len(redo) \in Nat
  BY Pushed
<1>3. CASE Joins(e)
  <2>1. undo # <<>>
    BY <1>2, <1>3, Emptied DEF Joins
  <2>2. undo' = Append(Front(undo), Joined(Last(undo), e)) /\ floor' = floor
    BY <1>3 DEF RecordHistory
  <2>3. Stack(undo') /\ Len(undo') = Len(undo)
    BY <2>1, <2>2, Popped, Pushed
  <2>4. QED
    BY <1>1, <1>2, <2>2, <2>3, SessionAssumption
<1>4. CASE ~Joins(e)
  <2>1. undo' = Bounded(Append(undo, e))
    BY <1>4 DEF RecordHistory
  <2>2. floor' = IF Len(undo) + 1 > MaxHistory /\ floor > 0 THEN floor - 1 ELSE floor
    BY <1>4 DEF RecordHistory
  <2>3. /\ Stack(undo')
        /\ Len(undo') = IF Len(undo) + 1 > MaxHistory THEN Len(undo) ELSE Len(undo) + 1
    BY <2>1, Kept
  <2>4. QED
    BY <1>1, <1>2, <2>2, <2>3, SessionAssumption
<1>5. QED
  BY <1>3, <1>4

\* service.rs:464: an undo takes one entry from the one stack to the other.
LEMMA UndoCounted ==
    ASSUME Counted, Undo
    PROVE  Counted'
<1> USE DEF Counted, HistoryWithinLimits
<1>1. /\ Len(undo) > floor /\ floor' = floor
      /\ undo' = Front(undo) /\ redo' = Bounded(Append(redo, Last(undo)))
  BY DEF Undo, Undoable
<1>2. Len(undo) \in Nat /\ Len(redo) \in Nat
  BY Pushed
<1>3. undo # <<>>
  BY <1>1, <1>2, Emptied
<1>4. Stack(undo') /\ Len(undo') = Len(undo) - 1
  BY <1>1, <1>3, Popped
<1>5. /\ Stack(redo')
      /\ Len(redo') = IF Len(redo) + 1 > MaxHistory THEN Len(redo) ELSE Len(redo) + 1
  BY <1>1, Kept
<1>6. QED
  BY <1>1, <1>2, <1>4, <1>5, SessionAssumption

\* service.rs:496: a redo takes it back, and never drops an entry for it.
LEMMA RedoCounted ==
    ASSUME Counted, Redo
    PROVE  Counted' /\ undo' = Append(undo, Last(redo))
<1> USE DEF Counted, HistoryWithinLimits
<1>1. /\ redo # <<>> /\ floor' = floor
      /\ redo' = Front(redo) /\ undo' = Bounded(Append(undo, Last(redo)))
  BY DEF Redo
<1>2. Len(undo) \in Nat /\ Len(redo) \in Nat
  BY Pushed
<1>3. Stack(redo') /\ Len(redo') = Len(redo) - 1 /\ Len(redo) > 0
  BY <1>1, <1>2, Popped
<1>4. Len(undo) + 1 <= MaxHistory
  BY <1>2, <1>3, SessionAssumption
<1>5. undo' = Append(undo, Last(redo))
  BY <1>1, <1>2, <1>4, Pushed, SessionAssumption DEF Bounded
<1>6. Stack(undo') /\ Len(undo') = Len(undo) + 1
  BY <1>5, Pushed
<1>7. QED
  BY <1>1, <1>2, <1>3, <1>5, <1>6, SessionAssumption

\* service.rs:525: a merge raises the floor within the stack.
LEMMA AbsorbCounted ==
    ASSUME Counted, NEW w \in Watchers, AbsorbExternal(w)
    PROVE  Counted'
<1> USE DEF Counted, HistoryWithinLimits
<1>1. undo' = undo /\ floor' \in floor .. Len(undo)
  BY DEF AbsorbExternal
<1>2. Len(undo) \in Nat /\ Len(redo) \in Nat
  BY Pushed
<1>3. redo' = redo \/ redo' = <<>>
  BY DEF AbsorbExternal, Redoable
<1>4. Stack(redo') /\ Len(redo') <= Len(redo)
  BY <1>2, <1>3, Emptied
<1>5. QED
  BY <1>1, <1>2, <1>4, SessionAssumption

-----------------------------------------------------------------------------
(* The theorems.                                                           *)

\* The session starts with nothing to undo.
LEMMA CountedInitially == Init => Counted
BY Emptied, SessionAssumption DEF Init, Counted, HistoryWithinLimits

\* Only a commit, an undo, a redo, a merge's news and a rebuild's move the stacks.
LEMMA CountedAlways ==
    ASSUME Counted, [Next]_vars
    PROVE  Counted'
<1>1. CASE Finish
  <2>1. CASE RefusePlan
    BY <2>1 DEF RefusePlan, session, Counted, HistoryWithinLimits
  <2>2. CASE CommitPlan
    <3>1. \/ UNCHANGED <<floor, undo, redo>>
          \/ \E e : RecordHistory(e)
      BY <2>2 DEF CommitPlan
    <3>2. CASE UNCHANGED <<floor, undo, redo>>
      BY <3>2 DEF Counted, HistoryWithinLimits
    <3>3. CASE \E e : RecordHistory(e)
      BY <3>3, RecordHistoryCounted
    <3>4. QED
      BY <3>1, <3>2, <3>3
  <2>3. QED
    BY <1>1, <2>1, <2>2 DEF Finish
<1>2. CASE Undo
  BY <1>2, UndoCounted
<1>3. CASE Redo
  BY <1>3, RedoCounted
<1>4. ASSUME NEW w \in Watchers, AbsorbExternal(w)
      PROVE  Counted'
  BY <1>4, AbsorbCounted
<1>5. CASE ResetSession
  BY <1>5, Emptied, SessionAssumption DEF ResetSession, Counted, HistoryWithinLimits
<1>6. CASE UNCHANGED <<floor, undo, redo>>
  BY <1>6 DEF Counted, HistoryWithinLimits
<1>7. CASE Next
  <2>1. CASE \E q \in Requests : Execute(q)
    BY <1>6, <2>1 DEF Execute, session
  <2>2. CASE \E x \in Rows : RestoreConflict(x)
    BY <1>6, <2>2 DEF RestoreConflict, session
  <2>3. CASE Export
    BY <1>6, <2>3 DEF Export, session
  <2>4. ASSUME NEW w \in Watchers, Watch(w)
        PROVE  Counted'
    <3>1. CASE MergeLine(w)
      BY <1>6, <3>1 DEF MergeLine, Merged, session
    <3>2. CASE MergePlace(w)
      BY <1>6, <3>2 DEF MergePlace, Merged, session
    <3>3. CASE MergePicture(w)
      BY <1>6, <3>3 DEF MergePicture, Merged, session
    <3>4. CASE ReadRevision(w)
      BY <1>6, <3>4 DEF ReadRevision, session
    <3>5. QED
      BY <1>4, <2>4, <3>1, <3>2, <3>3, <3>4 DEF Watch
  <2>5. CASE Rebuild
    BY <1>5, <1>6, <2>5 DEF Rebuild, RebuildFromVault, RebuildReadRevision, session
  <2>6. QED
    BY <1>1, <1>2, <1>3, <1>7, <2>1, <2>2, <2>3, <2>4, <2>5 DEF Next, Use
<1>8. CASE UNCHANGED vars
  BY <1>6, <1>8 DEF vars, session
<1>9. QED
  BY <1>7, <1>8

\* service.rs:94 and :511: the floor never passes the top of the undo stack, and
\* the two stacks hold no more than the limit between them.
THEOREM HistoryIsWithinLimits == Spec => []HistoryWithinLimits
<1>1. Counted => HistoryWithinLimits
  BY DEF Counted
<1>2. QED
  BY <1>1, CountedInitially, CountedAlways, PTL DEF Spec

\* service.rs:511: a redo pushes its entry onto the undo stack and drops none,
\* which is why it may leave the floor where it is.
THEOREM RedoDropsNothing ==
    Spec => [][Redo => undo' = Append(undo, Last(redo))]_vars
<1>1. Counted /\ [Next]_vars => [Redo => undo' = Append(undo, Last(redo))]_vars
  BY RedoCounted
<1>2. QED
  BY <1>1, CountedInitially, CountedAlways, PTL DEF Spec
-----------------------------------------------------------------------------
(* What the entries hold.                                                  *)

\* An entry is two lists of mutations under a group.
Patch(e) == \E S, g : e \in [forward : Seq(S), inverse : Seq(S), group : {g}]

\* Every entry of a stack is one.
Patches(s) == \A i \in 1 .. Len(s) : Patch(s[i])

\* What is about to be committed is two lists.
Planning == plan.busy => Stack(plan.forward) /\ Stack(plan.inverse)

Recorded == Counted /\ Patches(undo) /\ Patches(redo) /\ Planning

\* A difference of two tables is a sequence.
LEMMA Differs ==
    ASSUME NEW from, NEW to
    PROVE  Stack(Diff(from, to))
<1> DEFINE changed == {x \in Rows : from[x] # to[x]}
           Nth(i) == CHOOSE x \in changed : Cardinality({y \in changed : y < x}) = i - 1
           n == Cardinality(changed)
           d == [i \in 1 .. n |-> [id |-> Nth(i), row |-> to[Nth(i)]]]
<1>1. n \in Nat
  BY FS_Subset, FS_CardinalityType, FamilyAssumption
<1>2. Diff(from, to) = d
  BY DEF Diff
<1> HIDE DEF n, Nth
<1>3. d \in [1 .. n -> {d[i] : i \in 1 .. n}]
  OBVIOUS
<1>4. d \in Seq({d[i] : i \in 1 .. n})
  BY <1>1, <1>3
<1>5. QED
  BY <1>2, <1>4 DEF Stack

\* What is put at the end of a sequence ends it.
LEMMA EndsWith ==
    ASSUME NEW S, NEW s \in Seq(S), NEW t \in Seq(S)
    PROVE  IsSuffix(t, s \o t) /\ IsSuffix(t, t)
<1>1. ASSUME NEW u \in Seq(S), Len(t) <= Len(u),
             \A i \in 1 .. Len(t) : Reverse(t)[i] = Reverse(u)[i]
      PROVE  IsSuffix(t, u)
  <2>1. Len(Reverse(t)) = Len(t) /\ Len(Reverse(u)) = Len(u)
        /\ Reverse(t) \in Seq(S) /\ Reverse(u) \in Seq(S)
    BY DEF Reverse
  <2> DEFINE rt == Reverse(t)
             ru == Reverse(u)
  <2> HIDE DEF rt, ru
  <2>2. SubSeq(rt, 1, Len(rt)) = SubSeq(ru, 1, Len(rt))
    <3>1. rt \in Seq(S) /\ ru \in Seq(S) /\ Len(rt) <= Len(ru) /\ Len(rt) \in Nat /\ Len(ru) \in Nat
      BY <1>1, <2>1 DEF rt, ru
    <3>2. \A i \in 1 .. Len(rt) : rt[i] = ru[i]
      BY <1>1, <2>1 DEF rt, ru
    <3>3. QED
      BY <3>1, <3>2
  <2>3. QED
    BY <1>1, <2>1, <2>2 DEF IsSuffix, IsPrefix, rt, ru
<1>2. \A i \in 1 .. Len(t) : Reverse(t)[i] = Reverse(s \o t)[i]
  BY DEF Reverse
<1>3. s \o t \in Seq(S) /\ Len(t) <= Len(s \o t)
  OBVIOUS
<1>4. IsSuffix(t, s \o t)
  BY <1>1, <1>2, <1>3
<1>5. IsSuffix(t, t)
  BY <1>1
<1>6. QED
  BY <1>4, <1>5

\* Two lists and a group are an entry.
LEMMA Entered ==
    ASSUME NEW f, NEW v, NEW g, Stack(f), Stack(v)
    PROVE  Patch([forward |-> f, inverse |-> v, group |-> g])
<1>1. PICK S : f \in Seq(S)
  BY DEF Stack
<1>2. PICK T : v \in Seq(T)
  BY DEF Stack
<1>3. f \in Seq(S \cup T) /\ v \in Seq(S \cup T)
  BY <1>1, <1>2
<1>4. [forward |-> f, inverse |-> v, group |-> g]
          \in [forward : Seq(S \cup T), inverse : Seq(S \cup T), group : {g}]
  BY <1>3
<1>5. QED
  BY <1>4 DEF Patch

\* An entry joined by another is an entry, and ends with what the other did.
LEMMA JoinedEnds ==
    ASSUME NEW a, NEW e, Patch(a), Patch(e)
    PROVE  /\ Patch(Joined(a, e))
           /\ IsSuffix(e.forward, Joined(a, e).forward)
<1>1. PICK S, g : a \in [forward : Seq(S), inverse : Seq(S), group : {g}]
  BY DEF Patch
<1>2. PICK T, h : e \in [forward : Seq(T), inverse : Seq(T), group : {h}]
  BY DEF Patch
<1> DEFINE U == S \cup T
<1>3. /\ a.forward \in Seq(U) /\ a.inverse \in Seq(U)
      /\ e.forward \in Seq(U) /\ e.inverse \in Seq(U)
  BY <1>1, <1>2
<1> HIDE DEF U
<1>4. Joined(a, e) = [forward |-> a.forward \o e.forward,
                      inverse |-> e.inverse \o a.inverse, group |-> a.group]
  BY DEF Joined
<1>5. a.forward \o e.forward \in Seq(U) /\ e.inverse \o a.inverse \in Seq(U)
  BY <1>3
<1>6. Patch(Joined(a, e))
  BY <1>4, <1>5, Entered DEF Stack
<1>7. IsSuffix(e.forward, Joined(a, e).forward)
  BY <1>3, <1>4, EndsWith
<1>8. QED
  BY <1>6, <1>7

\* A stack of entries that one is pushed on has it at its end.
LEMMA PushedEnds ==
    ASSUME NEW s, NEW e, Stack(s), Patches(s), Patch(e)
    PROVE  Patches(Append(s, e)) /\ Last(Append(s, e)) = e
<1>1. PICK S : s \in Seq(S)
  BY DEF Stack
<1>2. s \in Seq(S \cup {e}) /\ e \in S \cup {e}
  BY <1>1
<1>3. /\ Len(Append(s, e)) = Len(s) + 1 /\ Len(s) \in Nat
      /\ \A i \in 1 .. Len(s) : Append(s, e)[i] = s[i]
      /\ Append(s, e)[Len(s) + 1] = e
  BY <1>2, AppendProperties
<1>4. QED
  BY <1>3 DEF Patches, Last

\* A stack of entries without its last is one.
LEMMA PoppedEntries ==
    ASSUME NEW s, Stack(s), Patches(s), s # <<>>
    PROVE  Patches(Front(s)) /\ Patch(Last(s))
<1>1. PICK S : s \in Seq(S)
  BY DEF Stack
<1>2. Len(s) \in Nat \ {0}
  BY <1>1
<1>3. PICK n \in Nat : n = Len(s) - 1
  BY <1>2
<1>4. Front(s) = SubSeq(s, 1, n)
  BY <1>3 DEF Front
<1>5. /\ Len(SubSeq(s, 1, n)) = n
      /\ \A i \in 1 .. n : SubSeq(s, 1, n)[i] = s[i]
  BY <1>1, <1>2, <1>3
<1>6. QED
  BY <1>2, <1>3, <1>4, <1>5 DEF Patches, Last

\* A push that keeps to the limit keeps what it pushes.
LEMMA KeptEnds ==
    ASSUME NEW s, NEW e, Stack(s), Patches(s), Patch(e)
    PROVE  LET t == Bounded(Append(s, e)) IN Patches(t) /\ Last(t) = e
<1> DEFINE u == Append(s, e)
<1>1. Stack(u) /\ Len(u) = Len(s) + 1 /\ Len(s) \in Nat /\ Patches(u) /\ Last(u) = e
  BY Pushed, PushedEnds
<1>2. PICK S : u \in Seq(S)
  BY <1>1 DEF Stack
<1> HIDE DEF u
<1>3. u # <<>>
  BY <1>1, <1>2
<1>4. CASE Len(u) > MaxHistory
  <2>1. /\ Len(Tail(u)) = Len(s)
        /\ \A i \in 1 .. Len(s) : Tail(u)[i] = u[i + 1]
    BY <1>1, <1>2, <1>3, HeadTailProperties
  <2>2. Len(s) > 0
    BY <1>1, <1>4, SessionAssumption
  <2>3. Patches(Tail(u)) /\ Last(Tail(u)) = e
    BY <1>1, <2>1, <2>2 DEF Patches, Last
  <2>4. QED
    BY <1>4, <2>3 DEF Bounded, u
<1>5. CASE ~(Len(u) > MaxHistory)
  BY <1>1, <1>5 DEF Bounded, u
<1>6. QED
  BY <1>4, <1>5

\* service.rs:70: what was done last ends the entry on top, within reach.
LEMMA RecordHistoryEnds ==
    ASSUME Counted, Patches(undo), NEW e, Patch(e), RecordHistory(e)
    PROVE  /\ Patches(undo') /\ Patches(redo')
           /\ Len(undo') > floor'
           /\ IsSuffix(e.forward, Last(undo').forward)
<1> USE DEF Counted, HistoryWithinLimits
<1>1. Patches(redo')
  BY Emptied DEF RecordHistory, Patches
<1>2. Len(undo) \in Nat /\ Len(redo) \in Nat
  BY Pushed
<1>3. CASE Joins(e)
  <2>1. undo # <<>> /\ Len(undo) > floor
    BY <1>2, <1>3, Emptied DEF Joins
  <2>2. undo' = Append(Front(undo), Joined(Last(undo), e)) /\ floor' = floor
    BY <1>3 DEF RecordHistory
  <2>3. Stack(Front(undo)) /\ Patches(Front(undo)) /\ Patch(Last(undo))
    BY <2>1, Popped, PoppedEntries
  <2>4. Patch(Joined(Last(undo), e)) /\ IsSuffix(e.forward, Joined(Last(undo), e).forward)
    BY <2>3, JoinedEnds
  <2>5. Patches(undo') /\ Last(undo') = Joined(Last(undo), e)
    BY <2>2, <2>3, <2>4, PushedEnds
  <2>6. Len(undo') = Len(undo)
    BY <1>2, <2>1, <2>2, Popped, Pushed
  <2>7. QED
    BY <1>1, <2>1, <2>2, <2>4, <2>5, <2>6
<1>4. CASE ~Joins(e)
  <2>1. /\ undo' = Bounded(Append(undo, e))
        /\ floor' = IF Len(undo) + 1 > MaxHistory /\ floor > 0 THEN floor - 1 ELSE floor
    BY <1>4 DEF RecordHistory
  <2>2. Len(undo') = IF Len(undo) + 1 > MaxHistory THEN Len(undo) ELSE Len(undo) + 1
    BY <2>1, Kept
  <2>3. Patches(undo') /\ Last(undo') = e
    BY <2>1, KeptEnds
  <2>4. IsSuffix(e.forward, e.forward)
    BY EndsWith DEF Patch
  <2>5. Len(undo') > floor'
    BY <1>2, <2>1, <2>2, SessionAssumption
  <2>6. QED
    BY <1>1, <2>3, <2>4, <2>5
<1>5. QED
  BY <1>3, <1>4

\* A plan is two differences.
LEMMA PlansRecorded ==
    ASSUME Recorded, NEW id, NEW g, NEW table, Plan(id, g, table), UNCHANGED session
    PROVE  Recorded'
<1>1. Planning'
  BY Differs DEF Plan, Planning
<1>2. QED
  BY <1>1 DEF Recorded, session, Counted, HistoryWithinLimits

\* service.rs:243: a command's commit leaves what it did ready to be taken back.
LEMMA FinishRecorded ==
    ASSUME Recorded, Finish
    PROVE  /\ Recorded'
           /\ revision' # revision /\ plan.forward # <<>> =>
                 Len(undo') > floor' /\ IsSuffix(plan.forward, Last(undo').forward)
<1>1. Counted'
  BY CountedAlways DEF Finish, Next, Use, Recorded
<1>2. plan' = NoPlan /\ plan.busy
  BY DEF Finish
<1>3. Planning'
  BY <1>2 DEF Planning, NoPlan
<1>4. CASE RefusePlan
  BY <1>1, <1>3, <1>4 DEF RefusePlan, stored, session, Recorded
<1>5. CASE CommitPlan
  <2> DEFINE e == [forward |-> plan.forward, inverse |-> plan.inverse, group |-> plan.group]
  <2>1. Patch(e) /\ e.forward = plan.forward
    BY <1>2, Entered DEF Recorded, Planning
  <2>2. \/ e.forward = <<>> /\ UNCHANGED <<floor, undo, redo>>
        \/ e.forward # <<>> /\ RecordHistory(e)
    BY <1>5 DEF CommitPlan
  <2> HIDE DEF e
  <2>3. CASE e.forward = <<>> /\ UNCHANGED <<floor, undo, redo>>
    BY <1>1, <1>3, <2>1, <2>3 DEF Recorded
  <2>4. CASE e.forward # <<>> /\ RecordHistory(e)
    BY <1>1, <1>3, <2>1, <2>4, RecordHistoryEnds DEF Recorded
  <2>5. QED
    BY <2>2, <2>3, <2>4
<1>6. QED
  BY <1>4, <1>5 DEF Finish

\* Every step keeps the stacks stacks of entries.
LEMMA RecordedAlways ==
    ASSUME Recorded, [Next]_vars
    PROVE  Recorded'
<1>1. Counted'
  BY CountedAlways DEF Recorded
<1>2. ASSUME UNCHANGED <<undo, redo, plan>>
      PROVE  Recorded'
  BY <1>1, <1>2 DEF Recorded, Planning
<1>3. CASE Next
  <2>1. ASSUME NEW q \in Requests, Execute(q)
        PROVE  Recorded'
    BY <2>1, PlansRecorded DEF Execute
  <2>2. ASSUME NEW x \in Rows, RestoreConflict(x)
        PROVE  Recorded'
    BY <2>2, PlansRecorded DEF RestoreConflict
  <2>3. CASE Finish
    BY <2>3, FinishRecorded
  <2>4. CASE Undo
    <3>1. /\ undo # <<>> /\ plan' = plan
          /\ undo' = Front(undo) /\ redo' = Bounded(Append(redo, Last(undo)))
      <4>1. Len(undo) \in Nat /\ Len(undo) > floor /\ floor \in Nat
        BY <2>4, Pushed DEF Undo, Undoable, Recorded, Counted
      <4>2. undo # <<>>
        BY <4>1, Emptied
      <4>3. QED
        BY <2>4, <4>2 DEF Undo
    <3>2. Patches(undo') /\ Patch(Last(undo))
      BY <3>1, PoppedEntries DEF Recorded, Counted
    <3>3. Patches(redo')
      BY <3>1, <3>2, KeptEnds DEF Recorded, Counted
    <3>4. QED
      BY <1>1, <3>1, <3>2, <3>3 DEF Recorded, Planning
  <2>5. CASE Redo
    <3>1. /\ redo # <<>> /\ plan' = plan
          /\ redo' = Front(redo) /\ undo' = Bounded(Append(undo, Last(redo)))
      BY <2>5 DEF Redo
    <3>2. Patches(redo') /\ Patch(Last(redo))
      BY <3>1, PoppedEntries DEF Recorded, Counted
    <3>3. Patches(undo')
      BY <3>1, <3>2, KeptEnds DEF Recorded, Counted
    <3>4. QED
      BY <1>1, <3>1, <3>2, <3>3 DEF Recorded, Planning
  <2>6. CASE Export
    BY <1>2, <2>6 DEF Export, session
  <2>7. ASSUME NEW w \in Watchers, Watch(w)
        PROVE  Recorded'
    <3>1. ASSUME NEW table, NEW affected, Merged(w, table, affected)
          PROVE  Recorded'
      BY <1>2, <3>1 DEF Merged, session
    <3>2. CASE MergeLine(w) \/ MergePlace(w) \/ MergePicture(w)
      BY <3>1, <3>2 DEF MergeLine, MergePlace, MergePicture
    <3>3. CASE ReadRevision(w)
      BY <1>2, <3>3 DEF ReadRevision, session
    <3>4. CASE AbsorbExternal(w)
      <4>1. undo' = undo /\ plan' = plan /\ (redo' = redo \/ redo' = <<>>)
        BY <3>4 DEF AbsorbExternal, Redoable
      <4>2. Patches(<<>>)
        BY Emptied DEF Patches
      <4>3. QED
        BY <1>1, <4>1, <4>2 DEF Recorded, Planning
    <3>5. QED
      BY <2>7, <3>2, <3>3, <3>4 DEF Watch
  <2>8. CASE Rebuild
    <3>1. CASE RebuildFromVault \/ RebuildReadRevision
      BY <1>2, <3>1 DEF RebuildFromVault, RebuildReadRevision, session
    <3>2. CASE ResetSession
      <4>1. undo' = <<>> /\ redo' = <<>> /\ plan' = plan
        BY <3>2 DEF ResetSession
      <4>2. Patches(<<>>)
        BY Emptied DEF Patches
      <4>3. QED
        BY <1>1, <4>1, <4>2 DEF Recorded, Planning
    <3>3. QED
      BY <2>8, <3>1, <3>2 DEF Rebuild
  <2>9. QED
    BY <1>3, <2>1, <2>2, <2>3, <2>4, <2>5, <2>6, <2>7, <2>8 DEF Next, Use
<1>4. CASE UNCHANGED vars
  BY <1>2, <1>4 DEF vars, session
<1>5. QED
  BY <1>3, <1>4

\* service.rs:71: what the user did last is theirs to take back: a commit leaves
\* it at the end of the entry on top of the stack, above the floor, at the limit
\* of the history and whatever was merged before.
THEOREM AlwaysYoursToTakeBack == Spec => YoursToTakeBack
<1>1. Init => Recorded
  <2>1. SUFFICES ASSUME Init PROVE Recorded
    OBVIOUS
  <2>2. Counted
    BY <2>1, CountedInitially
  <2>3. Patches(undo) /\ Patches(redo) /\ Planning
    BY <2>1, Emptied DEF Init, Patches, Planning, NoPlan
  <2>4. QED
    BY <2>2, <2>3 DEF Recorded
<1>2. Recorded /\ [Next]_vars =>
        [Finish /\ revision' # revision /\ plan.forward # <<>> =>
           Len(undo') > floor' /\ IsSuffix(plan.forward, Last(undo').forward)]_vars
  BY FinishRecorded
<1>3. Recorded /\ [Next]_vars => Recorded'
  BY RecordedAlways
<1>4. QED
  BY <1>1, <1>2, <1>3, PTL DEF Spec, YoursToTakeBack

-----------------------------------------------------------------------------
(* Requests.                                                               *)

\* A request that was applied was sent with a revision the storage has left.
Spent ==
    \A q \in Requests : applied[q] # 0 =>
        applied[q] = 1 /\ base[q] \in Nat /\ base[q] < revision

\* The session's lock is held from the load to the commit.
Held == \A q \in Requests : plan.busy /\ plan.id = Asked(q) => base[q] = known

Requested ==
    /\ revision \in Nat
    /\ base = [q \in Requests |-> base[q]]
    /\ applied = [q \in Requests |-> applied[q]]
    /\ Spent
    /\ Held

\* Nothing was sent yet.
LEMMA RequestedInitially == Init => Requested
BY DEF Init, Requested, Spent, Held, NoPlan

\* service.rs:217: a request loads its tree only at its own base revision.
LEMMA ExecuteRequested ==
    ASSUME Requested, NEW q \in Requests, Execute(q)
    PROVE  Requested'
<1>1. /\ plan = NoPlan /\ base[q] \in {Unsent, known}
      /\ base' = [base EXCEPT ![q] = known]
      /\ revision' = revision /\ known' = known /\ applied' = applied
      /\ \E g, table : Plan(Asked(q), g, table)
  BY DEF Execute, UpToDate, stored, session
<1>2. plan'.busy /\ plan'.id = Asked(q)
  BY <1>1 DEF Plan
<1>3. base' = [p \in Requests |-> base'[p]]
  BY <1>1 DEF Requested
<1>4. \A p \in Requests : base'[p] = IF p = q THEN known ELSE base[p]
  BY <1>1 DEF Requested
<1>5. Spent'
  <2>1. SUFFICES ASSUME NEW p \in Requests, applied'[p] # 0
                 PROVE  applied'[p] = 1 /\ base'[p] \in Nat /\ base'[p] < revision'
    BY DEF Spent
  <2>2. applied[p] = 1 /\ base[p] \in Nat /\ base[p] < revision
    BY <1>1, <2>1 DEF Requested, Spent
  <2>3. base'[p] = base[p]
    BY <1>1, <1>4, <2>2 DEF Unsent
  <2>4. QED
    BY <1>1, <2>2, <2>3
<1>6. Held'
  <2>1. SUFFICES ASSUME NEW p \in Requests, plan'.id = Asked(p)
                 PROVE  base'[p] = known'
    BY DEF Held, Asked
  <2>2. p = q
    BY <1>2, <2>1 DEF Asked
  <2>3. QED
    BY <1>1, <1>4, <2>2
<1>7. QED
  BY <1>1, <1>3, <1>5, <1>6 DEF Requested

\* mutations.rs:26: a commit goes through only at the revision it expects, which
\* no commit before it can have left behind.
LEMMA FinishRequested ==
    ASSUME Requested, Finish
    PROVE  Requested'
<1>1. plan.busy /\ base' = base /\ plan' = NoPlan
  BY DEF Finish
<1>2. Held'
  BY <1>1 DEF Held, NoPlan
<1>3. CASE RefusePlan
  BY <1>1, <1>2, <1>3 DEF RefusePlan, stored, Requested, Spent
<1>4. CASE CommitPlan
  <2>1. /\ revision = known /\ revision' = revision + 1
        /\ applied' = [q \in Requests |->
                          IF plan.id = Asked(q) THEN applied[q] + 1 ELSE applied[q]]
    BY <1>4 DEF CommitPlan, Commits, Stores
  <2>2. Spent'
    <3>1. SUFFICES ASSUME NEW q \in Requests, applied'[q] # 0
                   PROVE  applied'[q] = 1 /\ base'[q] \in Nat /\ base'[q] < revision'
      BY DEF Spent
    <3>2. CASE plan.id = Asked(q)
      <4>1. base[q] = revision
        BY <1>1, <2>1, <3>2 DEF Requested, Held
      <4>2. applied[q] = 0
        BY <4>1 DEF Requested, Spent
      <4>3. QED
        BY <1>1, <2>1, <3>2, <4>1, <4>2 DEF Requested
    <3>3. CASE plan.id # Asked(q)
      <4>1. applied'[q] = applied[q]
        BY <2>1, <3>3
      <4>2. applied[q] = 1 /\ base[q] \in Nat /\ base[q] < revision
        BY <3>1, <4>1 DEF Requested, Spent
      <4>3. QED
        BY <1>1, <2>1, <4>1, <4>2 DEF Requested
    <3>4. QED
      BY <3>2, <3>3
  <2>3. QED
    BY <1>1, <1>2, <2>1, <2>2 DEF Requested
<1>5. QED
  BY <1>3, <1>4 DEF Finish

\* Whoever else writes moves the revision on, and leaves a held plan alone.
LEMMA OthersRequested ==
    ASSUME Requested, UNCHANGED window,
           revision' = revision \/ revision' = revision + 1,
           \/ UNCHANGED <<plan, known>>
           \/ plan' = NoPlan
    PROVE  Requested'
<1>1. base' = base /\ applied' = applied
  BY DEF window
<1>2. revision' \in Nat /\ Spent'
  BY <1>1 DEF Requested, Spent
<1>3. Held'
  BY <1>1 DEF Requested, Held, NoPlan
<1>4. QED
  BY <1>1, <1>2, <1>3 DEF Requested

\* service.rs:451: a restore is no request of the window's.
LEMMA RestoreRequested ==
    ASSUME Requested, NEW x \in Rows, RestoreConflict(x)
    PROVE  Requested'
<1>1. /\ UNCHANGED <<stored, session, window>>
      /\ \E g, table : Plan(Restore, g, table)
  BY DEF RestoreConflict
<1>2. base' = base /\ applied' = applied /\ revision' = revision
  BY <1>1 DEF stored, window
<1>3. plan'.id = Restore
  BY <1>1 DEF Plan
<1>4. Held'
  BY <1>3 DEF Held, Asked, Restore
<1>5. QED
  BY <1>2, <1>4 DEF Requested, Spent

\* Every step keeps what the argument about requests needs.
LEMMA RequestedAlways ==
    ASSUME Requested, [Next]_vars
    PROVE  Requested'
<1>1. CASE Next
  <2>1. CASE \E q \in Requests : Execute(q)
    BY <2>1, ExecuteRequested
  <2>2. CASE \E x \in Rows : RestoreConflict(x)
    BY <2>2, RestoreRequested
  <2>3. CASE Finish
    BY <2>3, FinishRequested
  <2>4. CASE Undo \/ Redo
    <3>1. plan = NoPlan /\ plan' = plan /\ revision' = revision + 1 /\ UNCHANGED window
      BY <2>4 DEF Undo, Redo, Stores
    <3>2. QED
      BY <3>1, OthersRequested
  <2>5. CASE Export
    BY <2>5, OthersRequested DEF Export, session
  <2>6. ASSUME NEW w \in Watchers, Watch(w)
        PROVE  Requested'
    <3>1. ASSUME NEW table, NEW affected, Merged(w, table, affected)
          PROVE  Requested'
      BY <3>1, OthersRequested DEF Merged, session
    <3>2. CASE MergeLine(w) \/ MergePlace(w) \/ MergePicture(w)
      BY <3>1, <3>2 DEF MergeLine, MergePlace, MergePicture
    <3>3. CASE ReadRevision(w)
      BY <3>3, OthersRequested DEF ReadRevision, stored, session
    <3>4. CASE AbsorbExternal(w)
      BY <3>4, OthersRequested DEF AbsorbExternal, stored
    <3>5. QED
      BY <2>6, <3>2, <3>3, <3>4 DEF Watch
  <2>7. CASE Rebuild
    <3>1. CASE RebuildFromVault
      BY <3>1, OthersRequested DEF RebuildFromVault, session
    <3>2. CASE RebuildReadRevision
      BY <3>2, OthersRequested DEF RebuildReadRevision, stored, session
    <3>3. CASE ResetSession
      BY <3>3, OthersRequested DEF ResetSession, stored
    <3>4. QED
      BY <2>7, <3>1, <3>2, <3>3 DEF Rebuild
  <2>8. QED
    BY <1>1, <2>1, <2>2, <2>3, <2>4, <2>5, <2>6, <2>7 DEF Next, Use
<1>2. CASE UNCHANGED vars
  BY <1>2 DEF vars, stored, session, window, Requested, Spent, Held
<1>3. QED
  BY <1>1, <1>2

\* service.rs:209 and :217: a request that arrives again is not applied again,
\* however few answers are remembered and whatever writes in between.
THEOREM RequestsAppliedOnce == Spec => []AppliedOnce
<1>1. Requested => AppliedOnce
  BY DEF Requested, Spent, AppliedOnce
<1>2. QED
  BY <1>1, RequestedInitially, RequestedAlways, PTL DEF Spec
-----------------------------------------------------------------------------
(* The revision the session holds.                                         *)

TakesTurns == Overlap = FALSE /\ \A v, w \in Watchers : v = w

InStep ==
    /\ revision \in Nat /\ known \in Nat /\ known <= revision
    /\ watch = [w \in Watchers |-> watch[w]]
    /\ \A w \in Watchers : watch[w] # Resting => rebuild = Resting /\ known # revision
    /\ \A w \in Watchers : watch[w].at = "read" => watch[w].revision = revision
    /\ rebuild # Resting => known # revision
    /\ rebuild.at = "read" => rebuild.revision = revision
    /\ NeverLeftBehind

\* Nobody has anything to tell.
LEMMA InStepInitially == Init => InStep
BY DEF Init, InStep, NeverLeftBehind, Quiet, Resting

\* A command, an undo or a redo goes through only when nobody has news, and takes
\* the new revision with it.
LEMMA StoresInStep ==
    ASSUME InStep, UNCHANGED others, revision = known,
           revision' = revision + 1, known' = revision + 1
    PROVE  InStep'
<1>1. rebuild = Resting /\ \A w \in Watchers : watch[w] = Resting
  BY DEF InStep
<1>2. watch' = watch /\ rebuild' = rebuild
  BY DEF others
<1>3. QED
  BY <1>1, <1>2 DEF InStep, NeverLeftBehind, Quiet, Resting

\* A step that touches neither revision nor what there is to tell.
LEMMA ElsewhereInStep ==
    ASSUME InStep, UNCHANGED <<revision, known, others>>
    PROVE  InStep'
BY DEF InStep, others, NeverLeftBehind, Quiet

\* lib.rs:834: a merge, then its reading of the revision, then the session.
LEMMA WatchInStep ==
    ASSUME TakesTurns, InStep, NEW w \in Watchers, Watch(w)
    PROVE  InStep'
<1>1. \A v \in Watchers : v = w
  BY DEF TakesTurns
<1>2. ASSUME NEW table, NEW affected, Merged(w, table, affected)
      PROVE  InStep'
  <2>1. /\ watch[w] = Resting /\ rebuild = Resting /\ rebuild' = rebuild
        /\ watch' = [watch EXCEPT ![w] = [at |-> "merged", affected |-> affected]]
        /\ revision' = revision + 1 /\ known' = known
    BY <1>2 DEF Merged, TakesTurns, session
  <2>2. watch'[w] = [at |-> "merged", affected |-> affected] /\ watch'[w] # Resting
    BY <2>1 DEF InStep, Resting
  <2>3. QED
    BY <1>1, <2>1, <2>2 DEF InStep, NeverLeftBehind, Quiet, Resting
<1>3. CASE MergeLine(w) \/ MergePlace(w) \/ MergePicture(w)
  BY <1>2, <1>3 DEF MergeLine, MergePlace, MergePicture
<1>4. CASE ReadRevision(w)
  <2>1. /\ watch[w].at = "merged" /\ rebuild' = rebuild
        /\ watch' = [watch EXCEPT ![w] =
              [at |-> "read", affected |-> watch[w].affected, revision |-> revision]]
        /\ revision' = revision /\ known' = known
    BY <1>4 DEF ReadRevision, stored, session
  <2>2. /\ watch'[w].at = "read" /\ watch'[w].revision = revision
        /\ watch[w] # Resting /\ watch'[w] # Resting
    BY <2>1 DEF InStep, Resting
  <2>3. QED
    BY <1>1, <2>1, <2>2 DEF InStep, NeverLeftBehind, Quiet
<1>5. CASE AbsorbExternal(w)
  <2>1. /\ watch[w].at = "read" /\ known' = watch[w].revision
        /\ watch' = [watch EXCEPT ![w] = Resting]
        /\ revision' = revision /\ rebuild' = rebuild
    BY <1>5 DEF AbsorbExternal, stored
  <2>2. known' = revision /\ watch'[w] = Resting /\ rebuild = Resting
    BY <2>1 DEF InStep, Resting
  <2>3. QED
    BY <1>1, <2>1, <2>2 DEF InStep, NeverLeftBehind, Quiet, Resting
<1>6. QED
  BY <1>3, <1>4, <1>5 DEF Watch

\* lib.rs:463: a rebuild, then its reading of the revision, then the session.
LEMMA RebuildInStep ==
    ASSUME TakesTurns, InStep, Rebuild
    PROVE  InStep'
<1>1. CASE RebuildFromVault
  <2>1. /\ \A w \in Watchers : watch[w] = Resting
        /\ rebuild' = [at |-> "rebuilt"] /\ watch' = watch
        /\ revision' = revision + 1 /\ known' = known
    BY <1>1, Zenon DEF RebuildFromVault, TakesTurns, session
  <2>2. rebuild' # Resting /\ rebuild'.at # "read"
    BY <2>1 DEF Resting
  <2>3. QED
    BY <2>1, <2>2 DEF InStep, NeverLeftBehind, Quiet, Resting
<1>2. CASE RebuildReadRevision
  <2>1. /\ rebuild.at = "rebuilt" /\ rebuild' = [at |-> "read", revision |-> revision]
        /\ watch' = watch /\ revision' = revision /\ known' = known
    BY <1>2 DEF RebuildReadRevision, stored, session
  <2>2. rebuild # Resting /\ rebuild' # Resting /\ rebuild'.revision = revision
    BY <2>1 DEF Resting
  <2>3. QED
    BY <2>1, <2>2 DEF InStep, NeverLeftBehind, Quiet
<1>3. CASE ResetSession
  <2>1. /\ rebuild.at = "read" /\ known' = rebuild.revision /\ rebuild' = Resting
        /\ watch' = watch /\ revision' = revision
    BY <1>3 DEF ResetSession, stored
  <2>2. rebuild # Resting /\ known' = revision
    BY <2>1 DEF InStep, Resting
  <2>3. QED
    BY <2>1, <2>2 DEF InStep, NeverLeftBehind, Quiet, Resting
<1>4. QED
  BY <1>1, <1>2, <1>3 DEF Rebuild

\* Every step keeps the session in step, when the two take turns.
LEMMA InStepAlways ==
    ASSUME TakesTurns, InStep, [Next]_vars
    PROVE  InStep'
<1>1. CASE Next
  <2>1. CASE \E q \in Requests : Execute(q)
    BY <2>1, ElsewhereInStep DEF Execute, stored, session
  <2>2. CASE \E x \in Rows : RestoreConflict(x)
    BY <2>2, ElsewhereInStep DEF RestoreConflict, stored, session
  <2>3. CASE Finish
    <3>1. UNCHANGED others
      BY <2>3 DEF Finish
    <3>2. CASE RefusePlan
      BY <3>1, <3>2, ElsewhereInStep DEF RefusePlan, stored, session
    <3>3. CASE CommitPlan
      BY <3>1, <3>3, StoresInStep DEF CommitPlan, Commits, Stores
    <3>4. QED
      BY <2>3, <3>2, <3>3 DEF Finish
  <2>4. CASE Undo \/ Redo
    <3>1. /\ UNCHANGED others /\ revision = known
          /\ revision' = revision + 1 /\ known' = revision + 1
      BY <2>4 DEF Undo, Redo, Commits, Stores
    <3>2. QED
      BY <3>1, StoresInStep
  <2>5. CASE Export
    BY <2>5, ElsewhereInStep DEF Export, session
  <2>6. CASE \E w \in Watchers : Watch(w)
    BY <2>6, WatchInStep
  <2>7. CASE Rebuild
    BY <2>7, RebuildInStep
  <2>8. QED
    BY <1>1, <2>1, <2>2, <2>3, <2>4, <2>5, <2>6, <2>7 DEF Next, Use
<1>2. CASE UNCHANGED vars
  BY <1>2, ElsewhereInStep DEF vars, stored, session
<1>3. QED
  BY <1>1, <1>2

\* service.rs:554: with one watch that takes turns with the rebuild, the session
\* holds the stored revision whenever nobody is on the way to tell it.
THEOREM OneAtATimeIsNeverLeftBehind ==
    ASSUME TakesTurns
    PROVE  Spec => []NeverLeftBehind
<1>1. InStep => NeverLeftBehind
  BY DEF InStep
<1>2. InStep /\ [Next]_vars => InStep'
  BY InStepAlways
<1>3. QED
  BY <1>1, <1>2, InStepInitially, PTL DEF Spec

-----------------------------------------------------------------------------
(* Least and greatest places, and lists in an order.                       *)

\* Some naturals have a least one.
LEMMA SomeLeast ==
    ASSUME NEW S, S \subseteq Nat, S # {}
    PROVE  \E m \in S : \A k \in S : m <= k
<1>1. PICK m \in S : \A k \in S : ~(<<k, m>> \in OpToRel(<, Nat))
  BY NatLessThanWellFounded, WFMin, Zenon
<1>2. \A k \in S : ~(k < m)
  BY <1>1 DEF OpToRel
<1>3. QED
  BY <1>2

\* Some places of a list have a first and a last one.
LEMMA SomePlaces ==
    ASSUME NEW n \in Nat, NEW S, S \subseteq 1 .. n, S # {}
    PROVE  /\ Min(S) \in S /\ \A k \in S : Min(S) <= k
           /\ Max(S) \in S /\ \A k \in S : k <= Max(S)
<1>1. S \subseteq Nat
  OBVIOUS
<1>2. \E m \in S : \A k \in S : m <= k
  BY <1>1, SomeLeast
<1>3. \E m \in S : \A k \in S : m >= k
  <2> DEFINE U == {k \in Nat : \A j \in S : j <= k}
  <2>1. n \in U
    BY <1>1
  <2>2. PICK m \in U : \A k \in U : m <= k
    BY <2>1, SomeLeast, Zenon
  <2>3. m \in S
    <3>1. SUFFICES ASSUME m \notin S PROVE FALSE
      OBVIOUS
    <3>2. \A j \in S : j < m /\ j >= 1
      BY <1>1, <2>2, <3>1
    <3>3. PICK j \in S : j \in Nat
      BY <1>1
    <3>4. m \in Nat /\ j < m /\ j >= 1
      BY <2>2, <3>2, <3>3
    <3>5. m - 1 \in Nat /\ m - 1 < m
      BY <3>3, <3>4
    <3>6. \A k \in S : k <= m - 1
      BY <1>1, <3>2, <3>4
    <3>7. m - 1 \in U
      BY <3>5, <3>6
    <3>8. QED
      BY <2>2, <3>4, <3>5, <3>7
  <2>4. QED
    BY <2>2, <2>3, <1>1
<1>4. QED
  BY <1>1, <1>2, <1>3 DEF Min, Max

\* In a finite set that is in order, each place has its element.
LEMMA Ranked ==
    ASSUME NEW S, IsFiniteSet(S), NEW R,
           \A x \in S : <<x, x>> \notin R,
           \A x, y, z \in S : <<x, y>> \in R /\ <<y, z>> \in R => <<x, z>> \in R,
           \A x, y \in S : x # y => <<x, y>> \in R \/ <<y, x>> \in R
    PROVE  \A i \in 1 .. Cardinality(S) :
               \E x \in S : Cardinality({y \in S : <<y, x>> \in R}) = i - 1
<1> DEFINE under(x) == {y \in S : <<y, x>> \in R}
           n == Cardinality(S)
           rank == [x \in S |-> Cardinality(under(x))]
<1>1. n \in Nat
  BY FS_CardinalityType
<1>2. \A x \in S : IsFiniteSet(under(x)) /\ Cardinality(under(x)) \in Nat
  <2> TAKE x \in S
  <2>1. under(x) \in SUBSET S
    OBVIOUS
  <2>2. QED
    BY <2>1, FS_Subset, FS_CardinalityType
<1>3. \A x \in S : Cardinality(under(x)) < n
  <2> TAKE x \in S
  <2>1. under(x) \in SUBSET S /\ under(x) # S
    OBVIOUS
  <2> HIDE DEF under
  <2>2. Cardinality(under(x)) <= n /\ Cardinality(under(x)) # n
    BY <2>1, FS_Subset
  <2> HIDE DEF n
  <2>3. QED
    BY <1>1, <1>2, <2>2
<1>4. ASSUME NEW x \in S, NEW y \in S, <<x, y>> \in R
      PROVE  Cardinality(under(x)) < Cardinality(under(y))
  <2>1. under(x) \cup {x} \in SUBSET under(y) /\ x \notin under(x)
    BY <1>4
  <2> HIDE DEF under
  <2>2. Cardinality(under(x) \cup {x}) = Cardinality(under(x)) + 1
    BY <1>2, <2>1, FS_AddElement
  <2>3. Cardinality(under(x) \cup {x}) <= Cardinality(under(y))
    BY <1>2, <2>1, FS_Subset
  <2>4. QED
    BY <1>2, <2>2, <2>3
<1> HIDE DEF n, under
<1>5. rank \in [S -> 0 .. n - 1]
  BY <1>1, <1>2, <1>3
<1>6. \A x, y \in S : rank[x] = rank[y] => x = y
  <2> SUFFICES ASSUME NEW x \in S, NEW y \in S, rank[x] = rank[y], x # y PROVE FALSE
    OBVIOUS
  <2>1. <<x, y>> \in R \/ <<y, x>> \in R
    OBVIOUS
  <2>2. Cardinality(under(x)) = Cardinality(under(y))
    OBVIOUS
  <2>3. QED
    BY <1>2, <1>4, <2>1, <2>2
<1> HIDE DEF rank
<1>7. rank \in Injection(S, 0 .. n - 1)
  BY <1>5, <1>6 DEF Injection, IsInjective
<1>8. IsFiniteSet(0 .. n - 1) /\ Cardinality(0 .. n - 1) = n
  <2>1. 0 \in Int /\ n - 1 \in Int /\ (n - 1) - 0 + 1 = n /\ (0 > n - 1 => n = 0)
    BY <1>1
  <2>2. QED
    BY <2>1, FS_Interval
<1>9. rank \in Surjection(S, 0 .. n - 1)
  BY <1>7, <1>8, FS_Injection DEF n
<1>10. \A i \in 0 .. n - 1 : \E x \in S : rank[x] = i
  BY <1>9 DEF Surjection
<1>11. QED
  <2> TAKE i \in 1 .. Cardinality(S)
  <2>1. i - 1 \in 0 .. n - 1
    BY <1>1 DEF n
  <2>2. PICK x \in S : rank[x] = i - 1
    BY <1>10, <2>1
  <2>3. QED
    BY <2>2 DEF rank, under

\* What the storage can hold: a row or none under every id.
Table == [Rows -> Node \cup {NoRow}]

\* Some rows in their order are a list of them, each once.
LEMMA OrderedLists ==
    ASSUME NEW rs \in Table, NEW S, S \subseteq Present(rs)
    PROVE  LET order == Ordered(rs, S) IN
           /\ order \in Seq(S)
           /\ ToSet(order) = S
           /\ \A i, j \in DOMAIN order : order[i] = order[j] => i = j
<1> DEFINE R == {z \in S \X S : Before(rs, z[1], z[2])}
           n == Cardinality(S)
           under(x) == {y \in S : Before(rs, y, x)}
           order == Ordered(rs, S)
<1>1. S \subseteq Rows /\ IsFiniteSet(S) /\ n \in Nat
  <2>1. S \in SUBSET Rows
    BY DEF Present
  <2>2. QED
    BY <2>1, FamilyAssumption, FS_Subset, FS_CardinalityType, Zenon
<1>2. \A x \in S : rs[x].key \in Int /\ x \in Nat
  BY <1>1, FamilyAssumption DEF Table, Present, Node
<1>3. /\ \A x \in S : <<x, x>> \notin R
      /\ \A x, y, z \in S : <<x, y>> \in R /\ <<y, z>> \in R => <<x, z>> \in R
      /\ \A x, y \in S : x # y => <<x, y>> \in R \/ <<y, x>> \in R
  <2> USE <1>1, <1>2 DEF Before
  <2>1. \A x \in S : <<x, x>> \notin R
    OBVIOUS
  <2>2. \A x, y, z \in S : <<x, y>> \in R /\ <<y, z>> \in R => <<x, z>> \in R
    OBVIOUS
  <2>3. \A x, y \in S : x # y => <<x, y>> \in R \/ <<y, x>> \in R
    OBVIOUS
  <2>4. QED
    BY <2>1, <2>2, <2>3
<1>4. \A x \in S : under(x) = {y \in S : <<y, x>> \in R}
  OBVIOUS
<1>5. \A i \in 1 .. n : \E x \in S : Cardinality({y \in S : <<y, x>> \in R}) = i - 1
  <2> HIDE DEF R
  <2>1. QED
    BY <1>1, <1>3, Ranked
<1>6. \A i \in 1 .. n : \E x \in S : Cardinality(under(x)) = i - 1
  <2> HIDE DEF R, under
  <2>1. QED
    BY <1>4, <1>5
<1>7. order = [i \in 1 .. n |-> CHOOSE x \in S : Cardinality(under(x)) = i - 1]
  BY DEF Ordered
<1> HIDE DEF R, n, under, order
<1>8. \A i \in 1 .. n : order[i] \in S /\ Cardinality(under(order[i])) = i - 1
  BY <1>6, <1>7
<1>9. order \in [1 .. n -> S]
  BY <1>7, <1>8
<1>10. order \in Seq(S) /\ Len(order) = n /\ DOMAIN order = 1 .. n
  BY <1>1, <1>9
<1>11. \A i, j \in DOMAIN order : order[i] = order[j] => i = j
  BY <1>1, <1>8, <1>10
<1>12. ToSet(order) = S
  <2>1. order \in Injection(1 .. n, S)
    BY <1>9, <1>10, <1>11 DEF Injection, IsInjective
  <2>2. Cardinality(1 .. n) = n
    BY <1>1, FS_Interval
  <2>3. order \in Surjection(1 .. n, S)
    BY <1>1, <2>1, <2>2, FS_Injection, Zenon DEF n
  <2>4. QED
    BY <1>9, <1>10, <2>3 DEF Surjection, ToSet
<1>13. QED
  BY <1>10, <1>11, <1>12 DEF order

-----------------------------------------------------------------------------
(* Tables that differ in their keys.                                       *)

\* Two rows that are both away, or say the same.
Alike(r, s) ==
    /\ r = NoRow <=> s = NoRow
    /\ r # NoRow => s.text = r.text /\ s.live = r.live

\* A table with other keys.
Rekeyed(rs, table) == table \in Table /\ \A y \in Rows : Alike(rs[y], table[y])

\* Keys over keys are keys.
LEMMA RekeyedTwice ==
    ASSUME NEW rs, NEW table, NEW other, Rekeyed(rs, table), Rekeyed(table, other)
    PROVE  Rekeyed(rs, other)
BY DEF Rekeyed, Alike

\* One row gets a key.
LEMMA KeyPut ==
    ASSUME NEW rs \in Table, NEW x \in Present(rs), NEW k \in Int
    PROVE  Rekeyed(rs, [rs EXCEPT ![x].key = k])
<1> DEFINE t == [rs EXCEPT ![x].key = k]
<1>1. x \in Rows /\ rs[x] \in Node
  BY DEF Present, Table
<1>2. t[x] = [text |-> rs[x].text, key |-> k, live |-> rs[x].live]
  BY <1>1 DEF Table, Node
<1>3. t[x] \in Node /\ t[x] # NoRow
  BY <1>1, <1>2, NoRowAssumption DEF Node
<1>4. \A y \in Rows : y # x => t[y] = rs[y]
  BY DEF Table
<1>5. t = [y \in Rows |-> t[y]]
  BY DEF Table
<1>6. t[x].text = rs[x].text /\ t[x].live = rs[x].live
  BY <1>2
<1> HIDE DEF t
<1>7. t \in Table
  BY <1>1, <1>3, <1>4, <1>5 DEF Table
<1>8. \A y \in Rows : Alike(rs[y], t[y])
  BY <1>1, <1>3, <1>4, <1>6 DEF Alike, Present
<1>9. QED
  BY <1>7, <1>8 DEF Rekeyed, t

\* The place of an element of a list.
LEMMA Spots ==
    ASSUME NEW S, NEW order \in Seq(S), NEW x
    PROVE  /\ Spot(order, x) \in 0 .. Len(order)
           /\ x \in ToSet(order) => /\ Spot(order, x) \in 1 .. Len(order)
                                    /\ order[Spot(order, x)] = x
<1> DEFINE I == {i \in 1 .. Len(order) : order[i] = x}
<1>1. Spot(order, x) = IF I # {} THEN Min(I) ELSE 0
  BY DEF Spot, SelectInSeq
<1>2. Len(order) \in Nat /\ I \subseteq 1 .. Len(order)
  OBVIOUS
<1>3. x \in ToSet(order) => I # {}
  BY DEF ToSet
<1>4. I # {} => Min(I) \in I
  <2> HIDE DEF I
  <2> QED
    BY <1>2, SomePlaces
<1>5. QED
  BY <1>1, <1>2, <1>3, <1>4

\* Rows of the table at keys a step apart.
LEMMA RespacedKeys ==
    ASSUME NEW rs \in Table, NEW order, NEW S \in SUBSET Present(rs), order \in Seq(S)
    PROVE  Rekeyed(rs, Respaced(rs, order))
<1> DEFINE t == Respaced(rs, order)
<1>1. t = [x \in Rows |-> IF x \in ToSet(order)
                    THEN [rs[x] EXCEPT !.key = Step * Spot(order, x)]
                    ELSE rs[x]]
  BY DEF Respaced
<1>2. \A x \in ToSet(order) : x \in Rows /\ rs[x] \in Node /\ rs[x] # NoRow
  BY DEF ToSet, Present, Table
<1> HIDE DEF t
<1>3. ASSUME NEW x \in Rows
      PROVE  t[x] \in Node \cup {NoRow} /\ Alike(rs[x], t[x])
  <2>1. CASE x \in ToSet(order)
    <3>1. Step * Spot(order, x) \in Int
      <4>1. Spot(order, x) \in Int /\ Step \in Int
        BY Spots, FamilyAssumption
      <4>2. QED
        BY <4>1
    <3> DEFINE k == Step * Spot(order, x)
    <3>2. t[x] = [rs[x] EXCEPT !.key = k]
      BY <1>1, <2>1
    <3> HIDE DEF k
    <3>3. t[x] = [text |-> rs[x].text, key |-> k, live |-> rs[x].live]
      BY <1>2, <2>1, <3>2 DEF Node
    <3>4. t[x] \in Node
      BY <1>2, <2>1, <3>1, <3>3 DEF Node, k
    <3>5. QED
      BY <1>2, <2>1, <3>3, <3>4, NoRowAssumption DEF Alike
  <2>2. CASE x \notin ToSet(order)
    BY <1>1, <2>2 DEF Alike, Table
  <2>3. QED
    BY <2>1, <2>2
<1>4. QED
  BY <1>1, <1>3 DEF Rekeyed, Table, t

\* An element put into a list.
LEMMA PutInto ==
    ASSUME NEW S, NEW order \in Seq(S), NEW x, NEW at \in 1 .. Len(order) + 1
    PROVE  LET l == InsertAt(order, at, x) IN
           /\ l \in Seq(S \cup {x}) /\ Len(l) = Len(order) + 1
           /\ x \in ToSet(l)
<1> DEFINE a == SubSeq(order, 1, at - 1)
           b == SubSeq(order, at, Len(order))
           l == InsertAt(order, at, x)
<1>0. Len(order) \in Nat /\ order \in Seq(S \cup {x}) /\ at \in Nat \ {0} /\ at <= Len(order) + 1
  OBVIOUS
<1>1. a \in Seq(S \cup {x}) /\ Len(a) = at - 1
  BY <1>0
<1>2. b \in Seq(S \cup {x}) /\ Len(b) = Len(order) - at + 1
  BY <1>0
<1>3. <<x>> \in Seq(S \cup {x}) /\ Len(<<x>>) = 1
  OBVIOUS
<1>4. l = (a \o <<x>>) \o b
  BY DEF InsertAt
<1> HIDE DEF a, b, l
<1>5. /\ a \o <<x>> \in Seq(S \cup {x}) /\ Len(a \o <<x>>) = at
      /\ (a \o <<x>>)[at] = x
  BY <1>0, <1>1, <1>3
<1>6. l \in Seq(S \cup {x}) /\ Len(l) = Len(order) + 1 /\ l[at] = x
  BY <1>0, <1>2, <1>4, <1>5
<1>7. x \in ToSet(l)
  BY <1>0, <1>6 DEF ToSet
<1>8. QED
  BY <1>6, <1>7 DEF l

\* A key beside the neighbours is a key.
LEMMA SparseKeys ==
    ASSUME NEW rs \in Table, NEW order \in Seq(Present(rs)), NEW at \in 1 .. Len(order)
    PROVE  SparseKey(rs, order, at) \in Int
<1>1. \A i \in 1 .. Len(order) : rs[order[i]].key \in Int
  BY DEF Present, Table, Node
<1>2. Step \in Int /\ Len(order) \in Nat
  BY FamilyAssumption
<1>3. CASE at = 1 /\ at = Len(order)
  <2>1. ~(at > 1) /\ (at < Len(order) => at # Len(order))
    <3>1. \A n, m \in Nat : (n < m => n # m) /\ ~(1 > 1)
      OBVIOUS
    <3>2. QED
      BY <1>2, <1>3, <3>1, Zenon
  <2>2. SparseKey(rs, order, at) = Step
    BY <1>3, <2>1, Zenon DEF SparseKey
  <2>3. QED
    BY <1>2, <2>2
<1>4. CASE at > 1 /\ at = Len(order)
  <2>1. at - 1 \in 1 .. Len(order)
    BY <1>2, <1>4
  <2>2. rs[order[at - 1]].key \in Int
    BY <1>1, <2>1
  <2>3. SparseKey(rs, order, at) = rs[order[at - 1]].key + Step
    BY <1>2, <1>4 DEF SparseKey
  <2>4. QED
    BY <1>2, <2>2, <2>3
<1>5. CASE at < Len(order)
  <2>1. at + 1 \in 1 .. Len(order)
    BY <1>2, <1>5
  <2>2. rs[order[at + 1]].key \in Int
    BY <1>1, <2>1
  <2>3. CASE at = 1
    <3>1. SparseKey(rs, order, at) = rs[order[at + 1]].key - Step
      BY <1>2, <1>5, <2>3 DEF SparseKey
    <3>2. QED
      BY <1>2, <2>2, <3>1
  <2>4. CASE at # 1
    <3>1. at - 1 \in 1 .. Len(order)
      BY <1>2, <2>4
    <3>2. rs[order[at - 1]].key \in Int
      BY <1>1, <3>1
    <3>3. SparseKey(rs, order, at) = (rs[order[at - 1]].key + rs[order[at + 1]].key) \div 2
      BY <1>2, <1>5, <2>4 DEF SparseKey
    <3>4. \A k \in Int : k \div 2 \in Int
      OBVIOUS
    <3>5. QED
      BY <2>2, <3>2, <3>3, <3>4
  <2>5. QED
    BY <2>3, <2>4
<1>6. at = Len(order) \/ at < Len(order)
  BY <1>2
<1>7. at = 1 \/ at > 1
  BY <1>2
<1>8. QED
  BY <1>3, <1>4, <1>5, <1>6, <1>7

\* place_sparse_key: a row put before another, or last, moves keys only.
LEMMA PlaceKeys ==
    ASSUME NEW rs \in Table, NEW x \in Present(rs),
           NEW next \in (Present(rs) \ {x}) \cup {AtEnd}
    PROVE  Rekeyed(rs, Place(rs, x, next))
<1> DEFINE S == Present(rs) \ {x}
           some == Ordered(rs, S)
           to == IF next = AtEnd THEN Len(some) + 1 ELSE Spot(some, next)
           order == WithPlaced(rs, x, next)
           at == Spot(order, x)
<1>1. some \in Seq(S) /\ ToSet(some) = S
  <2>1. S \subseteq Present(rs)
    OBVIOUS
  <2> HIDE DEF S
  <2>2. QED
    BY <2>1, OrderedLists
<1>2. order = InsertAt(some, to, x)
  BY DEF WithPlaced
<1> HIDE DEF some, order
<1>3. to \in 1 .. Len(some) + 1
  <2>1. CASE next = AtEnd
    BY <1>1, <2>1
  <2>2. CASE next # AtEnd
    <3>1. next \in S
      BY <2>2
    <3>2. to = Spot(some, next)
      BY <2>2
    <3> HIDE DEF to, S
    <3>3. to \in 1 .. Len(some) /\ Len(some) \in Nat
      BY <1>1, <3>1, <3>2, Spots
    <3>4. QED
      BY <3>3
  <2>3. QED
    BY <2>1, <2>2
<1> HIDE DEF to, S
<1>4. order \in Seq(S \cup {x}) /\ x \in ToSet(order)
  BY <1>1, <1>2, <1>3, PutInto
<1>5. order \in Seq(Present(rs))
  BY <1>4 DEF S
<1>6. at \in 1 .. Len(order)
  BY <1>4, Spots
<1>7. Place(rs, x, next) = IF Cramped(rs, order, at) THEN Respaced(rs, order)
                           ELSE [rs EXCEPT ![x].key = SparseKey(rs, order, at)]
  BY DEF Place, order
<1> HIDE DEF at
<1>8. Rekeyed(rs, Respaced(rs, order))
  BY <1>5, RespacedKeys
<1>9. Rekeyed(rs, [rs EXCEPT ![x].key = SparseKey(rs, order, at)])
  BY <1>5, <1>6, SparseKeys, KeyPut
<1>10. QED
  BY <1>7, <1>8, <1>9

\* A row back from the trash moves keys only.
LEMMA ReseatedKeys ==
    ASSUME NEW rs \in Table, NEW x \in Present(rs)
    PROVE  Rekeyed(rs, Reseated(rs, x))
<1> DEFINE order == Ordered(rs, Present(rs))
           next == IF x = Last(order) THEN AtEnd ELSE order[Spot(order, x) + 1]
<1>1. /\ order \in Seq(Present(rs)) /\ ToSet(order) = Present(rs)
      /\ \A i, j \in DOMAIN order : order[i] = order[j] => i = j
  BY OrderedLists
<1>2. Reseated(rs, x) = IF \E y \in Live(rs) \ {x} : rs[y].key = rs[x].key
                        THEN Place(rs, x, next) ELSE rs
  BY DEF Reseated
<1>3. next \in (Present(rs) \ {x}) \cup {AtEnd}
  <2>1. CASE x = Last(order)
    BY <2>1
  <2>2. CASE x # Last(order)
    <3> DEFINE i == Spot(order, x)
    <3>1. next = order[i + 1]
      BY <2>2
    <3> HIDE DEF order, next
    <3>2. i \in 1 .. Len(order) /\ order[i] = x
      BY <1>1, Spots
    <3> HIDE DEF i
    <3>3. i # Len(order)
      BY <2>2, <3>2 DEF Last
    <3>4. i + 1 \in DOMAIN order /\ i \in DOMAIN order /\ i + 1 # i
      BY <1>1, <3>2, <3>3
    <3>5. order[i + 1] \in Present(rs) /\ order[i + 1] # x
      BY <1>1, <3>2, <3>4
    <3>6. QED
      BY <3>1, <3>5
  <2>3. QED
    BY <2>1, <2>2
<1> HIDE DEF next
<1>4. Rekeyed(rs, Place(rs, x, next))
  BY <1>3, PlaceKeys
<1>5. Rekeyed(rs, rs)
  BY DEF Rekeyed, Alike
<1>6. QED
  BY <1>2, <1>4, <1>5

\* merger.rs: the order a merge leaves is of the live rows and the row it places.
LEMMA MergedOrders ==
    ASSUME NEW rs \in Table, NEW x, NEW prev
    PROVE  MergedOrder(rs, x, prev) \in Seq(Live(rs) \cup {x})
<1> DEFINE S == Live(rs) \ {x}
           some == Ordered(rs, S)
           at == Spot(some, prev) + 1
<1>1. some \in Seq(S)
  <2>1. S \subseteq Present(rs)
    BY DEF Live
  <2> HIDE DEF S
  <2>2. QED
    BY <2>1, OrderedLists
<1>2. MergedOrder(rs, x, prev) = InsertAt(some, at, x)
  BY DEF MergedOrder
<1> HIDE DEF some, S
<1>3. at \in 1 .. Len(some) + 1
  <2>1. Spot(some, prev) \in 0 .. Len(some) /\ Len(some) \in Nat
    BY <1>1, Spots
  <2>2. QED
    BY <2>1
<1> HIDE DEF at
<1>4. MergedOrder(rs, x, prev) \in Seq(S \cup {x})
  BY <1>1, <1>2, <1>3, PutInto
<1>5. S \cup {x} \subseteq Live(rs) \cup {x}
  BY DEF S
<1>6. QED
  BY <1>4, <1>5

-----------------------------------------------------------------------------
(* What a command plans.                                                   *)

\* The two lists of a plan: every changed row once, with what it becomes and
\* with what it was.
Drawn(forward, inverse, from, to) ==
    /\ forward \in Seq(Mutation) /\ inverse \in Seq(Mutation)
    /\ Len(forward) = Len(inverse)
    /\ \A i \in DOMAIN forward :
          LET x == forward[i].id IN
          /\ forward[i] = [id |-> x, row |-> to[x]]
          /\ inverse[i] = [id |-> x, row |-> from[x]]
          /\ from[x] # to[x]
    /\ \A i, j \in DOMAIN forward : forward[i].id = forward[j].id => i = j

\* commands.rs: a patch and its inverse are drawn from the two tables.
LEMMA DiffDraws ==
    ASSUME NEW from \in Table, NEW to \in Table
    PROVE  Drawn(Diff(from, to), Diff(to, from), from, to)
<1> DEFINE changed == {x \in Rows : from[x] # to[x]}
           n == Cardinality(changed)
           under(x) == {y \in changed : y < x}
           Nth(i) == CHOOSE x \in changed : Cardinality(under(x)) = i - 1
           R == {z \in changed \X changed : z[1] < z[2]}
           f == Diff(from, to)
           v == Diff(to, from)
<1>1. changed \in SUBSET Rows
  OBVIOUS
<1>2. {x \in Rows : to[x] # from[x]} = changed
  OBVIOUS
<1>3. f = [i \in 1 .. n |-> [id |-> Nth(i), row |-> to[Nth(i)]]]
  BY DEF Diff
<1>4. v = [i \in 1 .. n |-> [id |-> Nth(i), row |-> from[Nth(i)]]]
  BY <1>2 DEF Diff
<1>5. \A x \in changed : from[x] # to[x]
  OBVIOUS
<1> HIDE DEF changed, f, v
<1>6. IsFiniteSet(changed) /\ n \in Nat /\ changed \subseteq Nat
  BY <1>1, FamilyAssumption, FS_Subset, FS_CardinalityType
<1>7. /\ \A x \in changed : <<x, x>> \notin R
      /\ \A x, y, z \in changed : <<x, y>> \in R /\ <<y, z>> \in R => <<x, z>> \in R
      /\ \A x, y \in changed : x # y => <<x, y>> \in R \/ <<y, x>> \in R
  <2>1. \A x \in changed : <<x, x>> \notin R
    BY <1>6
  <2>2. \A x, y, z \in changed : <<x, y>> \in R /\ <<y, z>> \in R => <<x, z>> \in R
    BY <1>6
  <2>3. \A x, y \in changed : x # y => <<x, y>> \in R \/ <<y, x>> \in R
    BY <1>6
  <2>4. QED
    BY <2>1, <2>2, <2>3
<1>8. \A x \in changed : under(x) = {y \in changed : <<y, x>> \in R}
  OBVIOUS
<1> HIDE DEF R, under
<1>9. \A i \in 1 .. n : \E x \in changed : Cardinality({y \in changed : <<y, x>> \in R}) = i - 1
  BY <1>6, <1>7, Ranked
<1>10. \A i \in 1 .. n : \E x \in changed : Cardinality(under(x)) = i - 1
  BY <1>8, <1>9
<1>11. \A i \in 1 .. n : Nth(i) \in changed /\ Cardinality(under(Nth(i))) = i - 1
  BY <1>10
<1> HIDE DEF Nth, n
<1>12. \A i \in 1 .. n : Nth(i) \in Rows
  BY <1>1, <1>11
<1>13. \A i, j \in 1 .. n : Nth(i) = Nth(j) => i = j
  BY <1>6, <1>11
<1>14. ASSUME NEW t \in Table
       PROVE  /\ [i \in 1 .. n |-> [id |-> Nth(i), row |-> t[Nth(i)]]] \in Seq(Mutation)
              /\ Len([i \in 1 .. n |-> [id |-> Nth(i), row |-> t[Nth(i)]]]) = n
  <2>1. \A i \in 1 .. n : [id |-> Nth(i), row |-> t[Nth(i)]] \in Mutation
    BY <1>12 DEF Mutation, Table
  <2>2. QED
    BY <1>6, <2>1
<1>15. f \in Seq(Mutation) /\ v \in Seq(Mutation) /\ Len(f) = n /\ Len(v) = n
  BY <1>3, <1>4, <1>14
<1>16. \A i \in 1 .. n : /\ f[i] = [id |-> Nth(i), row |-> to[Nth(i)]]
                         /\ v[i] = [id |-> Nth(i), row |-> from[Nth(i)]]
                         /\ f[i].id = Nth(i)
  BY <1>3, <1>4
<1>17. DOMAIN f = 1 .. n
  BY <1>3
<1>18. \A i \in DOMAIN f :
          LET x == f[i].id IN
          /\ f[i] = [id |-> x, row |-> to[x]]
          /\ v[i] = [id |-> x, row |-> from[x]]
          /\ from[x] # to[x]
  <2> TAKE i \in DOMAIN f
  <2>1. i \in 1 .. n
    BY <1>17
  <2>2. f[i].id = Nth(i)
    BY <1>16, <2>1
  <2>3. from[Nth(i)] # to[Nth(i)]
    BY <1>5, <1>11, <2>1
  <2>4. QED
    BY <1>16, <2>1, <2>2, <2>3
<1>19. \A i, j \in DOMAIN f : f[i].id = f[j].id => i = j
  <2> SUFFICES ASSUME NEW i \in DOMAIN f, NEW j \in DOMAIN f, f[i].id = f[j].id PROVE i = j
    OBVIOUS
  <2>1. i \in 1 .. n /\ j \in 1 .. n
    BY <1>17
  <2>2. Nth(i) = Nth(j)
    BY <1>16, <2>1
  <2>3. QED
    BY <1>13, <2>1, <2>2
<1>20. QED
  BY <1>15, <1>18, <1>19 DEF Drawn, f, v

\* service.rs: a plan creates nothing an entry names, and one that may join the
\* last entry brings nothing back from the trash.
Fits(table, group) ==
    \A x \in Rows :
        /\ rows[x] = NoRow /\ table[x] # NoRow => x \notin Named
        /\ group # Alone /\ rows[x] # NoRow =>
              rows[x].live \/ table[x] = NoRow \/ ~table[x].live

\* Other keys make no difference to that.
LEMMA FitsRekeyed ==
    ASSUME NEW t, NEW table, NEW g, Rekeyed(t, table), Fits(t, g)
    PROVE  table \in Table /\ Fits(table, g)
BY DEF Rekeyed, Alike, Fits

\* Of a row one field, or all of it, is replaced.
LEMMA RowPut ==
    ASSUME rows \in Table, NEW x \in Rows, NEW r \in Node \cup {NoRow}
    PROVE  /\ [rows EXCEPT ![x] = r] \in Table
           /\ [rows EXCEPT ![x] = r][x] = r
           /\ \A y \in Rows \ {x} : [rows EXCEPT ![x] = r][y] = rows[y]
BY DEF Table

\* A command that puts one row fits what may be undone and what may be done again.
LEMMA PutFits ==
    ASSUME rows \in Table, NEW x \in Rows, NEW r \in Node \cup {NoRow}, NEW g,
           rows[x] = NoRow /\ r # NoRow => x \notin Named,
           g # Alone /\ rows[x] # NoRow => rows[x].live \/ r = NoRow \/ ~r.live
    PROVE  [rows EXCEPT ![x] = r] \in Table /\ Fits([rows EXCEPT ![x] = r], g)
<1> DEFINE t == [rows EXCEPT ![x] = r]
<1>1. t \in Table /\ t[x] = r /\ \A y \in Rows \ {x} : t[y] = rows[y]
  BY RowPut
<1> HIDE DEF t
<1>2. Fits(t, g)
  BY <1>1 DEF Fits
<1>3. QED
  BY <1>1, <1>2 DEF t

\* What a command or a line does to one row is to put another in its place.
LEMMA RowsPut ==
    ASSUME rows \in Table, NEW x \in Present(rows)
    PROVE  /\ \A t \in Texts : \E r \in Node :
                 r.live = rows[x].live /\ Retyped(x, t) = [rows EXCEPT ![x] = r]
           /\ \E r \in Node : ~r.live /\ Trashed(x) = [rows EXCEPT ![x] = r]
           /\ \E r \in Node : r.live /\ Revived(x) = [rows EXCEPT ![x] = r]
           /\ \A t \in Texts : \E r \in Node :
                 r.live /\ [Revived(x) EXCEPT ![x].text = t] = [rows EXCEPT ![x] = r]
<1> DEFINE with(t, l) == [text |-> t, key |-> rows[x].key, live |-> l]
<1>1. x \in Rows /\ rows[x] \in Node
  BY DEF Present, Table
<1>2. rows[x] = with(rows[x].text, rows[x].live)
  BY <1>1 DEF Node
<1>3. rows[x].text \in Texts /\ rows[x].key \in Int /\ rows[x].live \in BOOLEAN
  BY <1>1 DEF Node
<1>4. \A t \in Texts, l \in BOOLEAN : with(t, l) \in Node /\ with(t, l).live = l
  BY <1>3 DEF Node
<1>5. \A t : [rows[x] EXCEPT !.text = t] = with(t, rows[x].live)
  BY <1>2
<1>6. \A l : [rows[x] EXCEPT !.live = l] = with(rows[x].text, l)
  BY <1>2
<1>7. \A t, l : [with(rows[x].text, l) EXCEPT !.text = t] = with(t, l)
  OBVIOUS
<1> HIDE DEF with
<1>8. \A t : Retyped(x, t) = [rows EXCEPT ![x] = with(t, rows[x].live)]
  <2> TAKE t
  <2>1. Retyped(x, t) = [rows EXCEPT ![x] = [rows[x] EXCEPT !.text = t]]
    BY <1>1 DEF Retyped, Table
  <2>2. QED
    BY <1>5, <2>1
<1>9. Trashed(x) = [rows EXCEPT ![x] = with(rows[x].text, FALSE)]
  <2>1. Trashed(x) = [rows EXCEPT ![x] = [rows[x] EXCEPT !.live = FALSE]]
    BY <1>1 DEF Trashed, Table
  <2>2. QED
    BY <1>6, <2>1
<1>10. Revived(x) = [rows EXCEPT ![x] = with(rows[x].text, TRUE)]
  <2>1. Revived(x) = [rows EXCEPT ![x] = [rows[x] EXCEPT !.live = TRUE]]
    BY <1>1 DEF Revived, Table
  <2>2. QED
    BY <1>6, <2>1
<1>11. \A t : [Revived(x) EXCEPT ![x].text = t] = [rows EXCEPT ![x] = with(t, TRUE)]
  <2> TAKE t
  <2> DEFINE r == with(rows[x].text, TRUE)
             u == [rows EXCEPT ![x] = r]
  <2>1. [r EXCEPT !.text = t] = with(t, TRUE)
    BY <1>7
  <2> HIDE DEF r
  <2>2. u[x] = r /\ DOMAIN u = Rows /\ \A y \in Rows \ {x} : u[y] = rows[y]
    BY <1>1 DEF Table
  <2>3. u \in [Rows -> {u[y] : y \in Rows}]
    BY <2>2 DEF Table
  <2>4. [u EXCEPT ![x].text = t] = [u EXCEPT ![x] = [r EXCEPT !.text = t]]
    <3> HIDE DEF u
    <3>1. QED
      BY <1>1, <2>2, <2>3
  <2>5. [u EXCEPT ![x] = with(t, TRUE)] = [rows EXCEPT ![x] = with(t, TRUE)]
    BY <1>1 DEF Table
  <2>6. QED
    BY <1>10, <2>1, <2>4, <2>5 DEF r
<1>12. /\ \A t \in Texts : \E r \in Node :
             r.live = rows[x].live /\ Retyped(x, t) = [rows EXCEPT ![x] = r]
       /\ \E r \in Node : ~r.live /\ Trashed(x) = [rows EXCEPT ![x] = r]
       /\ \E r \in Node : r.live /\ Revived(x) = [rows EXCEPT ![x] = r]
  BY <1>3, <1>4, <1>8, <1>9, <1>10
<1>13. \A t \in Texts : \E r \in Node :
             r.live /\ [Revived(x) EXCEPT ![x].text = t] = [rows EXCEPT ![x] = r]
  BY <1>4, <1>11
<1>14. QED
  BY <1>12, <1>13

\* A new row, before it has its place, and after.
LEMMA BegunFits ==
    ASSUME rows \in Table, NEW x \in Fresh, NEW g,
           NEW next \in Live(rows) \cup {AtEnd}
    PROVE  Place(Begun(x), x, next) \in Table /\ Fits(Place(Begun(x), x, next), g)
<1> DEFINE r == [text |-> Blank, key |-> Step, live |-> TRUE]
           t == Begun(x)
<1>1. x \in Rows /\ rows[x] = NoRow /\ x \notin Named
  BY DEF Fresh
<1>2. r \in Node /\ r # NoRow
  <2>1. Blank \in Texts /\ Step \in Int /\ TRUE \in BOOLEAN
    BY SessionAssumption, FamilyAssumption
  <2>2. r \in Node
    BY <2>1 DEF Node
  <2>3. QED
    BY <2>2, NoRowAssumption
<1>3. t = [rows EXCEPT ![x] = r]
  BY DEF Begun
<1> HIDE DEF r, t
<1>4. t \in Table /\ Fits(t, g)
  BY <1>1, <1>2, <1>3, PutFits
<1>5. t[x] = r /\ \A y \in Rows \ {x} : t[y] = rows[y]
  BY <1>1, <1>2, <1>3, RowPut
<1>6. x \in Present(t)
  BY <1>1, <1>2, <1>5 DEF Present
<1>7. next \in (Present(t) \ {x}) \cup {AtEnd}
  BY <1>1, <1>5 DEF Present, Live
<1>8. Rekeyed(t, Place(t, x, next))
  BY <1>4, <1>6, <1>7, PlaceKeys
<1>9. QED
  BY <1>4, <1>8, FitsRekeyed DEF t

\* command_execution.rs:14: whatever a command plans fits.
LEMMA PlannedFits ==
    ASSUME rows \in Table, NEW table \in Planned, NEW g
    PROVE  table \in Table /\ Fits(table, g)
<1> DEFINE Goal(t) == t \in Table /\ Fits(t, g)
<1>1. Live(rows) \subseteq Present(rows) /\ Present(rows) \subseteq Rows
      /\ \A x \in Live(rows) : rows[x] # NoRow /\ rows[x].live
  BY DEF Live, Present
<1>2. ASSUME NEW x \in Live(rows), NEW t \in Texts
      PROVE  Goal(Retyped(x, t))
  BY <1>1, RowsPut, PutFits
<1>3. ASSUME NEW x \in Live(rows)
      PROVE  Goal(Deleted(x))
  BY <1>1, PutFits DEF Deleted
<1>4. ASSUME NEW x \in Live(rows)
      PROVE  Goal(Trashed(x))
  BY <1>1, RowsPut, PutFits
<1>5. ASSUME NEW x \in Live(rows), NEW next \in (Live(rows) \ {x}) \cup {AtEnd}
      PROVE  Goal(Place(rows, x, next))
  <2>1. next \in (Present(rows) \ {x}) \cup {AtEnd}
    BY <1>1
  <2>2. Rekeyed(rows, Place(rows, x, next))
    BY <1>1, <2>1, PlaceKeys
  <2>3. Fits(rows, g)
    BY DEF Fits
  <2>4. QED
    BY <2>2, <2>3, FitsRekeyed
<1>6. ASSUME NEW x \in Fresh, NEW next \in Live(rows) \cup {AtEnd}
      PROVE  Goal(Place(Begun(x), x, next))
  BY BegunFits
<1> HIDE DEF Goal
<1>7. \/ \E x \in Live(rows) : \E t \in Texts : table = Retyped(x, t)
      \/ \E x \in Fresh : \E next \in Live(rows) \cup {AtEnd} : table = Place(Begun(x), x, next)
      \/ \E x \in Live(rows) : \E next \in (Live(rows) \ {x}) \cup {AtEnd} :
            table = Place(rows, x, next)
      \/ \E x \in Live(rows) : table = Deleted(x)
      \/ \E x \in Live(rows) : table = Trashed(x)
  <2>1. table \in Moves => \E x \in Live(rows) : \E next \in (Live(rows) \ {x}) \cup {AtEnd} :
                               table = Place(rows, x, next)
    BY DEF Moves
  <2>2. \/ \E x \in Live(rows) : \E t \in Texts : table = Retyped(x, t)
        \/ \E x \in Fresh : table = Place(Begun(x), x, AtEnd)
        \/ \E x \in Fresh : \E next \in Live(rows) : table = Place(Begun(x), x, next)
        \/ table \in Moves
        \/ \E x \in Live(rows) : table = Deleted(x)
        \/ \E x \in Live(rows) : table = Trashed(x)
    BY DEF Planned
  <2>3. QED
    BY <2>1, <2>2
<1>8. Goal(table)
  BY <1>2, <1>3, <1>4, <1>5, <1>6, <1>7
<1>9. QED
  BY <1>8 DEF Goal

\* A restore fits as a plan that joins nothing.
LEMMA RestoredFits ==
    ASSUME rows \in Table
    PROVE  /\ \A table \in Restored : table \in Table /\ Fits(table, Alone)
           /\ \A x \in Present(rows), t \in Texts :
                 Retyped(x, t) \in Table /\ Fits(Retyped(x, t), Alone)
<1>1. \A x \in Present(rows) : x \in Rows /\ rows[x] # NoRow
  BY DEF Present
<1>2. ASSUME NEW table \in Restored
      PROVE  table \in Table /\ Fits(table, Alone)
  <2>1. PICK x \in Present(rows) : table = Reseated(Revived(x), x)
    BY <1>2 DEF Restored
  <2> DEFINE t == Revived(x)
  <2>2. PICK r \in Node : t = [rows EXCEPT ![x] = r]
    BY RowsPut
  <2> HIDE DEF t
  <2>3. t \in Table /\ t[x] = r
    BY <1>1, <2>2 DEF Table
  <2>4. Fits(t, Alone)
    BY <1>1, <2>2, PutFits
  <2>5. x \in Present(t)
    BY <1>1, <2>3, NoRowAssumption DEF Present
  <2>6. Rekeyed(t, Reseated(t, x))
    BY <2>3, <2>5, ReseatedKeys
  <2>7. QED
    BY <2>1, <2>4, <2>6, FitsRekeyed DEF t
<1>3. ASSUME NEW x \in Present(rows), NEW t \in Texts
      PROVE  Retyped(x, t) \in Table /\ Fits(Retyped(x, t), Alone)
  <2>1. PICK r \in Node : Retyped(x, t) = [rows EXCEPT ![x] = r]
    BY RowsPut
  <2>2. x \in Rows /\ rows[x] # NoRow
    BY <1>1
  <2>3. QED
    BY <2>1, <2>2, PutFits
<1>4. QED
  BY <1>2, <1>3

-----------------------------------------------------------------------------
(* A list of mutations, one row at a time.                                 *)

\* The rows a list of mutations names.
Ids(p) == {p[i].id : i \in DOMAIN p}

\* The last mutation of a row in a list, and the first.
LastAt(p, x, i) == i \in DOMAIN p /\ p[i].id = x /\ \A j \in DOMAIN p : p[j].id = x => j <= i
FirstAt(p, x, i) == i \in DOMAIN p /\ p[i].id = x /\ \A j \in DOMAIN p : p[j].id = x => i <= j

\* What the last of some mutations makes of a row, and what the first does.
Final(p, x) == p[CHOOSE i : LastAt(p, x, i)].row
Initial(p, x) == p[CHOOSE i : FirstAt(p, x, i)].row

\* A row the list names has a last mutation in it, and a first.
LEMMA LastOne ==
    ASSUME NEW p \in Seq(Mutation), NEW x \in Ids(p)
    PROVE  \E i \in 1 .. Len(p) : LastAt(p, x, i) /\ Final(p, x) = p[i].row
<1> DEFINE I == {i \in 1 .. Len(p) : p[i].id = x}
<1>1. Len(p) \in Nat /\ I \subseteq 1 .. Len(p) /\ I # {} /\ DOMAIN p = 1 .. Len(p)
  BY DEF Ids
<1>2. Max(I) \in I /\ \A j \in I : j <= Max(I)
  <2> HIDE DEF I
  <2> QED
    BY <1>1, SomePlaces
<1>3. LastAt(p, x, Max(I))
  BY <1>1, <1>2 DEF LastAt
<1>4. \A i, j : LastAt(p, x, i) /\ LastAt(p, x, j) => i = j
  <2> SUFFICES ASSUME NEW i, NEW j, LastAt(p, x, i), LastAt(p, x, j) PROVE i = j
    OBVIOUS
  <2>1. i \in Nat /\ j \in Nat /\ i <= j /\ j <= i
    BY <1>1 DEF LastAt
  <2>2. QED
    BY <2>1
<1>5. (CHOOSE i : LastAt(p, x, i)) = Max(I)
  BY <1>3, <1>4
<1>6. QED
  BY <1>2, <1>3, <1>5 DEF Final

\* The same of the first.
LEMMA FirstOne ==
    ASSUME NEW p \in Seq(Mutation), NEW x \in Ids(p)
    PROVE  \E i \in 1 .. Len(p) : FirstAt(p, x, i) /\ Initial(p, x) = p[i].row
<1> DEFINE I == {i \in 1 .. Len(p) : p[i].id = x}
<1>1. Len(p) \in Nat /\ I \subseteq 1 .. Len(p) /\ I # {} /\ DOMAIN p = 1 .. Len(p)
  BY DEF Ids
<1>2. Min(I) \in I /\ \A j \in I : Min(I) <= j
  <2> HIDE DEF I
  <2> QED
    BY <1>1, SomePlaces
<1>3. FirstAt(p, x, Min(I))
  BY <1>1, <1>2 DEF FirstAt
<1>4. \A i, j : FirstAt(p, x, i) /\ FirstAt(p, x, j) => i = j
  <2> SUFFICES ASSUME NEW i, NEW j, FirstAt(p, x, i), FirstAt(p, x, j) PROVE i = j
    OBVIOUS
  <2>1. i \in Nat /\ j \in Nat /\ i <= j /\ j <= i
    BY <1>1 DEF FirstAt
  <2>2. QED
    BY <2>1
<1>5. (CHOOSE i : FirstAt(p, x, i)) = Min(I)
  BY <1>3, <1>4
<1>6. QED
  BY <1>2, <1>3, <1>5 DEF Initial

\* The last mutation of a row is the only one that no other of it follows.
LEMMA LastIs ==
    ASSUME NEW p \in Seq(Mutation), NEW x, NEW i \in 1 .. Len(p), p[i].id = x,
           \A j \in i + 1 .. Len(p) : p[j].id # x
    PROVE  LastAt(p, x, i) /\ Final(p, x) = p[i].row /\ x \in Ids(p)
<1>1. Len(p) \in Nat /\ DOMAIN p = 1 .. Len(p) /\ i \in Nat
  OBVIOUS
<1>2. \A j \in DOMAIN p : p[j].id = x => j <= i
  <2> SUFFICES ASSUME NEW j \in DOMAIN p, p[j].id = x, ~(j <= i) PROVE FALSE
    OBVIOUS
  <2>1. j \in i + 1 .. Len(p)
    BY <1>1
  <2>2. QED
    BY <2>1
<1>3. LastAt(p, x, i) /\ x \in Ids(p)
  BY <1>1, <1>2 DEF LastAt, Ids
<1>4. PICK k \in 1 .. Len(p) : LastAt(p, x, k) /\ Final(p, x) = p[k].row
  BY <1>3, LastOne
<1>5. k = i
  <2>1. k <= i /\ i <= k
    BY <1>1, <1>3, <1>4 DEF LastAt
  <2>2. QED
    BY <1>1, <2>1
<1>6. QED
  BY <1>3, <1>4, <1>5

\* And the first the only one that follows no other.
LEMMA FirstIs ==
    ASSUME NEW p \in Seq(Mutation), NEW x, NEW i \in 1 .. Len(p), p[i].id = x,
           \A j \in 1 .. i - 1 : p[j].id # x
    PROVE  FirstAt(p, x, i) /\ Initial(p, x) = p[i].row /\ x \in Ids(p)
<1>1. Len(p) \in Nat /\ DOMAIN p = 1 .. Len(p) /\ i \in Nat
  OBVIOUS
<1>2. \A j \in DOMAIN p : p[j].id = x => i <= j
  <2> SUFFICES ASSUME NEW j \in DOMAIN p, p[j].id = x, ~(i <= j) PROVE FALSE
    OBVIOUS
  <2>1. j \in 1 .. i - 1
    BY <1>1
  <2>2. QED
    BY <2>1
<1>3. FirstAt(p, x, i) /\ x \in Ids(p)
  BY <1>1, <1>2 DEF FirstAt, Ids
<1>4. PICK k \in 1 .. Len(p) : FirstAt(p, x, k) /\ Initial(p, x) = p[k].row
  BY <1>3, FirstOne
<1>5. k = i
  <2>1. k <= i /\ i <= k
    BY <1>1, <1>3, <1>4 DEF FirstAt
  <2>2. QED
    BY <1>1, <2>1
<1>6. QED
  BY <1>3, <1>4, <1>5

-----------------------------------------------------------------------------
(* A commit, one mutation at a time.                                       *)

\* A row that is away: not stored, or in the trash.
Gone(r) == r = NoRow \/ ~r.live

\* What a commit of forward goes through on: what it creates is gone, what it
\* changes is there, and of a row it takes away for good it says no more.
Ready(forward, inverse) ==
    \A x \in Ids(forward) :
        /\ \A i \in DOMAIN forward : forward[i].id = x /\ forward[i].row = NoRow =>
               LastAt(forward, x, i) \/ x \in stated
        /\ x \in Creates(inverse) => Gone(rows[x])
        /\ x \notin Creates(inverse) => rows[x] # NoRow

\* Where the loop is after i mutations, and what it has made of a row.
Untouched(p, x, i) == \A j \in 1 .. i : p[j].id # x
LastSoFar(p, x, i, j) == j \in 1 .. i /\ p[j].id = x /\ \A k \in j + 1 .. i : p[k].id # x

\* What the first i mutations of p made of row x: r is the table they leave, c the rows
\* still to be created, q the list that takes p back.
So(p, q, i, r, c, x) ==
    /\ x \in c /\ x \in Ids(p) => Gone(r[x])
    /\ x \notin c /\ (\E k \in i + 1 .. Len(p) : p[k].id = x) => r[x] # NoRow
    /\ Untouched(p, x, i) => r[x] = rows[x] /\ (x \in c <=> x \in Creates(q))
    /\ \A j \in 1 .. i : LastSoFar(p, x, i, j) =>
          IF p[j].row # NoRow THEN r[x] = p[j].row
          ELSE r[x] = NoRow \/ (x \in stated /\ ~r[x].live)
    /\ x \in stated /\ ~Untouched(p, x, i) /\ (x \in Creates(q) => Initial(p, x) # NoRow) =>
          r[x] # NoRow

\* The transaction t has gone through so far, and is where i mutations take it.
Along(p, q, i, t) ==
    \E r \in Table, c \in SUBSET Rows :
        /\ t = [ok |-> TRUE, rows |-> r, creates |-> c]
        /\ \A x \in Rows : So(p, q, i, r, c, x)

\* mutations.rs:266: a removal.
LEMMA RemovedRow ==
    ASSUME NEW r \in Table, NEW c, NEW x \in Rows
    PROVE  \E s \in Node \cup {NoRow} :
              /\ s = NoRow \/ (x \in stated /\ ~s.live)
              /\ s = NoRow => x \notin stated \/ r[x] = NoRow
              /\ Removed([ok |-> TRUE, rows |-> r, creates |-> c], x)
                    = [ok |-> TRUE, rows |-> [r EXCEPT ![x] = s], creates |-> c]
<1> DEFINE t == [ok |-> TRUE, rows |-> r, creates |-> c]
           gone == IF x \notin stated THEN NoRow
                   ELSE IF r[x] = NoRow THEN NoRow ELSE [r[x] EXCEPT !.live = FALSE]
<1>1. Removed(t, x) = [t EXCEPT !.rows = [t.rows EXCEPT ![x] = gone]]
  BY DEF Removed
<1>2. r[x] \in Node \cup {NoRow}
  BY DEF Table
<1>3. gone \in Node \cup {NoRow} /\ (gone = NoRow \/ (x \in stated /\ ~gone.live))
  <2>1. CASE x \in stated /\ r[x] # NoRow
    <3>1. gone = [r[x] EXCEPT !.live = FALSE] /\ r[x] \in Node
      BY <1>2, <2>1
    <3>2. gone = [text |-> r[x].text, key |-> r[x].key, live |-> FALSE]
      BY <3>1 DEF Node
    <3>3. QED
      BY <2>1, <3>1, <3>2 DEF Node
  <2>2. CASE ~(x \in stated /\ r[x] # NoRow)
    <3>1. gone = NoRow
      BY <2>2
    <3> HIDE DEF gone
    <3>2. QED
      BY <3>1
  <2>3. QED
    BY <2>1, <2>2
<1>4. gone = NoRow => x \notin stated \/ r[x] = NoRow
  <2>1. SUFFICES ASSUME x \in stated, r[x] # NoRow PROVE gone # NoRow
    OBVIOUS
  <2>2. gone = [r[x] EXCEPT !.live = FALSE] /\ r[x] \in Node
    BY <1>2, <2>1
  <2>3. gone = [text |-> r[x].text, key |-> r[x].key, live |-> FALSE]
    BY <2>2 DEF Node
  <2>4. gone \in Node
    BY <2>2, <2>3 DEF Node
  <2>5. QED
    BY <2>4, NoRowAssumption
<1> HIDE DEF gone
<1>5. Removed(t, x) = [ok |-> TRUE, rows |-> [r EXCEPT ![x] = gone], creates |-> c]
  BY <1>1
<1>6. QED
  BY <1>3, <1>4, <1>5

\* What one mutation makes of the rows and of what is yet to be created.
Makes(m, r, c, s, d) ==
    /\ s \in Node \cup {NoRow} /\ d \in SUBSET Rows
    /\ \A y \in Rows \ {m.id} : y \in d <=> y \in c
    /\ m.row # NoRow => s = m.row /\ m.id \notin d
    /\ m.row = NoRow =>
          /\ d = c
          /\ s = NoRow \/ (m.id \in stated /\ ~s.live)
          /\ s = NoRow => m.id \notin stated \/ r[m.id] = NoRow

\* mutations.rs:44: what it makes of them when it goes through.
LEMMA Applied ==
    ASSUME NEW r \in Table, NEW c \in SUBSET Rows, NEW m \in Mutation,
           m.row # NoRow /\ m.id \in c => Gone(r[m.id]),
           m.row # NoRow /\ m.id \notin c => r[m.id] # NoRow
    PROVE  \E s, d :
              /\ Makes(m, r, c, s, d)
              /\ Apply([ok |-> TRUE, rows |-> r, creates |-> c], m)
                    = [ok |-> TRUE, rows |-> [r EXCEPT ![m.id] = s], creates |-> d]
<1> DEFINE t == [ok |-> TRUE, rows |-> r, creates |-> c]
           x == m.id
<1>1. x \in Rows /\ m.row \in Node \cup {NoRow} /\ t.ok /\ t.rows = r /\ t.creates = c
  BY DEF Mutation
<1>2. CASE m.row = NoRow
  <2>1. Apply(t, m) = Removed(t, x)
    <3> HIDE DEF t
    <3>1. QED
      BY <1>1, <1>2, Zenon DEF Apply
  <2>2. PICK s \in Node \cup {NoRow} :
          /\ s = NoRow \/ (x \in stated /\ ~s.live)
          /\ s = NoRow => x \notin stated \/ r[x] = NoRow
          /\ Removed(t, x) = [ok |-> TRUE, rows |-> [r EXCEPT ![x] = s], creates |-> c]
    <3>1. \A y \in Rows : \E s \in Node \cup {NoRow} :
              /\ s = NoRow \/ (y \in stated /\ ~s.live)
              /\ s = NoRow => y \notin stated \/ r[y] = NoRow
              /\ Removed(t, y) = [ok |-> TRUE, rows |-> [r EXCEPT ![y] = s], creates |-> c]
      BY RemovedRow
    <3> HIDE DEF t
    <3>2. QED
      BY <1>1, <3>1, Zenon
  <2>3. Apply(t, m) = [ok |-> TRUE, rows |-> [r EXCEPT ![x] = s], creates |-> c]
    BY <2>1, <2>2
  <2>4. Makes(m, r, c, s, c)
    BY <1>2, <2>2 DEF Makes
  <2>5. QED
    BY <2>3, <2>4
<1>3. CASE m.row # NoRow /\ x \in c
  <2>1. Apply(t, m) = Inserted(t, m)
    <3> HIDE DEF t
    <3>1. QED
      BY <1>1, <1>3, Zenon DEF Apply
  <2>2. Inserted(t, m) = [ok |-> r[x] = NoRow \/ ~r[x].live,
                          rows |-> [r EXCEPT ![x] = m.row], creates |-> c \ {x}]
    BY DEF Inserted
  <2>3. (r[x] = NoRow \/ ~r[x].live) = TRUE
    BY <1>3 DEF Gone
  <2>4. Apply(t, m) = [ok |-> TRUE, rows |-> [r EXCEPT ![x] = m.row], creates |-> c \ {x}]
    BY <2>1, <2>2, <2>3, Zenon
  <2>5. c \ {x} \in SUBSET Rows /\ \A y \in Rows \ {x} : y \in c \ {x} <=> y \in c
    OBVIOUS
  <2>6. Makes(m, r, c, m.row, c \ {x})
    BY <1>1, <1>3, <2>5 DEF Makes
  <2>7. QED
    BY <2>4, <2>6
<1>4. CASE m.row # NoRow /\ x \notin c
  <2>1. Apply(t, m) = Updated(t, m)
    <3> HIDE DEF t
    <3>1. QED
      BY <1>1, <1>4, Zenon DEF Apply
  <2>2. Updated(t, m) = [ok |-> r[x] # NoRow, rows |-> [r EXCEPT ![x] = m.row], creates |-> c]
    BY DEF Updated
  <2>3. (r[x] # NoRow) = TRUE
    BY <1>4
  <2>4. Apply(t, m) = [ok |-> TRUE, rows |-> [r EXCEPT ![x] = m.row], creates |-> c]
    BY <2>1, <2>2, <2>3, Zenon
  <2>5. Makes(m, r, c, m.row, c)
    BY <1>1, <1>4 DEF Makes
  <2>6. QED
    BY <2>4, <2>5
<1>5. QED
  BY <1>2, <1>3, <1>4

\* A mutation on what the loop has made so far goes through, and keeps the tale.
LEMMA OneMore ==
    ASSUME rows \in Table, NEW p \in Seq(Mutation), NEW q \in Seq(Mutation), Ready(p, q),
           NEW i \in 0 .. Len(p), i # Len(p), NEW t, Along(p, q, i, t)
    PROVE  Along(p, q, i + 1, Apply(t, p[i + 1]))
<1> DEFINE m == p[i + 1]
           x == m.id
           n == Len(p)
<1>0. n \in Nat /\ i \in Nat /\ i + 1 \in 1 .. n /\ DOMAIN p = 1 .. n
  OBVIOUS
<1>1. m \in Mutation /\ x \in Rows /\ x \in Ids(p) /\ m.row \in Node \cup {NoRow}
  <2>1. m \in Mutation
    <3>1. \A k \in 1 .. Len(p) : p[k] \in Mutation
      OBVIOUS
    <3>2. QED
      BY <1>0, <3>1
  <2>2. x \in Ids(p)
    BY <1>0 DEF Ids
  <2>3. QED
    BY <2>1, <2>2 DEF Mutation
<1>2. PICK r \in Table, c \in SUBSET Rows :
        /\ t = [ok |-> TRUE, rows |-> r, creates |-> c]
        /\ \A y \in Rows : So(p, q, i, r, c, y)
  BY DEF Along
<1>3. /\ x \in c => Gone(r[x])
      /\ x \notin c => r[x] # NoRow
  <2>1. So(p, q, i, r, c, x)
    BY <1>1, <1>2
  <2>2. \E k \in i + 1 .. n : p[k].id = x
    <3>1. \A k \in 1 .. Len(p) : k \in k .. Len(p)
      OBVIOUS
    <3>2. QED
      BY <1>0, <3>1
  <2>3. QED
    BY <1>1, <2>1, <2>2 DEF So
<1> DEFINE u == Apply(t, m)
<1>4. PICK s, d : /\ Makes(m, r, c, s, d)
                  /\ u = [ok |-> TRUE, rows |-> [r EXCEPT ![m.id] = s], creates |-> d]
  <2>1. Apply(t, m) = Apply([ok |-> TRUE, rows |-> r, creates |-> c], m)
    BY <1>2
  <2>2. \E s, d :
              /\ Makes(m, r, c, s, d)
              /\ Apply([ok |-> TRUE, rows |-> r, creates |-> c], m)
                    = [ok |-> TRUE, rows |-> [r EXCEPT ![m.id] = s], creates |-> d]
    <3> HIDE DEF m
    <3>1. QED
      BY <1>1, <1>3, Applied
  <2>3. QED
    BY <2>1, <2>2
<1> HIDE DEF u
<1>41. /\ s \in Node \cup {NoRow} /\ d \in SUBSET Rows
       /\ \A y \in Rows \ {x} : y \in d <=> y \in c
       /\ m.row # NoRow => s = m.row /\ x \notin d
       /\ m.row = NoRow =>
             /\ d = c
             /\ s = NoRow \/ (x \in stated /\ ~s.live)
             /\ s = NoRow => x \notin stated \/ r[x] = NoRow
  BY <1>4 DEF Makes
<1> DEFINE r1 == [r EXCEPT ![x] = s]
<1>5. r1 \in Table /\ r1[x] = s /\ \A y \in Rows \ {x} : r1[y] = r[y]
  BY <1>1, <1>41 DEF Table
<1>6. u = [ok |-> TRUE, rows |-> r1, creates |-> d]
  BY <1>4
<1> HIDE DEF r1, u, n
<1>7. ASSUME NEW y \in Rows, y # x
      PROVE  So(p, q, i + 1, r1, d, y)
  <2>1. So(p, q, i, r, c, y)
    BY <1>2
  <2>2. r1[y] = r[y] /\ (y \in d <=> y \in c)
    BY <1>41, <1>5, <1>7
  <2>3. (\E k \in i + 1 + 1 .. n : p[k].id = y) => (\E k \in i + 1 .. n : p[k].id = y)
    BY <1>0
  <2>4. Untouched(p, y, i + 1) <=> Untouched(p, y, i)
    <3>1. 1 .. i + 1 = (1 .. i) \cup {i + 1}
      BY <1>0
    <3>2. QED
      BY <1>7, <3>1 DEF Untouched
  <2>5. ASSUME NEW j \in 1 .. i + 1, LastSoFar(p, y, i + 1, j)
        PROVE  j \in 1 .. i /\ LastSoFar(p, y, i, j)
    <3>1. j # i + 1
      BY <1>7, <2>5 DEF LastSoFar
    <3>2. QED
      BY <1>0, <2>5, <3>1 DEF LastSoFar
  <2>6. QED
    BY <2>1, <2>2, <2>3, <2>4, <2>5 DEF So, n
<1>8. So(p, q, i + 1, r1, d, x)
  <2>1. So(p, q, i, r, c, x)
    BY <1>1, <1>2
  <2>2. x \in d => Gone(r1[x])
    BY <1>3, <1>41, <1>5 DEF Gone
  <2>3. x \notin d /\ (\E k \in i + 1 + 1 .. n : p[k].id = x) => r1[x] # NoRow
    <3>1. SUFFICES ASSUME x \notin d, NEW k \in i + 1 + 1 .. n, p[k].id = x PROVE r1[x] # NoRow
      OBVIOUS
    <3>2. CASE m.row # NoRow
      BY <1>41, <1>5, <3>2
    <3>3. CASE m.row = NoRow
      <4>1. ~LastAt(p, x, i + 1)
        BY <1>0, <3>1 DEF LastAt
      <4>2. x \in stated
        BY <1>0, <1>1, <3>3, <4>1 DEF Ready
      <4>3. x \notin c /\ r[x] # NoRow
        BY <1>3, <1>41, <3>1, <3>3
      <4>4. QED
        BY <1>41, <1>5, <3>3, <4>2, <4>3
    <3>4. QED
      BY <3>2, <3>3
  <2>4. ~Untouched(p, x, i + 1)
    BY <1>0 DEF Untouched
  <2>5. \A j \in 1 .. i + 1 : LastSoFar(p, x, i + 1, j) =>
          IF p[j].row # NoRow THEN r1[x] = p[j].row
          ELSE r1[x] = NoRow \/ (x \in stated /\ ~r1[x].live)
    <3>1. SUFFICES ASSUME NEW j \in 1 .. i + 1, LastSoFar(p, x, i + 1, j)
                   PROVE  IF p[j].row # NoRow THEN r1[x] = p[j].row
                          ELSE r1[x] = NoRow \/ (x \in stated /\ ~r1[x].live)
      OBVIOUS
    <3>2. j = i + 1
      BY <1>0, <3>1 DEF LastSoFar
    <3>3. p[j] = m
      BY <3>2
    <3> HIDE DEF m, x
    <3>4. QED
      BY <1>41, <1>5, <3>3
  <2>6. x \in stated /\ (x \in Creates(q) => Initial(p, x) # NoRow) => r1[x] # NoRow
    <3>1. SUFFICES ASSUME x \in stated, x \in Creates(q) => Initial(p, x) # NoRow
                   PROVE  r1[x] # NoRow
      OBVIOUS
    <3>2. CASE m.row # NoRow
      BY <1>41, <1>5, <3>2
    <3>3. CASE m.row = NoRow /\ ~Untouched(p, x, i)
      BY <1>41, <1>5, <2>1, <3>1, <3>3 DEF So
    <3>4. CASE m.row = NoRow /\ Untouched(p, x, i)
      <4>1. Initial(p, x) = NoRow
        BY <1>0, <3>4, FirstIs DEF Untouched
      <4>2. r[x] = rows[x] /\ rows[x] # NoRow
        BY <1>1, <2>1, <3>1, <3>4, <4>1 DEF So, Ready
      <4>3. QED
        BY <1>41, <1>5, <3>1, <3>4, <4>2
    <3>5. QED
      BY <3>2, <3>3, <3>4
  <2>7. QED
    BY <2>2, <2>3, <2>4, <2>5, <2>6 DEF So, n
<1>9. \A y \in Rows : So(p, q, i + 1, r1, d, y)
  BY <1>7, <1>8
<1>10. QED
  BY <1>41, <1>5, <1>6, <1>9 DEF Along, u

\* A statement about the naturals up to n that holds of 0, and of a successor when
\* of its predecessor, holds of them all: what it does not hold of has a least one.
LEMMA UpTo ==
    ASSUME NEW n \in Nat, NEW S, S \subseteq 0 .. n, 0 \in S,
           \A i \in 0 .. n : i \in S /\ i # n => i + 1 \in S
    PROVE  S = 0 .. n
<1> DEFINE U == {i \in 0 .. n : i \notin S}
<1>1. SUFFICES ASSUME U # {} PROVE FALSE
  OBVIOUS
<1>2. U \subseteq Nat
  OBVIOUS
<1>3. PICK m \in U : \A k \in U : m <= k
  <2> HIDE DEF U
  <2>1. QED
    BY <1>1, <1>2, SomeLeast
<1>4. m \in 1 .. n
  OBVIOUS
<1>5. m - 1 \in 0 .. n /\ m - 1 # n /\ m - 1 + 1 = m /\ ~(m <= m - 1)
  BY <1>4
<1>6. m - 1 \in S
  BY <1>3, <1>5
<1>7. m \in S
  BY <1>5, <1>6
<1>8. QED
  BY <1>7

\* The loop over a list is a function of how far it is.
Loop(g, p, n, t) == g = [i \in 0 .. n |-> IF i = 0 THEN t ELSE Apply(g[i - 1], p[i])]

\* There is such a function for every list.
LEMMA LoopExists ==
    ASSUME NEW p, NEW n \in Nat, NEW t
    PROVE  \E g : Loop(g, p, n, t)
<1> DEFINE S == {i \in 0 .. n : \E g : Loop(g, p, i, t)}
<1>1. 0 \in S
  <2> DEFINE g == [i \in 0 .. 0 |-> t]
  <2>1. g = [i \in 0 .. 0 |-> IF i = 0 THEN t ELSE Apply(g[i - 1], p[i])]
    OBVIOUS
  <2> HIDE DEF g
  <2>2. Loop(g, p, 0, t)
    BY <2>1 DEF Loop
  <2>3. QED
    BY <2>2
<1>2. ASSUME NEW i \in 0 .. n, i \in S, i # n
      PROVE  i + 1 \in S
  <2>1. PICK g : Loop(g, p, i, t)
    BY <1>2
  <2> DEFINE h == [k \in 0 .. i + 1 |-> IF k = 0 THEN t ELSE Apply(g[k - 1], p[k])]
             e == [k \in 0 .. i + 1 |-> IF k = 0 THEN t ELSE Apply(h[k - 1], p[k])]
  <2>2. \A k \in 0 .. i : g[k] = IF k = 0 THEN t ELSE Apply(g[k - 1], p[k])
    <3> DEFINE f == [k \in 0 .. i |-> IF k = 0 THEN t ELSE Apply(g[k - 1], p[k])]
    <3>1. g = f
      BY <2>1 DEF Loop
    <3>2. \A k \in 0 .. i : f[k] = IF k = 0 THEN t ELSE Apply(g[k - 1], p[k])
      OBVIOUS
    <3> HIDE DEF f
    <3>3. QED
      BY <3>1, <3>2
  <2>3. \A k \in 0 .. i + 1 : h[k] = IF k = 0 THEN t ELSE Apply(g[k - 1], p[k])
    OBVIOUS
  <2> HIDE DEF h
  <2>4. \A k \in 0 .. i : h[k] = g[k]
    <3>1. \A k \in 0 .. i : k \in 0 .. i + 1
      OBVIOUS
    <3>2. QED
      BY <2>2, <2>3, <3>1
  <2>5. \A k \in 0 .. i + 1 : k # 0 => h[k - 1] = g[k - 1]
    <3>1. \A k \in 0 .. i + 1 : k # 0 => k - 1 \in 0 .. i
      OBVIOUS
    <3>2. QED
      BY <2>4, <3>1
  <2>6. \A k \in 0 .. i + 1 : h[k] = IF k = 0 THEN t ELSE Apply(h[k - 1], p[k])
    BY <2>3, <2>5
  <2>7. h = [k \in 0 .. i + 1 |-> h[k]]
    BY DEF h
  <2>8. h = e
    BY <2>6, <2>7
  <2>9. Loop(h, p, i + 1, t)
    BY <2>8 DEF Loop
  <2>10. i + 1 \in 0 .. n
    BY <1>2
  <2>11. QED
    BY <2>9, <2>10
<1>3. S \subseteq 0 .. n
  OBVIOUS
<1>4. S = 0 .. n
  <2> HIDE DEF S
  <2>1. QED
    BY <1>1, <1>2, <1>3, UpTo
<1>5. n \in S
  BY <1>4
<1>6. QED
  BY <1>5

\* mutations.rs:32: a patch is applied by such a loop.
LEMMA TransactionLoops ==
    ASSUME NEW p \in Seq(Mutation), NEW q
    PROVE  \E g : /\ Transaction(p, q) = g[Len(p)]
                  /\ g[0] = [ok |-> TRUE, rows |-> rows, creates |-> Creates(q)]
                  /\ \A i \in 1 .. Len(p) : g[i] = Apply(g[i - 1], p[i])
<1> DEFINE t == [ok |-> TRUE, rows |-> rows, creates |-> Creates(q)]
           n == Len(p)
           g == CHOOSE g : g = [i \in 0 .. n |-> IF i = 0 THEN t ELSE Apply(g[i - 1], p[i])]
<1>1. n \in Nat
  OBVIOUS
<1>2. \E h : h = [i \in 0 .. n |-> IF i = 0 THEN t ELSE Apply(h[i - 1], p[i])]
  <2> HIDE DEF t, n
  <2>1. PICK h : Loop(h, p, n, t)
    BY <1>1, LoopExists
  <2>2. h = [i \in 0 .. n |-> IF i = 0 THEN t ELSE Apply(h[i - 1], p[i])]
    BY <2>1, Zenon DEF Loop
  <2>3. QED
    BY <2>2
<1>3. g = [i \in 0 .. n |-> IF i = 0 THEN t ELSE Apply(g[i - 1], p[i])]
  <2> HIDE DEF t, n
  <2>1. QED
    BY <1>2
<1>4. Transaction(p, q) = g[n]
  BY DEF Transaction
<1> DEFINE f == [i \in 0 .. n |-> IF i = 0 THEN t ELSE Apply(g[i - 1], p[i])]
<1>5. \A i \in 0 .. n : f[i] = IF i = 0 THEN t ELSE Apply(g[i - 1], p[i])
  OBVIOUS
<1>6. g = f
  BY <1>3
<1> HIDE DEF g, f, t
<1>7. g[0] = t /\ \A i \in 1 .. n : g[i] = Apply(g[i - 1], p[i])
  BY <1>1, <1>5, <1>6
<1>8. QED
  BY <1>4, <1>7 DEF t

\* What a row says after an undo or a redo, and what an entry left it saying: gone
\* is gone, though the vault may have to be told.
Bears(st, x, r, v) ==
    IF v = NoRow THEN r # NoRow => ~r.live /\ x \in st
    ELSE /\ r # NoRow /\ (r.live <=> v.live)
         /\ v.live => r.text = v.text

\* mutations.rs:10: a patch that is ready goes through, and each row it names says
\* what the last mutation of it says.
LEMMA Replays ==
    ASSUME rows \in Table, NEW p \in Seq(Mutation), NEW q \in Seq(Mutation), Ready(p, q)
    PROVE  LET t == Transaction(p, q) IN
           /\ t.ok /\ t.rows \in Table
           /\ \A x \in Rows \ Ids(p) : t.rows[x] = rows[x]
           /\ \A x \in Ids(p) :
                 /\ Bears(stated, x, t.rows[x], Final(p, x))
                 /\ x \in stated /\ (x \in Creates(q) => Initial(p, x) # NoRow) =>
                       t.rows[x] # NoRow
<1> DEFINE n == Len(p)
<1>1. n \in Nat /\ DOMAIN p = 1 .. n
  OBVIOUS
<1>2. PICK g : /\ Transaction(p, q) = g[n]
               /\ g[0] = [ok |-> TRUE, rows |-> rows, creates |-> Creates(q)]
               /\ \A i \in 1 .. n : g[i] = Apply(g[i - 1], p[i])
  BY TransactionLoops
<1>3. Creates(q) \in SUBSET Rows
  <2>1. \A i \in 1 .. Len(q) : q[i] \in Mutation
    OBVIOUS
  <2>2. \A i \in 1 .. Len(q) : q[i].id \in Rows
    BY <2>1 DEF Mutation
  <2>3. QED
    BY <2>2 DEF Creates
<1>4. \A x \in Ids(p) : x \in Rows
  <2>1. \A i \in DOMAIN p : p[i] \in Mutation
    OBVIOUS
  <2>2. \A i \in DOMAIN p : p[i].id \in Rows
    BY <2>1 DEF Mutation
  <2>3. QED
    BY <2>2 DEF Ids
<1>5. Along(p, q, 0, g[0])
  <2>1. ASSUME NEW x \in Rows
        PROVE  So(p, q, 0, rows, Creates(q), x)
    <3>1. x \in Creates(q) /\ x \in Ids(p) => Gone(rows[x])
      BY DEF Ready
    <3>2. x \notin Creates(q) /\ (\E k \in 0 + 1 .. Len(p) : p[k].id = x) => rows[x] # NoRow
      <4>1. (\E k \in 0 + 1 .. Len(p) : p[k].id = x) => x \in Ids(p)
        BY <1>1 DEF Ids
      <4>2. QED
        BY <4>1 DEF Ready
    <3>3. Untouched(p, x, 0) /\ 1 .. 0 = {}
      BY DEF Untouched
    <3>4. QED
      BY <3>1, <3>2, <3>3 DEF So
  <2>2. QED
    BY <1>2, <1>3, <2>1 DEF Along
<1> DEFINE S == {i \in 0 .. n : Along(p, q, i, g[i])}
<1>6. ASSUME NEW i \in 0 .. n, i \in S, i # n
      PROVE  i + 1 \in S
  <2>1. i + 1 \in 1 .. n /\ i + 1 \in 0 .. n /\ i + 1 - 1 = i
    BY <1>6
  <2>2. g[i + 1] = Apply(g[i], p[i + 1])
    BY <1>2, <2>1
  <2>3. Along(p, q, i, g[i])
    BY <1>6
  <2>4. Along(p, q, i + 1, g[i + 1])
    BY <1>6, <2>2, <2>3, OneMore
  <2>5. QED
    BY <2>1, <2>4
<1>7. S = 0 .. n
  <2>1. 0 \in S /\ S \subseteq 0 .. n
    BY <1>1, <1>5
  <2> HIDE DEF S, n
  <2>2. QED
    BY <1>1, <1>6, <2>1, UpTo
<1>8. Along(p, q, n, g[n])
  <2>1. n \in S
    BY <1>1, <1>7
  <2>2. QED
    BY <2>1
<1> HIDE DEF S
<1>9. PICK r \in Table, c \in SUBSET Rows :
        /\ g[n] = [ok |-> TRUE, rows |-> r, creates |-> c]
        /\ \A x \in Rows : So(p, q, n, r, c, x)
  BY <1>8 DEF Along
<1>10. Transaction(p, q).ok /\ Transaction(p, q).rows = r
  BY <1>2, <1>9
<1>11. ASSUME NEW x \in Rows \ Ids(p)
       PROVE  r[x] = rows[x]
  <2>1. Untouched(p, x, n)
    BY <1>1 DEF Untouched, Ids
  <2>2. QED
    BY <1>9, <2>1 DEF So
<1>12. ASSUME NEW x \in Ids(p)
       PROVE  /\ Bears(stated, x, r[x], Final(p, x))
              /\ x \in stated /\ (x \in Creates(q) => Initial(p, x) # NoRow) => r[x] # NoRow
  <2>1. PICK i \in 1 .. n : LastAt(p, x, i) /\ Final(p, x) = p[i].row
    BY LastOne
  <2>2. LastSoFar(p, x, n, i)
    <3>1. \A k \in i + 1 .. n : k \in 1 .. n /\ ~(k <= i)
      BY <1>1
    <3>2. QED
      BY <1>1, <2>1, <3>1 DEF LastAt, LastSoFar
  <2>3. So(p, q, n, r, c, x)
    BY <1>4, <1>9
  <2>4. IF p[i].row # NoRow THEN r[x] = p[i].row
        ELSE r[x] = NoRow \/ (x \in stated /\ ~r[x].live)
    BY <2>2, <2>3 DEF So
  <2>5. ~Untouched(p, x, n)
    BY <2>1 DEF LastAt, Untouched
  <2>6. QED
    BY <2>1, <2>3, <2>4, <2>5 DEF So, Bears
<1>13. QED
  BY <1>9, <1>10, <1>11, <1>12

-----------------------------------------------------------------------------
(* The two stacks are one tale: what was done, oldest first, then what can *)
(* be done again, the next first.                                          *)

\* What one says through another, or back.
LEMMA BearsThrough ==
    ASSUME NEW st, NEW x, NEW r, NEW w, NEW v,
           Bears(st, x, r, w), w # NoRow, Bears(st, x, w, v)
    PROVE  Bears(st, x, r, v)
BY DEF Bears

\* Back through what the row was meanwhile.
LEMMA BearsBack ==
    ASSUME NEW st, NEW x, NEW r, NEW w, NEW v,
           Bears(st, x, r, v), w # NoRow, Bears(st, x, w, v),
           x \in st => r # NoRow
    PROVE  Bears(st, x, r, w)
BY DEF Bears

\* The vault may have been told more, and keys may have changed.
LEMMA BearsStill ==
    ASSUME NEW st, NEW more, st \subseteq more, NEW x, NEW r, NEW s, NEW v,
           Alike(r, s), Bears(st, x, r, v)
    PROVE  Bears(more, x, s, v)
BY DEF Bears, Alike

\* An entry that can be undone and done again: a row it creates is created first,
\* and away in the end when it goes back.
Sound(st, e) ==
    /\ Ids(e.forward) = Ids(e.inverse)
    /\ \A x \in Ids(e.forward) :
         /\ \A i \in DOMAIN e.inverse : e.inverse[i].id = x /\ e.inverse[i].row = NoRow =>
                LastAt(e.inverse, x, i)
         /\ \A i \in DOMAIN e.forward : e.forward[i].id = x /\ e.forward[i].row = NoRow =>
                LastAt(e.forward, x, i) \/ x \in st
         /\ x \in Creates(e.forward) => Gone(Final(e.forward, x))
         /\ x \in Creates(e.inverse) => Initial(e.forward, x) # NoRow

\* No entry of these names the row.
Silent(tale, x, a, b) == \A k \in a .. b : x \notin Ids(tale[k].forward)

\* Two entries after one another in what they do to a row.
Neighbours(tale, x, i, j) ==
    /\ i < j
    /\ x \in Ids(tale[i].forward) /\ x \in Ids(tale[j].forward)
    /\ Silent(tale, x, i + 1, j - 1)

\* Every entry that can be undone or done again is sound.
AllSound(tale, f, st) == \A k \in f + 1 .. Len(tale) : Sound(st, tale[k])

\* The later of two found the row as the earlier left it.
Linked(tale, f, st) ==
    \A i, j \in f + 1 .. Len(tale), x \in Rows : Neighbours(tale, x, i, j) =>
        /\ Final(tale[j].inverse, x) # NoRow
        /\ Bears(st, x, Final(tale[j].inverse, x), Final(tale[i].forward, x))

\* A row is as the last entry done to it left it, unless a merge has news of it,
LeftSo(tale, n, f, rs, st, news) ==
    \A x \in Rows \ news, i \in f + 1 .. n :
        x \in Ids(tale[i].forward) /\ Silent(tale, x, i + 1, n) =>
            Bears(st, x, rs[x], Final(tale[i].forward, x))

\* and as the first undone found it.
FoundSo(tale, n, f, rs, st, news) ==
    \A x \in Rows \ news, i \in n + 1 .. Len(tale) :
        x \in Ids(tale[i].forward) /\ Silent(tale, x, n + 1, i - 1) =>
            Bears(st, x, rs[x], Final(tale[i].inverse, x))

\* The tale is true: it is of entries that fit one another and the table, n of them done,
\* the first f of them out of reach.
Told(tale, n, f, rs, st, news) ==
    /\ AllSound(tale, f, st)
    /\ Linked(tale, f, st)
    /\ LeftSo(tale, n, f, rs, st, news)
    /\ FoundSo(tale, n, f, rs, st, news)

\* A table in which a list was replayed.
Replayed(p, rs, rs2, st) ==
    /\ \A x \in Rows \ Ids(p) : rs2[x] = rs[x]
    /\ \A x \in Ids(p) : Bears(st, x, rs2[x], Final(p, x))

\* service.rs:464: an undo moves one entry over.
LEMMA ToldUndo ==
    ASSUME NEW tale \in Seq(Entry), NEW f \in Nat, NEW n \in Nat, f < n, n <= Len(tale),
           NEW rs, NEW st, NEW rs2, Told(tale, n, f, rs, st, {}),
           Replayed(tale[n].inverse, rs, rs2, st)
    PROVE  Told(tale, n - 1, f, rs2, st, {})
<1>1. Len(tale) \in Nat /\ n \in f + 1 .. Len(tale)
  OBVIOUS
<1>2. Ids(tale[n].inverse) = Ids(tale[n].forward)
  BY <1>1 DEF Told, AllSound, Sound
<1>3. ASSUME NEW x \in Rows, NEW i \in f + 1 .. n - 1,
             x \in Ids(tale[i].forward), Silent(tale, x, i + 1, n - 1)
      PROVE  Bears(st, x, rs2[x], Final(tale[i].forward, x))
  <2>1. i \in f + 1 .. Len(tale) /\ i < n /\ i \in f + 1 .. n
    BY <1>1
  <2>2. CASE x \in Ids(tale[n].forward)
    <3>1. Neighbours(tale, x, i, n)
      BY <1>3, <2>1, <2>2 DEF Neighbours
    <3>2. /\ Final(tale[n].inverse, x) # NoRow
          /\ Bears(st, x, Final(tale[n].inverse, x), Final(tale[i].forward, x))
      BY <1>1, <2>1, <3>1 DEF Told, Linked
    <3>3. Bears(st, x, rs2[x], Final(tale[n].inverse, x))
      BY <1>2, <2>2 DEF Replayed
    <3>4. QED
      BY <3>2, <3>3, BearsThrough
  <2>3. CASE x \notin Ids(tale[n].forward)
    <3>1. Silent(tale, x, i + 1, n)
      <4>1. \A k \in i + 1 .. n : k \in i + 1 .. n - 1 \/ k = n
        BY <2>1
      <4>2. QED
        BY <1>3, <2>3, <4>1 DEF Silent
    <3>2. Bears(st, x, rs[x], Final(tale[i].forward, x))
      BY <1>3, <2>1, <3>1 DEF Told, LeftSo
    <3>3. rs2[x] = rs[x]
      BY <1>2, <2>3 DEF Replayed
    <3>4. QED
      BY <3>2, <3>3
  <2>4. QED
    BY <2>2, <2>3
<1>4. ASSUME NEW x \in Rows, NEW i \in n - 1 + 1 .. Len(tale),
             x \in Ids(tale[i].forward), Silent(tale, x, n - 1 + 1, i - 1)
      PROVE  Bears(st, x, rs2[x], Final(tale[i].inverse, x))
  <2>1. CASE i = n
    BY <1>2, <1>4, <2>1 DEF Replayed
  <2>2. CASE i # n
    <3>1. i \in n + 1 .. Len(tale) /\ n \in n - 1 + 1 .. i - 1
          /\ \A k \in n + 1 .. i - 1 : k \in n - 1 + 1 .. i - 1
      BY <1>1, <2>2
    <3>2. x \notin Ids(tale[n].forward) /\ Silent(tale, x, n + 1, i - 1)
      BY <1>4, <3>1 DEF Silent
    <3>3. Bears(st, x, rs[x], Final(tale[i].inverse, x))
      BY <1>4, <3>1, <3>2 DEF Told, FoundSo
    <3>4. rs2[x] = rs[x]
      BY <1>2, <3>2 DEF Replayed
    <3>5. QED
      BY <3>3, <3>4
  <2>3. QED
    BY <2>1, <2>2
<1>5. LeftSo(tale, n - 1, f, rs2, st, {}) /\ FoundSo(tale, n - 1, f, rs2, st, {})
  BY <1>3, <1>4 DEF LeftSo, FoundSo
<1>6. QED
  BY <1>5 DEF Told

\* service.rs:496: a redo moves it back.
LEMMA ToldRedo ==
    ASSUME NEW tale \in Seq(Entry), NEW f \in Nat, NEW n \in Nat, f <= n, n < Len(tale),
           NEW rs, NEW st, NEW rs2, Told(tale, n, f, rs, st, {}),
           Replayed(tale[n + 1].forward, rs, rs2, st),
           \A x \in Ids(tale[n + 1].forward) : x \in st => rs2[x] # NoRow
    PROVE  Told(tale, n + 1, f, rs2, st, {})
<1> DEFINE m == n + 1
<1>1. /\ Len(tale) \in Nat /\ m \in Nat /\ m \in f + 1 .. Len(tale) /\ f < m
      /\ m <= Len(tale) /\ m - 1 = n
  OBVIOUS
<1> HIDE DEF m
<1>2. Replayed(tale[m].forward, rs, rs2, st)
      /\ \A x \in Ids(tale[m].forward) : x \in st => rs2[x] # NoRow
  BY DEF m
<1>3. ASSUME NEW x \in Rows, NEW i \in f + 1 .. m,
             x \in Ids(tale[i].forward), Silent(tale, x, i + 1, m)
      PROVE  Bears(st, x, rs2[x], Final(tale[i].forward, x))
  <2>1. CASE i = m
    BY <1>2, <1>3, <2>1 DEF Replayed
  <2>2. CASE i # m
    <3>1. /\ i \in f + 1 .. n /\ m \in i + 1 .. m
          /\ \A k \in i + 1 .. n : k \in i + 1 .. m
      BY <1>1, <2>2
    <3>2. x \notin Ids(tale[m].forward) /\ Silent(tale, x, i + 1, n)
      BY <1>3, <3>1 DEF Silent
    <3>3. Bears(st, x, rs[x], Final(tale[i].forward, x))
      BY <1>3, <3>1, <3>2 DEF Told, LeftSo
    <3>4. rs2[x] = rs[x]
      BY <1>2, <3>2 DEF Replayed
    <3>5. QED
      BY <3>3, <3>4
  <2>3. QED
    BY <2>1, <2>2
<1>4. ASSUME NEW x \in Rows, NEW i \in m + 1 .. Len(tale),
             x \in Ids(tale[i].forward), Silent(tale, x, m + 1, i - 1)
      PROVE  Bears(st, x, rs2[x], Final(tale[i].inverse, x))
  <2>1. i \in f + 1 .. Len(tale) /\ m < i /\ i \in n + 1 .. Len(tale)
    BY <1>1
  <2>2. CASE x \in Ids(tale[m].forward)
    <3>1. Neighbours(tale, x, m, i)
      BY <1>4, <2>1, <2>2 DEF Neighbours
    <3>2. /\ Final(tale[i].inverse, x) # NoRow
          /\ Bears(st, x, Final(tale[i].inverse, x), Final(tale[m].forward, x))
      BY <1>1, <2>1, <3>1 DEF Told, Linked
    <3>3. Bears(st, x, rs2[x], Final(tale[m].forward, x))
      BY <1>2, <2>2 DEF Replayed
    <3>4. QED
      BY <1>2, <2>2, <3>2, <3>3, BearsBack
  <2>3. CASE x \notin Ids(tale[m].forward)
    <3>1. Silent(tale, x, n + 1, i - 1)
      <4>1. \A k \in n + 1 .. i - 1 : k \in m + 1 .. i - 1 \/ k = m
        BY <1>1, <2>1
      <4>2. QED
        BY <1>4, <2>3, <4>1 DEF Silent
    <3>2. Bears(st, x, rs[x], Final(tale[i].inverse, x))
      BY <1>4, <2>1, <3>1 DEF Told, FoundSo
    <3>3. rs2[x] = rs[x]
      BY <1>2, <2>3 DEF Replayed
    <3>4. QED
      BY <3>2, <3>3
  <2>4. QED
    BY <2>2, <2>3
<1>5. LeftSo(tale, m, f, rs2, st, {}) /\ FoundSo(tale, m, f, rs2, st, {})
  BY <1>3, <1>4 DEF LeftSo, FoundSo
<1>6. QED
  BY <1>5 DEF Told, m

\* service.rs:140: the oldest entry is dropped.
LEMMA ToldDrop ==
    ASSUME NEW tale \in Seq(Entry), NEW f \in Nat, NEW g \in Nat, NEW n \in Nat \ {0},
           NEW rs, NEW st, f <= g + 1, Told(tale, n, f, rs, st, {}), n = Len(tale),
           NEW short \in Seq(Entry), Len(short) = n - 1,
           \A k \in 1 .. n - 1 : short[k] = tale[k + 1]
    PROVE  Told(short, n - 1, g, rs, st, {})
<1>1. \A k \in g + 1 .. n - 1 : /\ k \in 1 .. n - 1 /\ k + 1 \in f + 1 .. n
                                /\ short[k] = tale[k + 1]
  OBVIOUS
<1>2. AllSound(short, g, st)
  BY <1>1 DEF Told, AllSound
<1>3. ASSUME NEW x \in Rows, NEW i \in g + 1 .. n - 1, NEW j \in 0 .. n - 1,
             Silent(short, x, i + 1, j)
      PROVE  Silent(tale, x, i + 2, j + 1)
  <2>1. SUFFICES ASSUME NEW k \in i + 2 .. j + 1 PROVE x \notin Ids(tale[k].forward)
    BY DEF Silent
  <2>2. k - 1 \in i + 1 .. j /\ k - 1 \in 1 .. n - 1 /\ k - 1 + 1 = k
    BY <1>3
  <2>3. short[k - 1] = tale[k]
    BY <2>2
  <2>4. QED
    BY <1>3, <2>2, <2>3 DEF Silent
<1>4. Linked(short, g, st)
  <2>1. SUFFICES ASSUME NEW i \in g + 1 .. n - 1, NEW j \in g + 1 .. n - 1, NEW x \in Rows,
                        Neighbours(short, x, i, j)
                 PROVE  /\ Final(short[j].inverse, x) # NoRow
                        /\ Bears(st, x, Final(short[j].inverse, x), Final(short[i].forward, x))
    BY DEF Linked
  <2>2. Silent(tale, x, i + 1 + 1, j + 1 - 1)
    <3>1. j - 1 \in 0 .. n - 1 /\ i + 1 + 1 = i + 2 /\ j + 1 - 1 = j - 1 + 1
      OBVIOUS
    <3>2. Silent(tale, x, i + 2, j - 1 + 1)
      BY <1>3, <2>1, <3>1 DEF Neighbours
    <3>3. QED
      BY <3>1, <3>2
  <2>3. Neighbours(tale, x, i + 1, j + 1)
    BY <1>1, <2>1, <2>2 DEF Neighbours
  <2>4. QED
    BY <1>1, <2>3 DEF Told, Linked
<1>5. LeftSo(short, n - 1, g, rs, st, {})
  <2>1. SUFFICES ASSUME NEW x \in Rows, NEW i \in g + 1 .. n - 1,
                        x \in Ids(short[i].forward), Silent(short, x, i + 1, n - 1)
                 PROVE  Bears(st, x, rs[x], Final(short[i].forward, x))
    BY DEF LeftSo
  <2>2. Silent(tale, x, i + 1 + 1, n)
    <3>1. n - 1 \in 0 .. n - 1 /\ i + 1 + 1 = i + 2 /\ n - 1 + 1 = n
      OBVIOUS
    <3>2. Silent(tale, x, i + 2, n - 1 + 1)
      BY <1>3, <2>1, <3>1
    <3>3. QED
      BY <3>1, <3>2
  <2>3. QED
    BY <1>1, <2>1, <2>2 DEF Told, LeftSo
<1>6. FoundSo(short, n - 1, g, rs, st, {})
  BY DEF FoundSo
<1>7. QED
  BY <1>2, <1>4, <1>5, <1>6 DEF Told

-----------------------------------------------------------------------------
(* A new entry.                                                            *)

\* The rows a list deletes.
LEMMA Creating ==
    ASSUME NEW p \in Seq(Mutation), NEW x
    PROVE  x \in Creates(p) <=> \E i \in 1 .. Len(p) : p[i].id = x /\ p[i].row = NoRow
BY DEF Creates

\* In a difference every row is named once, with what it is in either table.
LEMMA DrawnOnce ==
    ASSUME NEW f, NEW v, NEW from, NEW to, Drawn(f, v, from, to)
    PROVE  /\ f \in Seq(Mutation) /\ v \in Seq(Mutation)
           /\ Ids(f) = Ids(v)
           /\ \A i \in 1 .. Len(f) : f[i].row = to[f[i].id] /\ LastAt(f, f[i].id, i)
           /\ \A i \in 1 .. Len(v) : v[i].row = from[v[i].id] /\ LastAt(v, v[i].id, i)
           /\ \A x \in Ids(f) : /\ Final(f, x) = to[x] /\ Initial(f, x) = to[x]
                                /\ Final(v, x) = from[x]
                                /\ from[x] # to[x]
<1>1. /\ f \in Seq(Mutation) /\ v \in Seq(Mutation) /\ Len(f) = Len(v) /\ Len(f) \in Nat
      /\ DOMAIN f = 1 .. Len(f) /\ DOMAIN v = 1 .. Len(f)
  BY DEF Drawn
<1>2. \A i \in 1 .. Len(f) : /\ f[i].row = to[f[i].id]
                             /\ v[i].id = f[i].id /\ v[i].row = from[f[i].id]
                             /\ from[f[i].id] # to[f[i].id]
  <2>1. TAKE i \in 1 .. Len(f)
  <2>2. /\ f[i] = [id |-> f[i].id, row |-> to[f[i].id]]
        /\ v[i] = [id |-> f[i].id, row |-> from[f[i].id]]
        /\ from[f[i].id] # to[f[i].id]
    BY <1>1 DEF Drawn
  <2>3. QED
    BY <2>2
<1>3. \A i, j \in 1 .. Len(f) : f[i].id = f[j].id => i = j
  BY <1>1 DEF Drawn
<1>4. \A i \in 1 .. Len(f) : LastAt(f, f[i].id, i) /\ LastAt(v, v[i].id, i)
  BY <1>1, <1>2, <1>3 DEF LastAt
<1>5. Ids(f) = Ids(v)
  BY <1>1, <1>2 DEF Ids
<1>6. ASSUME NEW x \in Ids(f)
      PROVE  /\ Final(f, x) = to[x] /\ Initial(f, x) = to[x] /\ Final(v, x) = from[x]
             /\ from[x] # to[x]
  <2>1. PICK i \in 1 .. Len(f) : LastAt(f, x, i) /\ Final(f, x) = f[i].row
    BY <1>1, <1>6, LastOne
  <2>2. PICK j \in 1 .. Len(f) : FirstAt(f, x, j) /\ Initial(f, x) = f[j].row
    BY <1>1, <1>6, FirstOne
  <2>3. PICK k \in 1 .. Len(v) : LastAt(v, x, k) /\ Final(v, x) = v[k].row
    BY <1>1, <1>5, <1>6, LastOne
  <2>4. f[i].id = x /\ f[j].id = x /\ v[k].id = x
    BY <2>1, <2>2, <2>3 DEF LastAt, FirstAt
  <2>5. QED
    BY <1>1, <1>2, <2>1, <2>2, <2>3, <2>4
<1>7. QED
  BY <1>1, <1>2, <1>4, <1>5, <1>6

\* commands.rs: an entry drawn from two tables can be undone.
LEMMA DrawnSound ==
    ASSUME NEW e, NEW from, NEW to, Drawn(e.forward, e.inverse, from, to), NEW st
    PROVE  Sound(st, e)
<1> DEFINE f == e.forward
           v == e.inverse
<1>1. /\ f \in Seq(Mutation) /\ v \in Seq(Mutation)
      /\ Ids(f) = Ids(v)
      /\ \A i \in 1 .. Len(f) : f[i].row = to[f[i].id] /\ LastAt(f, f[i].id, i)
      /\ \A i \in 1 .. Len(v) : v[i].row = from[v[i].id] /\ LastAt(v, v[i].id, i)
      /\ \A x \in Ids(f) : /\ Final(f, x) = to[x] /\ Initial(f, x) = to[x]
                           /\ Final(v, x) = from[x]
                           /\ from[x] # to[x]
  BY DrawnOnce
<1>2. DOMAIN f = 1 .. Len(f) /\ DOMAIN v = 1 .. Len(v)
  BY <1>1
<1> HIDE DEF f, v
<1>3. \A x : x \in Creates(f) => to[x] = NoRow
  BY <1>1, Creating
<1>4. \A x : x \in Creates(v) => from[x] = NoRow
  BY <1>1, Creating
<1>5. ASSUME NEW x \in Ids(f)
      PROVE  /\ \A i \in DOMAIN v : v[i].id = x /\ v[i].row = NoRow => LastAt(v, x, i)
             /\ \A i \in DOMAIN f : f[i].id = x /\ f[i].row = NoRow =>
                    LastAt(f, x, i) \/ x \in st
             /\ x \in Creates(f) => Gone(Final(f, x))
             /\ x \in Creates(v) => Initial(f, x) # NoRow
  <2>1. x \in Creates(f) => Gone(Final(f, x))
    BY <1>1, <1>3 DEF Gone
  <2>2. x \in Creates(v) => Initial(f, x) # NoRow
    BY <1>1, <1>4
  <2>3. QED
    BY <1>1, <1>2, <2>1, <2>2
<1>6. QED
  BY <1>1, <1>5 DEF Sound, f, v

\* A row an entry within reach names is there, when a command changes it.
LEMMA NamedIsThere ==
    ASSUME NEW e, NEW to, Drawn(e.forward, e.inverse, rows, to), Fits(to, e.group),
           NEW x \in Ids(e.forward), x \in Named
    PROVE  rows[x] # NoRow
<1>1. rows[x] # to[x] /\ e.forward \in Seq(Mutation)
  BY DrawnOnce
<1>2. \A i \in DOMAIN e.forward : e.forward[i] \in Mutation
  BY <1>1
<1>3. x \in Rows
  BY <1>2 DEF Ids, Mutation
<1>4. QED
  BY <1>1, <1>3 DEF Fits

\* What a commit builds on: the undo stack is told, and a new entry drawn from the
\* rows it left.
Builds(tale, n, f, e, to) ==
    /\ tale \in Seq(Entry) /\ f \in Nat /\ n \in Nat /\ f <= n /\ n <= Len(tale)
    /\ e \in Entry /\ Drawn(e.forward, e.inverse, rows, to) /\ Fits(to, e.group)
    /\ Told(tale, n, f, rows, stated, {})
    /\ \A k \in 1 .. n : Ids(tale[k].forward) \subseteq Named

\* service.rs:133: the new entry on top.
LEMMA ToldPush ==
    ASSUME NEW tale, NEW n, NEW f, NEW e, NEW to, Builds(tale, n, f, e, to),
           NEW rs2, Replayed(e.forward, rows, rs2, stated),
           NEW more \in Seq(Entry), Len(more) = n + 1, more[n + 1] = e,
           \A k \in 1 .. n : more[k] = tale[k]
    PROVE  Told(more, n + 1, f, rs2, stated, {})
<1> DEFINE m == n + 1
<1>1. /\ f \in Nat /\ n \in Nat /\ m \in Nat /\ f <= n /\ n <= Len(tale) /\ m = n + 1
      /\ Len(tale) \in Nat /\ Len(more) = m /\ more[m] = e
      /\ Told(tale, n, f, rows, stated, {})
  BY DEF Builds
<1> HIDE DEF m
<1>2. /\ Sound(stated, e)
      /\ e.forward \in Seq(Mutation)
      /\ Ids(e.forward) = Ids(e.inverse)
      /\ \A x \in Ids(e.forward) : Final(e.inverse, x) = rows[x] /\ Final(e.forward, x) = to[x]
  <2>1. Drawn(e.forward, e.inverse, rows, to)
    BY DEF Builds
  <2>2. Sound(stated, e)
    BY <2>1, DrawnSound
  <2>3. QED
    BY <2>1, <2>2, DrawnOnce
<1>3. \A k \in f + 1 .. m : k = m \/ (k \in f + 1 .. n /\ k \in 1 .. n /\ k \in f + 1 .. Len(tale))
  BY <1>1
<1>4. AllSound(more, f, stated)
  BY <1>1, <1>2, <1>3 DEF Told, AllSound
<1>5. ASSUME NEW x \in Rows, NEW i \in f + 1 .. n, NEW j \in Nat, j <= n,
             Silent(more, x, i + 1, j)
      PROVE  Silent(tale, x, i + 1, j)
  <2>1. \A k \in i + 1 .. j : k \in 1 .. n
    BY <1>1, <1>5
  <2>2. QED
    BY <1>5, <2>1 DEF Silent
<1>6. ASSUME NEW x \in Rows, NEW i \in f + 1 .. n,
             x \in Ids(more[i].forward), Silent(more, x, i + 1, n)
      PROVE  Bears(stated, x, rows[x], Final(more[i].forward, x))
  <2>1. i \in 1 .. n /\ more[i] = tale[i]
    BY <1>1
  <2>2. Silent(tale, x, i + 1, n)
    BY <1>1, <1>5, <1>6
  <2>3. QED
    BY <1>1, <1>6, <2>1, <2>2 DEF Told, LeftSo
<1>7. ASSUME NEW i \in f + 1 .. m, NEW j \in f + 1 .. m, NEW x \in Rows,
             Neighbours(more, x, i, j)
      PROVE  /\ Final(more[j].inverse, x) # NoRow
             /\ Bears(stated, x, Final(more[j].inverse, x), Final(more[i].forward, x))
  <2>1. i < j /\ i \in f + 1 .. n /\ i \in 1 .. n /\ more[i] = tale[i]
        /\ x \in Ids(more[i].forward) /\ x \in Ids(more[j].forward)
        /\ Silent(more, x, i + 1, j - 1)
    BY <1>1, <1>7 DEF Neighbours
  <2>2. CASE j = m
    <3>1. j - 1 = n /\ more[j] = e
      BY <1>1, <2>2
    <3>2. Bears(stated, x, rows[x], Final(more[i].forward, x))
      BY <1>6, <2>1, <3>1
    <3>3. x \in Named
      BY <2>1 DEF Builds
    <3>4. rows[x] # NoRow
      BY <2>1, <3>1, <3>3, NamedIsThere DEF Builds
    <3>5. QED
      BY <1>2, <2>1, <3>1, <3>2, <3>4
  <2>3. CASE j # m
    <3>1. j \in f + 1 .. Len(tale) /\ i \in f + 1 .. Len(tale) /\ more[j] = tale[j]
          /\ j - 1 \in Nat /\ j - 1 <= n
      BY <1>1, <2>1, <2>3
    <3>2. Neighbours(tale, x, i, j)
      BY <1>5, <2>1, <3>1 DEF Neighbours
    <3>3. QED
      BY <1>1, <2>1, <3>1, <3>2 DEF Told, Linked
  <2>4. QED
    BY <2>2, <2>3
<1>8. Linked(more, f, stated)
  BY <1>1, <1>7 DEF Linked
<1>9. LeftSo(more, m, f, rs2, stated, {})
  <2>1. SUFFICES ASSUME NEW x \in Rows, NEW i \in f + 1 .. m,
                        x \in Ids(more[i].forward), Silent(more, x, i + 1, m)
                 PROVE  Bears(stated, x, rs2[x], Final(more[i].forward, x))
    BY DEF LeftSo
  <2>2. CASE i = m
    BY <1>1, <2>1, <2>2 DEF Replayed
  <2>3. CASE i # m
    <3>1. i \in f + 1 .. n /\ m \in i + 1 .. m /\ \A k \in i + 1 .. n : k \in i + 1 .. m
      BY <1>1, <2>3
    <3>2. x \notin Ids(e.forward) /\ Silent(more, x, i + 1, n)
      BY <1>1, <2>1, <3>1 DEF Silent
    <3>3. rs2[x] = rows[x]
      BY <3>2 DEF Replayed
    <3>4. QED
      BY <1>6, <2>1, <3>1, <3>2, <3>3
  <2>4. QED
    BY <2>2, <2>3
<1>10. FoundSo(more, m, f, rs2, stated, {})
  BY <1>1 DEF FoundSo
<1>11. QED
  BY <1>4, <1>8, <1>9, <1>10 DEF Told, m

-----------------------------------------------------------------------------
(* Joining an entry.                                                       *)

\* One list behind another.
LEMMA Behind ==
    ASSUME NEW p \in Seq(Mutation), NEW q \in Seq(Mutation)
    PROVE  /\ p \o q \in Seq(Mutation) /\ Len(p \o q) = Len(p) + Len(q)
           /\ \A i \in 1 .. Len(p) : (p \o q)[i] = p[i]
           /\ \A i \in 1 .. Len(q) : (p \o q)[Len(p) + i] = q[i]
           /\ \A i \in 1 .. Len(p \o q) : i \in 1 .. Len(p) \/ i - Len(p) \in 1 .. Len(q)
BY DEF Mutation

\* The rows it names, and those it deletes.
LEMMA BehindNames ==
    ASSUME NEW p \in Seq(Mutation), NEW q \in Seq(Mutation)
    PROVE  /\ \A x : x \in Ids(p \o q) <=> x \in Ids(p) \/ x \in Ids(q)
           /\ \A x : x \in Creates(p \o q) <=> x \in Creates(p) \/ x \in Creates(q)
<1> DEFINE r == p \o q
<1>1. /\ r \in Seq(Mutation) /\ Len(r) = Len(p) + Len(q) /\ Len(p) \in Nat /\ Len(q) \in Nat
      /\ \A i \in 1 .. Len(p) : r[i] = p[i] /\ i \in 1 .. Len(r)
      /\ \A i \in 1 .. Len(q) : r[Len(p) + i] = q[i] /\ Len(p) + i \in 1 .. Len(r)
      /\ \A i \in 1 .. Len(r) :
            (i \in 1 .. Len(p) /\ r[i] = p[i])
            \/ (i - Len(p) \in 1 .. Len(q) /\ r[i] = q[i - Len(p)])
  <2>1. /\ r \in Seq(Mutation) /\ Len(r) = Len(p) + Len(q) /\ Len(p) \in Nat /\ Len(q) \in Nat
        /\ \A i \in 1 .. Len(p) : r[i] = p[i]
        /\ \A i \in 1 .. Len(q) : r[Len(p) + i] = q[i]
        /\ \A i \in 1 .. Len(r) : i \in 1 .. Len(p) \/ i - Len(p) \in 1 .. Len(q)
    BY Behind
  <2> HIDE DEF r
  <2>2. ASSUME NEW i \in 1 .. Len(r)
        PROVE  (i \in 1 .. Len(p) /\ r[i] = p[i])
               \/ (i - Len(p) \in 1 .. Len(q) /\ r[i] = q[i - Len(p)])
    <3>1. i = Len(p) + (i - Len(p))
      BY <2>1
    <3>2. i - Len(p) \in 1 .. Len(q) => r[Len(p) + (i - Len(p))] = q[i - Len(p)]
      BY <2>1
    <3>3. QED
      BY <2>1, <3>1, <3>2
  <2>3. QED
    BY <2>1, <2>2
<1>2. DOMAIN p = 1 .. Len(p) /\ DOMAIN q = 1 .. Len(q) /\ DOMAIN r = 1 .. Len(r)
  BY <1>1
<1> HIDE DEF r
<1>3. \A x : x \in Ids(r) <=> x \in Ids(p) \/ x \in Ids(q)
  <2> TAKE x
  <2>1. ASSUME x \in Ids(r)
        PROVE  x \in Ids(p) \/ x \in Ids(q)
    <3>1. PICK i \in 1 .. Len(r) : r[i].id = x
      BY <1>2, <2>1 DEF Ids
    <3>2. CASE i \in 1 .. Len(p) /\ r[i] = p[i]
      BY <1>2, <3>1, <3>2 DEF Ids
    <3>3. CASE i - Len(p) \in 1 .. Len(q) /\ r[i] = q[i - Len(p)]
      BY <1>2, <3>1, <3>3 DEF Ids
    <3>4. QED
      BY <1>1, <3>2, <3>3
  <2>2. x \in Ids(p) => x \in Ids(r)
    BY <1>1, <1>2 DEF Ids
  <2>3. ASSUME x \in Ids(q)
        PROVE  x \in Ids(r)
    <3>1. PICK i \in 1 .. Len(q) : q[i].id = x
      BY <1>2, <2>3 DEF Ids
    <3>2. r[Len(p) + i].id = x /\ Len(p) + i \in DOMAIN r
      BY <1>1, <1>2, <3>1
    <3>3. QED
      BY <3>2 DEF Ids
  <2>4. QED
    BY <2>1, <2>2, <2>3
<1>4. \A x : x \in Creates(r) <=> x \in Creates(p) \/ x \in Creates(q)
  <2> TAKE x
  <2>1. ASSUME x \in Creates(r)
        PROVE  x \in Creates(p) \/ x \in Creates(q)
    <3>1. PICK i \in 1 .. Len(r) : r[i].id = x /\ r[i].row = NoRow
      BY <1>1, <2>1, Creating
    <3>2. CASE i \in 1 .. Len(p) /\ r[i] = p[i]
      BY <3>1, <3>2, Creating
    <3>3. CASE i - Len(p) \in 1 .. Len(q) /\ r[i] = q[i - Len(p)]
      BY <3>1, <3>3, Creating
    <3>4. QED
      BY <1>1, <3>2, <3>3
  <2>2. ASSUME x \in Creates(p)
        PROVE  x \in Creates(r)
    <3>1. PICK i \in 1 .. Len(p) : p[i].id = x /\ p[i].row = NoRow
      BY <2>2, Creating
    <3>2. i \in 1 .. Len(r) /\ r[i].id = x /\ r[i].row = NoRow
      BY <1>1, <3>1
    <3>3. QED
      BY <1>1, <3>2, Creating
  <2>3. ASSUME x \in Creates(q)
        PROVE  x \in Creates(r)
    <3>1. PICK i \in 1 .. Len(q) : q[i].id = x /\ q[i].row = NoRow
      BY <2>3, Creating
    <3>2. /\ Len(p) + i \in 1 .. Len(r)
          /\ r[Len(p) + i].id = x /\ r[Len(p) + i].row = NoRow
      BY <1>1, <3>1
    <3>3. QED
      BY <1>1, <3>2, Creating
  <2>4. QED
    BY <2>1, <2>2, <2>3
<1>5. QED
  BY <1>3, <1>4 DEF r

\* What it does to a row last, and first.
LEMMA BehindEnds ==
    ASSUME NEW p \in Seq(Mutation), NEW q \in Seq(Mutation), NEW x
    PROVE  /\ \A i \in 1 .. Len(q) : LastAt(q, x, i) => LastAt(p \o q, x, Len(p) + i)
           /\ \A i \in 1 .. Len(p) : LastAt(p, x, i) /\ x \notin Ids(q) => LastAt(p \o q, x, i)
           /\ x \in Ids(q) => Final(p \o q, x) = Final(q, x)
           /\ x \in Ids(p) /\ x \notin Ids(q) => Final(p \o q, x) = Final(p, x)
           /\ x \in Ids(p) => Initial(p \o q, x) = Initial(p, x)
           /\ x \in Ids(q) /\ x \notin Ids(p) => Initial(p \o q, x) = Initial(q, x)
<1> DEFINE r == p \o q
<1>1. /\ r \in Seq(Mutation) /\ Len(r) = Len(p) + Len(q) /\ Len(p) \in Nat /\ Len(q) \in Nat
      /\ \A i \in 1 .. Len(p) : r[i] = p[i]
      /\ \A i \in 1 .. Len(q) : r[Len(p) + i] = q[i]
      /\ \A i \in 1 .. Len(r) : i \in 1 .. Len(p) \/ i - Len(p) \in 1 .. Len(q)
  BY Behind
<1> HIDE DEF r
<1>2. /\ DOMAIN p = 1 .. Len(p) /\ DOMAIN q = 1 .. Len(q) /\ DOMAIN r = 1 .. Len(r)
      /\ \A i \in 1 .. Len(p) : i \in 1 .. Len(r)
      /\ \A i \in 1 .. Len(q) : Len(p) + i \in 1 .. Len(r)
  BY <1>1
<1>3. \A i \in 1 .. Len(r) : i - Len(p) \in 1 .. Len(q) => r[i] = q[i - Len(p)]
  <2> TAKE i \in 1 .. Len(r)
  <2>1. i = Len(p) + (i - Len(p))
    BY <1>1
  <2>2. i - Len(p) \in 1 .. Len(q) => r[Len(p) + (i - Len(p))] = q[i - Len(p)]
    BY <1>1
  <2>3. QED
    BY <2>1, <2>2
<1>4. ASSUME NEW i \in 1 .. Len(q), LastAt(q, x, i)
      PROVE  LastAt(r, x, Len(p) + i)
  <2>1. q[i].id = x /\ \A j \in 1 .. Len(q) : q[j].id = x => j <= i
    BY <1>2, <1>4 DEF LastAt
  <2>2. r[Len(p) + i].id = x
    BY <1>1, <2>1
  <2>3. ASSUME NEW j \in 1 .. Len(r), r[j].id = x
        PROVE  j <= Len(p) + i
    <3>1. CASE j \in 1 .. Len(p)
      BY <1>1, <3>1
    <3>2. CASE j - Len(p) \in 1 .. Len(q)
      <4>1. q[j - Len(p)].id = x
        BY <1>3, <2>3, <3>2
      <4>2. j - Len(p) <= i
        BY <2>1, <3>2, <4>1
      <4>3. QED
        BY <1>1, <4>2
    <3>3. QED
      BY <1>1, <3>1, <3>2
  <2>4. QED
    BY <1>2, <2>2, <2>3 DEF LastAt
<1>5. ASSUME NEW i \in 1 .. Len(p), LastAt(p, x, i), x \notin Ids(q)
      PROVE  LastAt(r, x, i)
  <2>1. p[i].id = x /\ \A j \in 1 .. Len(p) : p[j].id = x => j <= i
    BY <1>2, <1>5 DEF LastAt
  <2>2. \A j \in 1 .. Len(q) : q[j].id # x
    BY <1>2, <1>5 DEF Ids
  <2>3. \A j \in 1 .. Len(r) : r[j].id = x => j <= i
    BY <1>1, <1>3, <2>1, <2>2
  <2>4. QED
    BY <1>1, <1>2, <2>1, <2>3 DEF LastAt
<1>6. ASSUME NEW i \in 1 .. Len(p), FirstAt(p, x, i)
      PROVE  FirstAt(r, x, i)
  <2>1. p[i].id = x /\ \A j \in 1 .. Len(p) : p[j].id = x => i <= j
    BY <1>2, <1>6 DEF FirstAt
  <2>2. ASSUME NEW j \in 1 .. Len(r), r[j].id = x
        PROVE  i <= j
    <3>1. CASE j \in 1 .. Len(p)
      BY <1>1, <2>1, <2>2, <3>1
    <3>2. CASE j - Len(p) \in 1 .. Len(q)
      BY <1>1, <3>2
    <3>3. QED
      BY <1>1, <3>1, <3>2
  <2>3. QED
    BY <1>1, <1>2, <2>1, <2>2 DEF FirstAt
<1>7. ASSUME NEW i \in 1 .. Len(q), FirstAt(q, x, i), x \notin Ids(p)
      PROVE  FirstAt(r, x, Len(p) + i)
  <2>1. q[i].id = x /\ \A j \in 1 .. Len(q) : q[j].id = x => i <= j
    BY <1>2, <1>7 DEF FirstAt
  <2>2. \A j \in 1 .. Len(p) : p[j].id # x
    BY <1>2, <1>7 DEF Ids
  <2>3. r[Len(p) + i].id = x
    BY <1>1, <2>1
  <2>4. ASSUME NEW j \in 1 .. Len(r), r[j].id = x
        PROVE  Len(p) + i <= j
    <3>1. j - Len(p) \in 1 .. Len(q)
      BY <1>1, <2>2, <2>4
    <3>2. q[j - Len(p)].id = x
      BY <1>3, <2>4, <3>1
    <3>3. i <= j - Len(p)
      BY <2>1, <3>1, <3>2
    <3>4. QED
      BY <1>1, <3>3
  <2>5. QED
    BY <1>2, <2>3, <2>4 DEF FirstAt
<1>8. ASSUME NEW l \in Seq(Mutation), NEW i \in 1 .. Len(l)
      PROVE  /\ LastAt(l, x, i) => Final(l, x) = l[i].row
             /\ FirstAt(l, x, i) => Initial(l, x) = l[i].row
  <2>1. LastAt(l, x, i) => \A j \in i + 1 .. Len(l) : l[j].id # x
    BY DEF LastAt
  <2>2. FirstAt(l, x, i) => \A j \in 1 .. i - 1 : l[j].id # x
    BY DEF FirstAt
  <2>3. QED
    BY <2>1, <2>2, LastIs, FirstIs DEF LastAt, FirstAt
<1>9. x \in Ids(q) => Final(r, x) = Final(q, x)
  <2>1. HAVE x \in Ids(q)
  <2>2. PICK i \in 1 .. Len(q) : LastAt(q, x, i) /\ Final(q, x) = q[i].row
    BY <2>1, LastOne
  <2>3. Final(r, x) = r[Len(p) + i].row
    BY <1>1, <1>2, <1>4, <1>8, <2>2
  <2>4. QED
    BY <1>1, <2>2, <2>3
<1>10. x \in Ids(p) /\ x \notin Ids(q) => Final(r, x) = Final(p, x)
  <2>1. HAVE x \in Ids(p) /\ x \notin Ids(q)
  <2>2. PICK i \in 1 .. Len(p) : LastAt(p, x, i) /\ Final(p, x) = p[i].row
    BY <2>1, LastOne
  <2>3. Final(r, x) = r[i].row
    BY <1>1, <1>2, <1>5, <1>8, <2>1, <2>2
  <2>4. QED
    BY <1>1, <2>2, <2>3
<1>11. x \in Ids(p) => Initial(r, x) = Initial(p, x)
  <2>1. HAVE x \in Ids(p)
  <2>2. PICK i \in 1 .. Len(p) : FirstAt(p, x, i) /\ Initial(p, x) = p[i].row
    BY <2>1, FirstOne
  <2>3. Initial(r, x) = r[i].row
    BY <1>1, <1>2, <1>6, <1>8, <2>2
  <2>4. QED
    BY <1>1, <2>2, <2>3
<1>12. x \in Ids(q) /\ x \notin Ids(p) => Initial(r, x) = Initial(q, x)
  <2>1. HAVE x \in Ids(q) /\ x \notin Ids(p)
  <2>2. PICK i \in 1 .. Len(q) : FirstAt(q, x, i) /\ Initial(q, x) = q[i].row
    BY <2>1, FirstOne
  <2>3. Initial(r, x) = r[Len(p) + i].row
    BY <1>1, <1>2, <1>7, <1>8, <2>1, <2>2
  <2>4. QED
    BY <1>1, <2>2, <2>3
<1>13. QED
  BY <1>4, <1>5, <1>9, <1>10, <1>11, <1>12 DEF r

\* What a joined entry holds.
LEMMA JoinedLists ==
    ASSUME NEW a \in Entry, NEW e \in Entry
    PROVE  /\ Joined(a, e) \in Entry
           /\ Joined(a, e).forward = a.forward \o e.forward
           /\ Joined(a, e).inverse = e.inverse \o a.inverse
           /\ a.forward \in Seq(Mutation) /\ a.inverse \in Seq(Mutation)
           /\ e.forward \in Seq(Mutation) /\ e.inverse \in Seq(Mutation)
<1>1. /\ a.forward \in Seq(Mutation) /\ a.inverse \in Seq(Mutation)
      /\ e.forward \in Seq(Mutation) /\ e.inverse \in Seq(Mutation)
      /\ a.group \in Groups \cup {Alone}
  BY DEF Entry
<1>2. a.forward \o e.forward \in Seq(Mutation) /\ e.inverse \o a.inverse \in Seq(Mutation)
  BY <1>1, Behind
<1>3. QED
  BY <1>1, <1>2 DEF Joined, Entry

\* service.rs:107: an entry that can be undone and one drawn from the rows it left
\* are together one that can be undone.
LEMMA JoinedSound ==
    ASSUME NEW a \in Entry, NEW e \in Entry, NEW to,
           Sound(stated, a), e.group # Alone,
           Drawn(e.forward, e.inverse, rows, to), Fits(to, e.group),
           Ids(a.forward) \subseteq Named,
           \A x \in Ids(a.forward) : Bears(stated, x, rows[x], Final(a.forward, x))
    PROVE  Sound(stated, Joined(a, e))
<1> DEFINE af == a.forward
           av == a.inverse
           ef == e.forward
           ev == e.inverse
           f == af \o ef
           v == ev \o av
<1>1. /\ af \in Seq(Mutation) /\ av \in Seq(Mutation)
      /\ ef \in Seq(Mutation) /\ ev \in Seq(Mutation)
      /\ Joined(a, e).forward = f /\ Joined(a, e).inverse = v
  BY JoinedLists
<1>2. Ids(af) = Ids(av)
      /\ \A x \in Ids(af) :
           /\ \A i \in DOMAIN av : av[i].id = x /\ av[i].row = NoRow => LastAt(av, x, i)
           /\ \A i \in DOMAIN af : af[i].id = x /\ af[i].row = NoRow =>
                  LastAt(af, x, i) \/ x \in stated
           /\ x \in Creates(af) => Gone(Final(af, x))
           /\ x \in Creates(av) => Initial(af, x) # NoRow
  BY DEF Sound
<1>3. /\ Ids(ef) = Ids(ev)
      /\ \A i \in 1 .. Len(ef) : ef[i].row = to[ef[i].id] /\ LastAt(ef, ef[i].id, i)
      /\ \A i \in 1 .. Len(ev) : ev[i].row = rows[ev[i].id] /\ LastAt(ev, ev[i].id, i)
      /\ \A x \in Ids(ef) : /\ Final(ef, x) = to[x] /\ Initial(ef, x) = to[x]
                            /\ Final(ev, x) = rows[x]
                            /\ rows[x] # to[x]
  BY DrawnOnce
<1>4. \A x \in Ids(ef) : x \in Ids(af) => rows[x] # NoRow
  BY NamedIsThere
<1>5. \A x \in Ids(ef) : rows[x] # NoRow => rows[x].live \/ to[x] = NoRow \/ ~to[x].live
  <2>1. \A i \in DOMAIN ef : ef[i] \in Mutation
    BY <1>1
  <2>2. \A x \in Ids(ef) : x \in Rows
    BY <2>1 DEF Ids, Mutation
  <2>3. QED
    BY <2>2 DEF Fits
<1>6. \A x \in Ids(af) : Bears(stated, x, rows[x], Final(af, x))
  OBVIOUS
<1>7. /\ DOMAIN af = 1 .. Len(af) /\ DOMAIN av = 1 .. Len(av)
      /\ DOMAIN ef = 1 .. Len(ef) /\ DOMAIN ev = 1 .. Len(ev)
      /\ f \in Seq(Mutation) /\ DOMAIN f = 1 .. Len(f)
      /\ v \in Seq(Mutation) /\ DOMAIN v = 1 .. Len(v)
      /\ Len(af) \in Nat /\ Len(ev) \in Nat
  <2>1. f \in Seq(Mutation) /\ v \in Seq(Mutation)
    BY <1>1, Behind
  <2>2. \A l \in Seq(Mutation) : DOMAIN l = 1 .. Len(l) /\ Len(l) \in Nat
    OBVIOUS
  <2>3. QED
    BY <1>1, <2>1, <2>2
<1> HIDE DEF af, av, ef, ev
<1>8. ASSUME NEW x, x \in Creates(ev)
      PROVE  x \in Ids(ev) /\ rows[x] = NoRow
  <2>1. PICK i \in 1 .. Len(ev) : ev[i].id = x /\ ev[i].row = NoRow
    BY <1>1, <1>8, Creating
  <2>2. QED
    BY <1>3, <1>7, <2>1 DEF Ids
<1>9. /\ \A x : x \in Creates(av) => x \in Ids(av)
      /\ \A x : x \in Creates(af) => x \in Ids(af)
      /\ \A x : x \in Creates(ef) => x \in Ids(ef) /\ to[x] = NoRow
  <2>1. ASSUME NEW l \in Seq(Mutation), NEW x, x \in Creates(l)
        PROVE  x \in Ids(l) /\ \E i \in 1 .. Len(l) : l[i].id = x /\ l[i].row = NoRow
    BY <2>1, Creating DEF Ids
  <2>2. ASSUME NEW x, x \in Creates(ef)
        PROVE  to[x] = NoRow
    <3>1. PICK i \in 1 .. Len(ef) : ef[i].id = x /\ ef[i].row = NoRow
      BY <1>1, <2>1, <2>2
    <3>2. QED
      BY <1>3, <3>1
  <2>3. QED
    BY <1>1, <2>1, <2>2
<1>10. /\ \A x : x \in Ids(f) <=> x \in Ids(af) \/ x \in Ids(ef)
       /\ \A x : x \in Creates(f) <=> x \in Creates(af) \/ x \in Creates(ef)
       /\ \A x : x \in Ids(v) <=> x \in Ids(ev) \/ x \in Ids(av)
       /\ \A x : x \in Creates(v) <=> x \in Creates(ev) \/ x \in Creates(av)
  BY <1>1, BehindNames
<1>11. \A x :
         /\ \A i \in 1 .. Len(ef) : LastAt(ef, x, i) => LastAt(f, x, Len(af) + i)
         /\ \A i \in 1 .. Len(af) : LastAt(af, x, i) /\ x \notin Ids(ef) => LastAt(f, x, i)
         /\ x \in Ids(ef) => Final(f, x) = Final(ef, x)
         /\ x \in Ids(af) /\ x \notin Ids(ef) => Final(f, x) = Final(af, x)
         /\ x \in Ids(af) => Initial(f, x) = Initial(af, x)
         /\ x \in Ids(ef) /\ x \notin Ids(af) => Initial(f, x) = Initial(ef, x)
  BY <1>1, BehindEnds
<1>12. \A x :
         /\ \A i \in 1 .. Len(av) : LastAt(av, x, i) => LastAt(v, x, Len(ev) + i)
         /\ \A i \in 1 .. Len(ev) : LastAt(ev, x, i) /\ x \notin Ids(av) => LastAt(v, x, i)
  BY <1>1, BehindEnds
<1>13. /\ \A i \in 1 .. Len(f) :
             (i \in 1 .. Len(af) /\ f[i] = af[i])
             \/ (\E k \in 1 .. Len(ef) : i = Len(af) + k /\ f[i] = ef[k])
       /\ \A i \in 1 .. Len(v) :
             (i \in 1 .. Len(ev) /\ v[i] = ev[i])
             \/ (\E k \in 1 .. Len(av) : i = Len(ev) + k /\ v[i] = av[k])
  <2>1. ASSUME NEW p \in Seq(Mutation), NEW q \in Seq(Mutation), NEW i \in 1 .. Len(p \o q)
        PROVE  (i \in 1 .. Len(p) /\ (p \o q)[i] = p[i])
               \/ (\E k \in 1 .. Len(q) : i = Len(p) + k /\ (p \o q)[i] = q[k])
    <3>1. /\ Len(p) \in Nat /\ Len(p \o q) \in Nat
          /\ \A j \in 1 .. Len(p) : (p \o q)[j] = p[j]
          /\ \A j \in 1 .. Len(q) : (p \o q)[Len(p) + j] = q[j]
          /\ i \in 1 .. Len(p) \/ i - Len(p) \in 1 .. Len(q)
      BY Behind
    <3> HIDE DEF f, v
    <3>2. i = Len(p) + (i - Len(p))
      BY <3>1
    <3>3. QED
      BY <3>1, <3>2
  <2>2. QED
    BY <1>1, <2>1
<1> HIDE DEF f, v
<1>14. ASSUME NEW x \in Ids(f), NEW i \in 1 .. Len(v), v[i].id = x, v[i].row = NoRow
       PROVE  LastAt(v, x, i)
  <2>1. CASE i \in 1 .. Len(ev) /\ v[i] = ev[i]
    <3>1. LastAt(ev, x, i) /\ x \in Creates(ev)
      BY <1>1, <1>3, <1>14, <2>1, Creating
    <3>2. x \notin Ids(av)
      BY <1>2, <1>3, <1>4, <1>8, <3>1
    <3>3. QED
      BY <1>12, <2>1, <3>1, <3>2
  <2>2. CASE \E k \in 1 .. Len(av) : i = Len(ev) + k /\ v[i] = av[k]
    <3>1. PICK k \in 1 .. Len(av) : i = Len(ev) + k /\ v[i] = av[k]
      BY <2>2
    <3>2. av[k].id = x /\ av[k].row = NoRow /\ x \in Ids(av)
      BY <1>7, <1>14, <3>1 DEF Ids
    <3>3. LastAt(av, x, k)
      BY <1>2, <1>7, <3>2
    <3>4. QED
      BY <1>12, <3>1, <3>3
  <2>3. QED
    BY <1>13, <2>1, <2>2
<1>15. ASSUME NEW x \in Ids(f), NEW i \in 1 .. Len(f), f[i].id = x, f[i].row = NoRow
       PROVE  LastAt(f, x, i) \/ x \in stated
  <2>1. CASE i \in 1 .. Len(af) /\ f[i] = af[i]
    <3>1. x \in Ids(af) /\ (LastAt(af, x, i) \/ x \in stated)
      <4>1. x \in Ids(af)
        BY <1>7, <1>15, <2>1 DEF Ids
      <4>2. QED
        BY <1>2, <1>7, <1>15, <2>1, <4>1
    <3>2. CASE x \in Ids(ef) /\ LastAt(af, x, i)
      <4>1. Final(af, x) = NoRow
        <5>1. \A j \in i + 1 .. Len(af) : af[j].id # x
          BY <1>7, <3>2 DEF LastAt
        <5>2. QED
          BY <1>1, <1>15, <2>1, <5>1, LastIs
      <4>2. rows[x] # NoRow
        BY <1>4, <3>1, <3>2
      <4>3. QED
        BY <1>6, <3>1, <4>1, <4>2 DEF Bears
    <3>3. QED
      BY <1>11, <2>1, <3>1, <3>2
  <2>2. CASE \E k \in 1 .. Len(ef) : i = Len(af) + k /\ f[i] = ef[k]
    BY <1>3, <1>11, <1>15, <2>2
  <2>3. QED
    BY <1>13, <2>1, <2>2
<1>16. ASSUME NEW x \in Ids(f), x \in Creates(f)
       PROVE  Gone(Final(f, x))
  <2>1. CASE x \in Ids(ef)
    <3>1. Final(f, x) = to[x]
      BY <1>3, <1>11, <2>1
    <3>2. CASE x \in Creates(ef)
      BY <1>9, <3>1, <3>2 DEF Gone
    <3>3. CASE x \in Creates(af)
      <4>1. Gone(Final(af, x)) /\ x \in Ids(af) /\ rows[x] # NoRow
        BY <1>2, <1>4, <1>9, <2>1, <3>3
      <4>2. ~rows[x].live
        BY <1>6, <4>1 DEF Bears, Gone
      <4>3. QED
        BY <1>5, <2>1, <3>1, <4>1, <4>2 DEF Gone
    <3>4. QED
      BY <1>10, <1>16, <3>2, <3>3
  <2>2. CASE x \notin Ids(ef)
    <3>1. x \in Creates(af) /\ x \in Ids(af)
      BY <1>9, <1>10, <1>16, <2>2
    <3>2. QED
      BY <1>2, <1>11, <2>2, <3>1
  <2>3. QED
    BY <2>1, <2>2
<1>17. ASSUME NEW x \in Ids(f), x \in Creates(v)
       PROVE  Initial(f, x) # NoRow
  <2>1. CASE x \in Creates(ev)
    <3>1. x \in Ids(ef) /\ rows[x] = NoRow /\ x \notin Ids(af)
      BY <1>3, <1>4, <1>8, <2>1
    <3>2. QED
      BY <1>3, <1>11, <3>1
  <2>2. CASE x \in Creates(av)
    <3>1. x \in Ids(af)
      BY <1>2, <1>9, <2>2
    <3>2. QED
      BY <1>2, <1>11, <2>2, <3>1
  <2>3. QED
    BY <1>10, <1>17, <2>1, <2>2
<1>18. Ids(f) = Ids(v)
  BY <1>2, <1>3, <1>10
<1>19. QED
  BY <1>1, <1>7, <1>14, <1>15, <1>16, <1>17, <1>18 DEF Sound

\* service.rs:107: the new entry joins the last one.
LEMMA ToldJoin ==
    ASSUME NEW tale, NEW n, NEW f, NEW e, NEW to, Builds(tale, n, f, e, to),
           f < n, e.group # Alone,
           NEW rs2, Replayed(e.forward, rows, rs2, stated),
           NEW more \in Seq(Entry), Len(more) = n, more[n] = Joined(tale[n], e),
           \A k \in 1 .. n - 1 : more[k] = tale[k]
    PROVE  Told(more, n, f, rs2, stated, {})
<1> DEFINE a == tale[n]
           j == Joined(a, e)
<1>1. /\ f \in Nat /\ n \in Nat /\ f < n /\ n <= Len(tale) /\ Len(tale) \in Nat
      /\ n \in f + 1 .. Len(tale) /\ n \in 1 .. n
      /\ Told(tale, n, f, rows, stated, {})
      /\ e \in Entry /\ Drawn(e.forward, e.inverse, rows, to) /\ Fits(to, e.group)
      /\ \A k \in 1 .. n : Ids(tale[k].forward) \subseteq Named
  BY DEF Builds
<1>2. a \in Entry /\ more[n] = j /\ Len(more) = n
  <2>1. tale \in Seq(Entry) /\ n \in 1 .. Len(tale)
    BY <1>1 DEF Builds
  <2>2. QED
    BY <2>1
<1>3. Sound(stated, a) /\ Ids(a.forward) \subseteq Named
  BY <1>1 DEF Told, AllSound
<1> HIDE DEF a
<1>4. ASSUME NEW x \in Ids(a.forward)
      PROVE  Bears(stated, x, rows[x], Final(a.forward, x))
  <2>1. \A i \in DOMAIN a.forward : a.forward[i] \in Mutation
    BY <1>2 DEF Entry
  <2>2. x \in Rows
    BY <2>1 DEF Ids, Mutation
  <2>3. Silent(tale, x, n + 1, n)
    BY <1>1 DEF Silent
  <2>4. QED
    BY <1>1, <2>2, <2>3 DEF Told, LeftSo, a
<1>5. Sound(stated, j)
  BY <1>1, <1>2, <1>3, <1>4, JoinedSound
<1>6. /\ j.forward = a.forward \o e.forward /\ j.inverse = e.inverse \o a.inverse
      /\ a.forward \in Seq(Mutation) /\ a.inverse \in Seq(Mutation)
      /\ e.forward \in Seq(Mutation) /\ e.inverse \in Seq(Mutation)
  BY <1>1, <1>2, JoinedLists
<1> HIDE DEF j
<1>7. /\ \A x : x \in Ids(j.forward) <=> x \in Ids(a.forward) \/ x \in Ids(e.forward)
      /\ Ids(a.forward) = Ids(a.inverse)
      /\ Ids(e.forward) = Ids(e.inverse)
      /\ \A x \in Ids(e.forward) : Final(e.inverse, x) = rows[x] /\ rows[x] # to[x]
  <2>1. \A x : x \in Ids(j.forward) <=> x \in Ids(a.forward) \/ x \in Ids(e.forward)
    BY <1>6, BehindNames
  <2>2. Ids(a.forward) = Ids(a.inverse)
    BY <1>3 DEF Sound
  <2>3. QED
    BY <1>1, <2>1, <2>2, DrawnOnce
<1>8. \A x : /\ x \in Ids(e.forward) => Final(j.forward, x) = Final(e.forward, x)
             /\ x \in Ids(a.forward) /\ x \notin Ids(e.forward) =>
                   Final(j.forward, x) = Final(a.forward, x)
             /\ x \in Ids(a.inverse) => Final(j.inverse, x) = Final(a.inverse, x)
             /\ x \in Ids(e.inverse) /\ x \notin Ids(a.inverse) =>
                   Final(j.inverse, x) = Final(e.inverse, x)
  BY <1>6, BehindEnds
<1>9. \A k \in f + 1 .. n : \/ k = n
                            \/ k \in 1 .. n - 1 /\ k \in f + 1 .. Len(tale) /\ more[k] = tale[k]
  BY <1>1
<1>10. AllSound(more, f, stated)
  BY <1>1, <1>2, <1>5, <1>9 DEF Told, AllSound
<1>11. ASSUME NEW x \in Rows, NEW i \in f + 1 .. n, NEW k \in Nat, k < n,
              Silent(more, x, i + 1, k)
       PROVE  Silent(tale, x, i + 1, k)
  <2>1. \A l \in i + 1 .. k : l \in 1 .. n - 1
    BY <1>1, <1>11
  <2>2. QED
    BY <1>11, <2>1 DEF Silent
<1>12. ASSUME NEW i \in f + 1 .. n, NEW k \in f + 1 .. n, NEW x \in Rows,
              Neighbours(more, x, i, k)
       PROVE  /\ Final(more[k].inverse, x) # NoRow
              /\ Bears(stated, x, Final(more[k].inverse, x), Final(more[i].forward, x))
  <2>1. /\ i < k /\ i \in 1 .. n - 1 /\ i \in f + 1 .. Len(tale) /\ more[i] = tale[i]
        /\ x \in Ids(tale[i].forward) /\ x \in Ids(more[k].forward)
        /\ k - 1 \in Nat /\ k - 1 < n /\ i \in 1 .. n
    BY <1>1, <1>9, <1>12 DEF Neighbours
  <2>2. Silent(tale, x, i + 1, k - 1)
    BY <1>11, <1>12, <2>1 DEF Neighbours
  <2>3. CASE k # n
    <3>1. more[k] = tale[k] /\ k \in f + 1 .. Len(tale)
      BY <1>9, <2>3
    <3>2. Neighbours(tale, x, i, k)
      BY <2>1, <2>2, <3>1 DEF Neighbours
    <3>3. QED
      BY <1>1, <2>1, <3>1, <3>2 DEF Told, Linked
  <2>4. CASE k = n /\ x \in Ids(a.forward)
    <3>1. Neighbours(tale, x, i, n)
      BY <2>1, <2>2, <2>4 DEF Neighbours, a
    <3>2. /\ Final(a.inverse, x) # NoRow
          /\ Bears(stated, x, Final(a.inverse, x), Final(tale[i].forward, x))
      BY <1>1, <2>1, <3>1 DEF Told, Linked, a
    <3>3. QED
      BY <1>2, <1>7, <1>8, <2>1, <2>4, <3>2
  <2>5. CASE k = n /\ x \notin Ids(a.forward)
    <3>1. x \in Ids(e.forward)
      BY <1>2, <1>7, <2>1, <2>5
    <3>2. Silent(tale, x, i + 1, n)
      <4>1. \A l \in i + 1 .. n : l = n \/ l \in i + 1 .. k - 1
        BY <1>1, <2>5
      <4>2. QED
        BY <2>2, <2>5, <4>1 DEF Silent, a
    <3>3. Bears(stated, x, rows[x], Final(tale[i].forward, x))
      BY <1>1, <2>1, <3>2 DEF Told, LeftSo
    <3>4. rows[x] # NoRow
      BY <1>1, <2>1, <3>1, NamedIsThere
    <3>5. Final(more[k].inverse, x) = rows[x]
      BY <1>2, <1>7, <1>8, <2>5, <3>1
    <3>6. QED
      BY <2>1, <3>3, <3>4, <3>5
  <2>6. QED
    BY <2>3, <2>4, <2>5
<1>13. Linked(more, f, stated)
  BY <1>2, <1>12 DEF Linked
<1>14. LeftSo(more, n, f, rs2, stated, {})
  <2>1. SUFFICES ASSUME NEW x \in Rows, NEW i \in f + 1 .. n,
                        x \in Ids(more[i].forward), Silent(more, x, i + 1, n)
                 PROVE  Bears(stated, x, rs2[x], Final(more[i].forward, x))
    BY DEF LeftSo
  <2>2. CASE i = n /\ x \in Ids(e.forward)
    BY <1>2, <1>8, <2>2 DEF Replayed
  <2>3. CASE i = n /\ x \notin Ids(e.forward)
    <3>1. x \in Ids(a.forward)
      BY <1>2, <1>7, <2>1, <2>3
    <3>2. rs2[x] = rows[x]
      BY <2>3 DEF Replayed
    <3>3. QED
      BY <1>2, <1>4, <1>8, <2>3, <3>1, <3>2
  <2>4. CASE i # n
    <3>1. i \in 1 .. n - 1 /\ more[i] = tale[i] /\ n \in i + 1 .. n
      BY <1>1, <1>9, <2>4
    <3>2. x \notin Ids(j.forward)
      BY <1>2, <2>1, <3>1 DEF Silent
    <3>3. x \notin Ids(a.forward) /\ x \notin Ids(e.forward)
      BY <1>7, <3>2
    <3>4. Silent(tale, x, i + 1, n)
      <4>1. \A l \in i + 1 .. n : l = n \/ (l \in 1 .. n - 1 /\ more[l] = tale[l])
        BY <1>1
      <4>2. QED
        BY <2>1, <3>3, <4>1 DEF Silent, a
    <3>5. rs2[x] = rows[x]
      BY <3>3 DEF Replayed
    <3>6. QED
      BY <1>1, <2>1, <3>1, <3>4, <3>5 DEF Told, LeftSo
  <2>5. QED
    BY <2>2, <2>3, <2>4
<1>15. FoundSo(more, n, f, rs2, stated, {})
  BY <1>1, <1>2 DEF FoundSo
<1>16. QED
  BY <1>10, <1>13, <1>14, <1>15 DEF Told

-----------------------------------------------------------------------------
(* What others write.                                                      *)

\* service.rs:525: the floor goes up, over every entry there was news of; what can
\* be redone stays unless there was news of it.
LEMMA ToldRaised ==
    ASSUME NEW tale \in Seq(Entry), NEW f \in Nat, NEW g \in Nat, NEW n \in Nat,
           f <= g, g <= n, n <= Len(tale),
           NEW rs, NEW st, NEW news, Told(tale, n, f, rs, st, news),
           NEW more \in Seq(Entry), n <= Len(more), Len(more) <= Len(tale),
           \A k \in 1 .. Len(more) : more[k] = tale[k],
           \A k \in g + 1 .. Len(more) : Ids(more[k].forward) \cap news = {}
    PROVE  Told(more, n, g, rs, st, {})
<1>1. /\ Len(tale) \in Nat /\ Len(more) \in Nat
      /\ \A k \in g + 1 .. Len(more) : /\ k \in f + 1 .. Len(tale) /\ k \in 1 .. Len(more)
                                       /\ more[k] = tale[k]
  OBVIOUS
<1>2. AllSound(more, g, st)
  BY <1>1 DEF Told, AllSound
<1>3. ASSUME NEW x, NEW i \in Nat, NEW j \in Nat, j <= Len(more), 1 <= i, Silent(more, x, i, j)
      PROVE  Silent(tale, x, i, j)
  <2>1. \A k \in i .. j : k \in 1 .. Len(more)
    BY <1>1, <1>3
  <2>2. QED
    BY <1>3, <2>1 DEF Silent
<1>4. Linked(more, g, st)
  <2>1. SUFFICES ASSUME NEW i \in g + 1 .. Len(more), NEW j \in g + 1 .. Len(more),
                        NEW x \in Rows, Neighbours(more, x, i, j)
                 PROVE  /\ Final(more[j].inverse, x) # NoRow
                        /\ Bears(st, x, Final(more[j].inverse, x), Final(more[i].forward, x))
    BY DEF Linked
  <2>2. Silent(tale, x, i + 1, j - 1)
    <3>1. i + 1 \in Nat /\ 1 <= i + 1 /\ j - 1 \in Nat /\ j - 1 <= Len(more)
      BY <1>1
    <3>2. QED
      BY <1>3, <2>1, <3>1 DEF Neighbours
  <2>3. Neighbours(tale, x, i, j)
    BY <1>1, <2>1, <2>2 DEF Neighbours
  <2>4. QED
    BY <1>1, <2>3 DEF Told, Linked
<1>5. LeftSo(more, n, g, rs, st, {})
  <2>1. SUFFICES ASSUME NEW x \in Rows, NEW i \in g + 1 .. n,
                        x \in Ids(more[i].forward), Silent(more, x, i + 1, n)
                 PROVE  Bears(st, x, rs[x], Final(more[i].forward, x))
    BY DEF LeftSo
  <2>2. i \in g + 1 .. Len(more) /\ i \in f + 1 .. n /\ i + 1 \in Nat /\ 1 <= i + 1
    BY <1>1
  <2>3. Silent(tale, x, i + 1, n) /\ x \notin news
    BY <1>3, <2>1, <2>2
  <2>4. QED
    BY <1>1, <2>1, <2>2, <2>3 DEF Told, LeftSo
<1>6. FoundSo(more, n, g, rs, st, {})
  <2>1. SUFFICES ASSUME NEW x \in Rows, NEW i \in n + 1 .. Len(more),
                        x \in Ids(more[i].forward), Silent(more, x, n + 1, i - 1)
                 PROVE  Bears(st, x, rs[x], Final(more[i].inverse, x))
    BY DEF FoundSo
  <2>2. i \in g + 1 .. Len(more) /\ i \in n + 1 .. Len(tale) /\ n + 1 \in Nat /\ 1 <= n + 1
        /\ i - 1 \in Nat /\ i - 1 <= Len(more)
    BY <1>1
  <2>3. Silent(tale, x, n + 1, i - 1) /\ x \notin news
    BY <1>3, <2>1, <2>2
  <2>4. QED
    BY <1>1, <2>1, <2>2, <2>3 DEF Told, FoundSo
<1>7. QED
  BY <1>2, <1>4, <1>5, <1>6 DEF Told

\* The vault has been told more, and some rows are news.
LEMMA ToldMore ==
    ASSUME NEW tale, NEW f, NEW n, NEW rs, NEW st, NEW news, Told(tale, n, f, rs, st, news),
           NEW rs2, NEW more, st \subseteq more, NEW newer, news \subseteq newer,
           \A x \in Rows \ newer : Alike(rs[x], rs2[x])
    PROVE  Told(tale, n, f, rs2, more, newer)
<1>1. AllSound(tale, f, more)
  BY DEF Told, AllSound, Sound
<1>2. Linked(tale, f, more)
  <2>1. \A r : Alike(r, r)
    BY DEF Alike
  <2>2. QED
    BY <2>1, BearsStill DEF Told, Linked
<1>3. LeftSo(tale, n, f, rs2, more, newer)
  BY BearsStill DEF Told, LeftSo
<1>4. FoundSo(tale, n, f, rs2, more, newer)
  BY BearsStill DEF Told, FoundSo
<1>5. QED
  BY <1>1, <1>2, <1>3, <1>4 DEF Told

\* Nothing was done yet.
LEMMA ToldNothing ==
    ASSUME NEW rs, NEW st, NEW news, NEW f \in Nat
    PROVE  Told(<<>>, 0, f, rs, st, news)
<1>1. Len(<<>>) = 0 /\ f + 1 .. 0 = {} /\ 0 + 1 .. 0 = {}
  OBVIOUS
<1>2. QED
  BY <1>1 DEF Told, AllSound, Linked, LeftSo, FoundSo

-----------------------------------------------------------------------------
(* What the other steps write is a table.                                  *)

\* Where a transaction is, whether or not it went through.
Shaped(t) == \E o \in BOOLEAN, r \in Table : \E c : t = [ok |-> o, rows |-> r, creates |-> c]

\* One mutation more.
LEMMA AppliedShape ==
    ASSUME NEW t, Shaped(t), NEW m \in Mutation
    PROVE  Shaped(Apply(t, m))
<1>1. PICK o \in BOOLEAN, r \in Table : \E c : t = [ok |-> o, rows |-> r, creates |-> c]
  BY DEF Shaped
<1>2. PICK c : t = [ok |-> o, rows |-> r, creates |-> c]
  BY <1>1
<1>3. m.id \in Rows /\ m.row \in Node \cup {NoRow}
  BY DEF Mutation
<1>4. ASSUME NEW s \in Node \cup {NoRow}
      PROVE  [r EXCEPT ![m.id] = s] \in Table
  BY <1>3 DEF Table
<1>5. CASE ~o
  <2>1. ~t.ok
    BY <1>2, <1>5
  <2>2. Apply(t, m) = t
    BY <2>1 DEF Apply
  <2>3. QED
    BY <2>2
<1>6. CASE o /\ m.row = NoRow
  <2>1. t = [ok |-> TRUE, rows |-> r, creates |-> c] /\ t.ok
    BY <1>2, <1>6
  <2>2. PICK s \in Node \cup {NoRow} :
            Removed([ok |-> TRUE, rows |-> r, creates |-> c], m.id)
                = [ok |-> TRUE, rows |-> [r EXCEPT ![m.id] = s], creates |-> c]
    <3>1. \E s \in Node \cup {NoRow} :
              /\ s = NoRow \/ (m.id \in stated /\ ~s.live)
              /\ s = NoRow => m.id \notin stated \/ r[m.id] = NoRow
              /\ Removed([ok |-> TRUE, rows |-> r, creates |-> c], m.id)
                    = [ok |-> TRUE, rows |-> [r EXCEPT ![m.id] = s], creates |-> c]
      BY <1>3, RemovedRow
    <3>2. QED
      BY <3>1
  <2>3. Apply(t, m) = Removed(t, m.id)
    BY <1>6, <2>1, Zenon DEF Apply
  <2>4. QED
    BY <1>4, <2>1, <2>2, <2>3 DEF Shaped
<1>7. CASE o /\ m.row # NoRow
  <2>1. t.ok /\ t.rows = r
    BY <1>2, <1>7
  <2>2. ASSUME NEW ok \in BOOLEAN, NEW d
        PROVE  Shaped([ok |-> ok, rows |-> [t.rows EXCEPT ![m.id] = m.row], creates |-> d])
    BY <1>3, <1>4, <2>1 DEF Shaped
  <2>3. CASE m.id \in t.creates
    <3>1. Apply(t, m) = Inserted(t, m)
      BY <1>7, <2>1, <2>3, Zenon DEF Apply
    <3>2. QED
      BY <2>2, <3>1 DEF Inserted
  <2>4. CASE m.id \notin t.creates
    <3>1. Apply(t, m) = Updated(t, m)
      BY <1>7, <2>1, <2>4, Zenon DEF Apply
    <3>2. QED
      BY <2>2, <3>1 DEF Updated
  <2>5. QED
    BY <2>3, <2>4
<1>8. QED
  BY <1>3, <1>5, <1>6, <1>7

\* mutations.rs:10: a transaction leaves a table.
LEMMA TransactionTyped ==
    ASSUME rows \in Table, NEW p \in Seq(Mutation), NEW q
    PROVE  Transaction(p, q).rows \in Table
<1> DEFINE n == Len(p)
<1>1. n \in Nat /\ \A i \in 1 .. n : p[i] \in Mutation
  OBVIOUS
<1>2. PICK g : /\ Transaction(p, q) = g[n]
               /\ g[0] = [ok |-> TRUE, rows |-> rows, creates |-> Creates(q)]
               /\ \A i \in 1 .. n : g[i] = Apply(g[i - 1], p[i])
  BY TransactionLoops
<1> HIDE DEF n
<1> DEFINE S == {i \in 0 .. n : Shaped(g[i])}
<1>3. 0 \in S
  <2>1. Shaped([ok |-> TRUE, rows |-> rows, creates |-> Creates(q)])
    BY DEF Shaped
  <2>2. QED
    BY <1>1, <1>2, <2>1
<1>4. ASSUME NEW i \in 0 .. n, i \in S, i # n
      PROVE  i + 1 \in S
  <2>1. i + 1 \in 1 .. n /\ i + 1 - 1 = i
    BY <1>1, <1>4
  <2>2. g[i + 1] = Apply(g[i], p[i + 1]) /\ p[i + 1] \in Mutation
    BY <1>1, <1>2, <2>1
  <2>3. Shaped(g[i + 1])
    BY <1>4, <2>2, AppliedShape
  <2>4. QED
    BY <2>1, <2>3
<1>5. S \subseteq 0 .. n
  OBVIOUS
<1> HIDE DEF S
<1>6. S = 0 .. n
  BY <1>1, <1>3, <1>4, <1>5, UpTo
<1>7. Shaped(g[n])
  BY <1>1, <1>6 DEF S
<1>8. QED
  BY <1>2, <1>7 DEF Shaped

\* A table a merge leaves: only the rows it calls changed say something else.
Mergeable(table, affected) ==
    /\ table \in Table /\ affected \in SUBSET Rows
    /\ \A y \in Rows \ affected : Alike(rows[y], table[y])

\* One row replaced.
LEMMA PutMergeable ==
    ASSUME rows \in Table, NEW x \in Rows, NEW r \in Node \cup {NoRow}
    PROVE  Mergeable([rows EXCEPT ![x] = r], {x})
<1>1. /\ [rows EXCEPT ![x] = r] \in Table
      /\ \A y \in Rows \ {x} : [rows EXCEPT ![x] = r][y] = rows[y]
  BY RowPut
<1>2. QED
  BY <1>1 DEF Mergeable, Alike

\* merger.rs: a line for a row that is there.
LEMMA LineMergeable ==
    ASSUME rows \in Table, NEW x \in Present(rows)
    PROVE  /\ \A t \in Texts : Mergeable([Revived(x) EXCEPT ![x].text = t], {x})
           /\ Mergeable(Trashed(x), {x})
<1>1. x \in Rows
  BY DEF Present
<1>2. \A r \in Node : Mergeable([rows EXCEPT ![x] = r], {x})
  BY <1>1, PutMergeable
<1>3. \A t \in Texts : \E r \in Node :
         r.live /\ [Revived(x) EXCEPT ![x].text = t] = [rows EXCEPT ![x] = r]
  BY RowsPut
<1>4. \E r \in Node : ~r.live /\ Trashed(x) = [rows EXCEPT ![x] = r]
  BY RowsPut
<1>5. ASSUME NEW t \in Texts
      PROVE  Mergeable([Revived(x) EXCEPT ![x].text = t], {x})
  <2>1. PICK r \in Node : [Revived(x) EXCEPT ![x].text = t] = [rows EXCEPT ![x] = r]
    BY <1>3
  <2>2. QED
    BY <1>2, <2>1
<1>6. Mergeable(Trashed(x), {x})
  BY <1>2, <1>4
<1>7. QED
  BY <1>5, <1>6

\* merger.rs: a line with a place of its own, whose siblings get other keys.
LEMMA PlaceMergeable ==
    ASSUME rows \in Table, NEW x \in Present(rows) \cup Fresh, NEW prev
    PROVE  LET placed == IF x \in Fresh THEN Begun(x) ELSE Revived(x)
               order == MergedOrder(rows, x, prev)
           IN Mergeable(Respaced(placed, order), Relinked(Ordered(rows, Live(rows)), order, x))
<1> DEFINE placed == IF x \in Fresh THEN Begun(x) ELSE Revived(x)
           order == MergedOrder(rows, x, prev)
           before == Ordered(rows, Live(rows))
           affected == Relinked(before, order, x)
           table == Respaced(placed, order)
<1>1. x \in Rows /\ Live(rows) \subseteq Present(rows) /\ Present(rows) \subseteq Rows
  BY DEF Present, Live, Fresh
<1>2. order \in Seq(Live(rows) \cup {x})
  BY MergedOrders
<1>3. before \in Seq(Live(rows))
  BY <1>1, OrderedLists
<1>4. \E r \in Node : placed = [rows EXCEPT ![x] = r]
  <2>1. CASE x \in Fresh
    <3>1. [text |-> Blank, key |-> Step, live |-> TRUE] \in Node
      BY SessionAssumption, FamilyAssumption DEF Node
    <3>2. QED
      BY <2>1, <3>1 DEF Begun
  <2>2. CASE x \notin Fresh
    <3>1. \E r \in Node : r.live /\ Revived(x) = [rows EXCEPT ![x] = r]
      BY <2>2, RowsPut
    <3>2. QED
      BY <2>2, <3>1
  <2>3. QED
    BY <2>1, <2>2
<1> HIDE DEF placed, order, before
<1>5. PICK r \in Node : placed = [rows EXCEPT ![x] = r]
  BY <1>4
<1>6. /\ placed \in Table /\ placed[x] = r
      /\ \A y \in Rows \ {x} : placed[y] = rows[y]
  <2>1. r \in Node \cup {NoRow}
    OBVIOUS
  <2>2. /\ [rows EXCEPT ![x] = r] \in Table /\ [rows EXCEPT ![x] = r][x] = r
        /\ \A y \in Rows \ {x} : [rows EXCEPT ![x] = r][y] = rows[y]
    BY <1>1, <2>1, RowPut
  <2>3. QED
    BY <1>5, <2>2
<1>7. Live(rows) \cup {x} \in SUBSET Present(placed)
  BY <1>1, <1>6, NoRowAssumption DEF Present, Live
<1>8. Rekeyed(placed, table)
  BY <1>2, <1>6, <1>7, RespacedKeys
<1>9. affected \in SUBSET Rows /\ x \in affected
  <2>1. ASSUME NEW l \in Seq(Rows)
        PROVE  Follower(l, x) \subseteq Rows
    <3>1. \A i \in 1 .. Len(l) : l[i] \in Rows
      OBVIOUS
    <3>2. \A i \in 2 .. Len(l) : i \in 1 .. Len(l)
      OBVIOUS
    <3>3. QED
      BY <3>1, <3>2 DEF Follower
  <2>2. order \in Seq(Rows) /\ before \in Seq(Rows)
    BY <1>1, <1>2, <1>3
  <2>3. QED
    BY <1>1, <2>1, <2>2 DEF Relinked
<1> HIDE DEF table, affected
<1>10. Mergeable(table, affected)
  BY <1>6, <1>8, <1>9 DEF Mergeable, Rekeyed
<1>11. QED
  BY <1>10 DEF table, affected, placed, order, before

\* reindex.rs: a rebuild leaves a row for every line it read.
LEMMA RebuiltTyped ==
    ASSUME NEW S \in SUBSET Rows, NEW says \in Texts
    PROVE  LET read == [x \in Rows |-> IF x \in S
                                       THEN [text |-> says, key |-> Step, live |-> TRUE]
                                       ELSE NoRow]
           IN Respaced(read, Ordered(read, S)) \in Table
<1> DEFINE line == [text |-> says, key |-> Step, live |-> TRUE]
           read == [x \in Rows |-> IF x \in S THEN line ELSE NoRow]
<1>1. line \in Node
  BY FamilyAssumption DEF Node
<1>2. line # NoRow
  BY <1>1, NoRowAssumption
<1> HIDE DEF line
<1>3. read \in Table
  BY <1>1 DEF Table
<1>4. S \in SUBSET Present(read)
  BY <1>2 DEF Present
<1> HIDE DEF read
<1>5. Ordered(read, S) \in Seq(S)
  BY <1>3, <1>4, OrderedLists
<1>6. Rekeyed(read, Respaced(read, Ordered(read, S)))
  BY <1>3, <1>4, <1>5, RespacedKeys
<1>7. QED
  BY <1>6 DEF Rekeyed, read, line

-----------------------------------------------------------------------------
(* Stacks of entries.                                                      *)

\* The top of a stack and what is under it.
LEMMA Top ==
    ASSUME NEW S, NEW s \in Seq(S), s # <<>>
    PROVE  /\ Len(s) \in Nat \ {0} /\ Last(s) = s[Len(s)] /\ Last(s) \in S
           /\ Front(s) \in Seq(S) /\ Len(Front(s)) = Len(s) - 1
           /\ \A i \in 1 .. Len(s) - 1 : Front(s)[i] = s[i]
<1>1. Len(s) \in Nat \ {0}
  OBVIOUS
<1>2. PICK n \in Nat : n = Len(s) - 1
  BY <1>1
<1>3. /\ SubSeq(s, 1, n) \in Seq(S) /\ Len(SubSeq(s, 1, n)) = n
      /\ \A i \in 1 .. n : SubSeq(s, 1, n)[i] = s[i]
  BY <1>1, <1>2
<1>4. Front(s) = SubSeq(s, 1, n)
  BY <1>2 DEF Front
<1>5. Last(s) = s[Len(s)] /\ Last(s) \in S
  BY <1>1 DEF Last
<1>6. QED
  BY <1>1, <1>2, <1>3, <1>4, <1>5

\* A push.
LEMMA OnTop ==
    ASSUME NEW S, NEW s \in Seq(S), NEW e \in S
    PROVE  /\ Append(s, e) \in Seq(S) /\ Len(Append(s, e)) = Len(s) + 1 /\ Len(s) \in Nat
           /\ Append(s, e)[Len(s) + 1] = e
           /\ \A i \in 1 .. Len(s) : Append(s, e)[i] = s[i]
BY AppendProperties

\* A push that keeps to the limit.
LEMMA WithinBounds ==
    ASSUME NEW S, NEW s \in Seq(S), NEW e \in S
    PROVE  LET l == Append(s, e)
               t == Bounded(l)
           IN /\ t \in Seq(S)
              /\ Len(s) + 1 <= MaxHistory => t = l
              /\ Len(s) + 1 > MaxHistory =>
                    Len(t) = Len(s) /\ \A i \in 1 .. Len(s) : t[i] = l[i + 1]
<1> DEFINE l == Append(s, e)
<1>1. l \in Seq(S) /\ Len(l) = Len(s) + 1 /\ Len(s) \in Nat
  BY OnTop
<1> HIDE DEF l
<1>2. /\ Tail(l) \in Seq(S) /\ Len(Tail(l)) = Len(s)
      /\ \A i \in 1 .. Len(s) : Tail(l)[i] = l[i + 1]
  BY <1>1
<1>3. CASE Len(s) + 1 <= MaxHistory
  BY <1>1, <1>3, SessionAssumption DEF Bounded, l
<1>4. CASE Len(s) + 1 > MaxHistory
  BY <1>1, <1>2, <1>4, SessionAssumption DEF Bounded, l
<1>5. QED
  BY <1>1, <1>3, <1>4, SessionAssumption

-----------------------------------------------------------------------------
(* What everything is.                                                     *)

\* Who asks: a window, or a conflict that is restored.
Id == [kind : {"window", "restore"}, of : Nat]

\* A plan that is held.
Draft == [busy : {TRUE}, id : Id, group : Groups \cup {Alone},
          forward : Seq(Mutation), inverse : Seq(Mutation)]

\* A watch thread with news.
Telling == [at : {"merged"}, affected : SUBSET Rows]
           \cup [at : {"read"}, affected : SUBSET Rows, revision : Nat]

\* A rebuild under way.
Rereading == [at : {"rebuilt"}] \cup [at : {"read"}, revision : Nat]

\* The type of the state, with the types of what the entries, the plan and the threads hold.
Typed ==
    /\ rows \in Table /\ stated \in SUBSET Rows
    /\ revision \in Nat /\ known \in Nat /\ floor \in Nat
    /\ undo \in Seq(Entry) /\ redo \in Seq(Entry)
    /\ answered \in Seq(Id)
    /\ plan \in {NoPlan} \cup Draft
    /\ watch \in [Watchers -> {Resting} \cup Telling]
    /\ rebuild \in {Resting} \cup Rereading

\* At the start.
LEMMA TypedInitially == Init => Typed
<1>1. SUFFICES ASSUME Init PROVE Typed
  OBVIOUS
<1>2. rows \in Table
  <2>1. \A x \in Rows : [text |-> Blank, key |-> Step * x, live |-> TRUE] \in Node
    BY FamilyAssumption, SessionAssumption DEF Node
  <2>2. QED
    BY <1>1, <2>1 DEF Init, Table
<1>3. QED
  BY <1>1, <1>2, SessionAssumption DEF Init, Typed

\* It is stronger than the type invariant the run checks.
LEMMA TypedMeans == Typed => TypeOK
<1>1. SUFFICES ASSUME Typed PROVE TypeOK
  OBVIOUS
<1>2. \A i \in 1 .. Len(answered) : answered[i].kind \in {"window", "restore"}
  <2>1. \A i \in 1 .. Len(answered) : answered[i] \in Id
    BY <1>1 DEF Typed
  <2>2. QED
    BY <2>1 DEF Id
<1>3. plan.busy \in BOOLEAN
  <2>1. NoPlan.busy \in BOOLEAN
    BY DEF NoPlan
  <2>2. \A d \in Draft : d.busy \in BOOLEAN
    BY DEF Draft
  <2>3. QED
    BY <1>1, <2>1, <2>2 DEF Typed
<1>4. \A w \in Watchers : watch[w].at \in {"rest", "merged", "read"}
  BY <1>1 DEF Typed, Telling, Resting
<1>5. rebuild.at \in {"rest", "rebuilt", "read"}
  BY <1>1 DEF Typed, Rereading, Resting
<1>6. QED
  BY <1>1, <1>2, <1>3, <1>4, <1>5 DEF Typed, TypeOK, Table

\* What a plan is drawn up as.
LEMMA Drafting ==
    ASSUME rows \in Table, NEW id \in Id, NEW g \in Groups \cup {Alone}, NEW table \in Table,
           Plan(id, g, table)
    PROVE  /\ plan' \in Draft /\ plan'.group = g
           /\ Drawn(plan'.forward, plan'.inverse, rows, table)
<1>1. Drawn(Diff(rows, table), Diff(table, rows), rows, table)
  BY DiffDraws
<1>2. Diff(rows, table) \in Seq(Mutation) /\ Diff(table, rows) \in Seq(Mutation)
  BY <1>1 DEF Drawn
<1>3. plan' = [busy |-> TRUE, id |-> id, group |-> g,
               forward |-> Diff(rows, table), inverse |-> Diff(table, rows)]
  BY DEF Plan
<1>4. plan' \in Draft
  BY <1>2, <1>3 DEF Draft
<1>5. QED
  BY <1>1, <1>3, <1>4

\* A command is drawn up for a table that fits.
LEMMA Executing ==
    ASSUME Typed, (\E q \in Requests : Execute(q)) \/ (\E x \in Rows : RestoreConflict(x))
    PROVE  /\ UNCHANGED <<stored, session, others>>
           /\ plan' \in Draft
           /\ \E t \in Table : Drawn(plan'.forward, plan'.inverse, rows, t) /\ Fits(t, plan'.group)
<1>1. rows \in Table /\ known \in Nat
  BY DEF Typed
<1>2. ASSUME NEW id \in Id, NEW g \in Groups \cup {Alone}, NEW t \in Table,
             Fits(t, g), Plan(id, g, t)
      PROVE  /\ plan' \in Draft
             /\ \E s \in Table : Drawn(plan'.forward, plan'.inverse, rows, s) /\ Fits(s, plan'.group)
  BY <1>1, <1>2, Drafting
<1>3. CASE \E q \in Requests : Execute(q)
  <2>1. PICK q \in Requests : Execute(q)
    BY <1>3
  <2>2. Asked(q) \in Id
    BY SessionAssumption DEF Asked, Id
  <2>3. \/ \E table \in Planned, g \in Groups : Plan(Asked(q), g, table)
        \/ \E table \in Restored : Plan(Asked(q), Alone, table)
    BY <2>1 DEF Execute
  <2>4. CASE \E table \in Planned, g \in Groups : Plan(Asked(q), g, table)
    <3>1. PICK table \in Planned, g \in Groups : Plan(Asked(q), g, table)
      BY <2>4
    <3>2. table \in Table /\ Fits(table, g)
      BY <1>1, PlannedFits
    <3>3. QED
      BY <1>2, <2>1, <2>2, <3>1, <3>2 DEF Execute
  <2>5. CASE \E table \in Restored : Plan(Asked(q), Alone, table)
    <3>1. PICK table \in Restored : Plan(Asked(q), Alone, table)
      BY <2>5
    <3>2. table \in Table /\ Fits(table, Alone)
      BY <1>1, RestoredFits
    <3>3. QED
      BY <1>2, <2>1, <2>2, <3>1, <3>2 DEF Execute
  <2>6. QED
    BY <2>3, <2>4, <2>5
<1>4. CASE \E x \in Rows : RestoreConflict(x)
  <2>1. PICK x \in Rows : RestoreConflict(x)
    BY <1>4
  <2>2. Restore \in Id
    BY <1>1 DEF Restore, Id
  <2>3. PICK t \in Texts : Plan(Restore, Alone, Retyped(x, t))
    BY <2>1 DEF RestoreConflict
  <2>4. Retyped(x, t) \in Table /\ Fits(Retyped(x, t), Alone)
    BY <1>1, <2>1, RestoredFits DEF RestoreConflict
  <2>5. QED
    BY <1>2, <2>1, <2>2, <2>3, <2>4 DEF RestoreConflict
<1>5. QED
  BY <1>3, <1>4

\* service.rs:70: a commit leaves stacks of entries.
LEMMA RecordTyped ==
    ASSUME Typed, NEW e \in Entry, RecordHistory(e)
    PROVE  floor' \in Nat /\ undo' \in Seq(Entry) /\ redo' \in Seq(Entry)
<1>1. undo \in Seq(Entry) /\ floor \in Nat /\ Len(undo) \in Nat
  BY DEF Typed
<1>2. redo' \in Seq(Entry)
  BY DEF RecordHistory
<1>3. CASE Joins(e)
  <2>1. undo # <<>>
    BY <1>1, <1>3 DEF Joins
  <2>2. Front(undo) \in Seq(Entry) /\ Last(undo) \in Entry
    BY <1>1, <2>1, Top
  <2>3. Joined(Last(undo), e) \in Entry
    BY <2>2, JoinedLists
  <2>4. undo' = Append(Front(undo), Joined(Last(undo), e)) /\ floor' = floor
    BY <1>3 DEF RecordHistory
  <2>5. QED
    BY <1>1, <1>2, <2>2, <2>3, <2>4, OnTop
<1>4. CASE ~Joins(e)
  <2>1. undo' = Bounded(Append(undo, e))
        /\ floor' = IF Len(undo) + 1 > MaxHistory /\ floor > 0 THEN floor - 1 ELSE floor
    BY <1>4 DEF RecordHistory
  <2>2. undo' \in Seq(Entry)
    BY <1>1, <2>1, WithinBounds
  <2>3. QED
    BY <1>1, <1>2, <2>1, <2>2
<1>5. QED
  BY <1>3, <1>4

\* service.rs:146: so does the record of answers.
LEMMA CompletedTyped ==
    ASSUME Typed, NEW id \in Id, RecordCompleted(id)
    PROVE  answered' \in Seq(Id)
<1>1. answered \in Seq(Id) /\ Append(answered, id) \in Seq(Id)
  BY DEF Typed
<1>2. CASE Len(answered) = MaxCompleted
  <2>1. answered # <<>>
    BY <1>2, SessionAssumption
  <2>2. Tail(answered) \in Seq(Id)
    BY <1>1, <2>1
  <2>3. Append(Tail(answered), id) \in Seq(Id)
    BY <2>2
  <2>4. QED
    BY <1>1, <1>2, <2>3 DEF RecordCompleted
<1>3. CASE Len(answered) # MaxCompleted
  BY <1>1, <1>3 DEF RecordCompleted
<1>4. QED
  BY <1>2, <1>3

\* mutations.rs:10: the request that is finished leaves types right.
LEMMA FinishTyped ==
    ASSUME Typed, Finish
    PROVE  Typed'
<1>1. /\ plan' = NoPlan /\ watch' = watch /\ rebuild' = rebuild
      /\ plan \in Draft
  <2>1. plan.busy /\ plan' = NoPlan /\ UNCHANGED others
    BY DEF Finish
  <2>2. plan # NoPlan
    BY <2>1 DEF NoPlan
  <2>3. QED
    BY <2>1, <2>2 DEF Typed, others
<1>2. CASE RefusePlan
  BY <1>1, <1>2 DEF RefusePlan, stored, session, Typed
<1>3. CASE CommitPlan
  <2> DEFINE e == [forward |-> plan.forward, inverse |-> plan.inverse, group |-> plan.group]
  <2>1. e \in Entry /\ plan.id \in Id /\ plan.forward \in Seq(Mutation)
    BY <1>1 DEF Draft, Entry
  <2>2. /\ Stores(plan.forward, plan.inverse)
        /\ UNCHANGED <<floor, undo, redo>> \/ RecordHistory(e)
        /\ RecordCompleted(plan.id)
    BY <1>3 DEF CommitPlan
  <2> HIDE DEF e
  <2>3. /\ rows' \in Table /\ stated' \in SUBSET Rows /\ revision' \in Nat /\ known' \in Nat
    BY <2>1, <2>2, TransactionTyped DEF Stores, Typed
  <2>4. floor' \in Nat /\ undo' \in Seq(Entry) /\ redo' \in Seq(Entry)
    BY <2>1, <2>2, RecordTyped DEF Typed
  <2>5. answered' \in Seq(Id)
    BY <2>1, <2>2, CompletedTyped
  <2>6. QED
    BY <1>1, <2>3, <2>4, <2>5 DEF Typed
<1>4. QED
  BY <1>2, <1>3 DEF Finish

\* service.rs:464, 489: an undo and a redo.
LEMMA UndoRedoTyped ==
    ASSUME Typed, Undo \/ Redo
    PROVE  Typed'
<1>1. undo \in Seq(Entry) /\ redo \in Seq(Entry) /\ floor \in Nat /\ rows \in Table
  BY DEF Typed
<1>2. ASSUME NEW s \in Seq(Entry), s # <<>>, NEW t \in Seq(Entry)
      PROVE  /\ Front(s) \in Seq(Entry) /\ Bounded(Append(t, Last(s))) \in Seq(Entry)
             /\ Last(s).forward \in Seq(Mutation) /\ Last(s).inverse \in Seq(Mutation)
  <2>1. Front(s) \in Seq(Entry) /\ Last(s) \in Entry
    BY <1>2, Top
  <2>2. QED
    BY <2>1, WithinBounds DEF Entry
<1>3. ASSUME NEW p \in Seq(Mutation), NEW q, Stores(p, q)
      PROVE  rows' \in Table /\ stated' \in SUBSET Rows /\ revision' \in Nat /\ known' \in Nat
  BY <1>3, TransactionTyped DEF Stores, Typed
<1>4. CASE Undo
  <2>1. undo # <<>>
    BY <1>1, <1>4 DEF Undo, Undoable
  <2>2. /\ Stores(Last(undo).inverse, Last(undo).forward)
        /\ undo' = Front(undo) /\ redo' = Bounded(Append(redo, Last(undo)))
        /\ UNCHANGED <<floor, answered, plan, others>>
    BY <1>4 DEF Undo
  <2>3. QED
    BY <1>1, <1>2, <1>3, <2>1, <2>2 DEF Typed, others
<1>5. CASE Redo
  <2>1. redo # <<>>
    BY <1>5 DEF Redo
  <2>2. /\ Stores(Last(redo).forward, Last(redo).inverse)
        /\ redo' = Front(redo) /\ undo' = Bounded(Append(undo, Last(redo)))
        /\ UNCHANGED <<floor, answered, plan, others>>
    BY <1>5 DEF Redo
  <2>3. QED
    BY <1>1, <1>2, <1>3, <2>1, <2>2 DEF Typed, others
<1>6. QED
  BY <1>4, <1>5

\* What the steps of a merge put into the storage.
LEMMA Merging ==
    ASSUME rows \in Table, NEW w, MergeLine(w) \/ MergePlace(w) \/ MergePicture(w)
    PROVE  \E table, affected : Mergeable(table, affected) /\ Merged(w, table, affected)
<1>1. CASE MergeLine(w)
  <2>1. PICK x \in Present(rows) :
          \/ \E t \in Texts : Merged(w, [Revived(x) EXCEPT ![x].text = t], {x})
          \/ Merged(w, Trashed(x), {x})
    BY <1>1 DEF MergeLine
  <2>2. QED
    BY <2>1, LineMergeable
<1>2. CASE MergePlace(w)
  <2>1. PICK x \in Present(rows) \cup Fresh, prev \in Live(rows) \cup {NoRow} :
          LET placed == IF x \in Fresh THEN Begun(x) ELSE Revived(x)
              order == MergedOrder(rows, x, prev)
          IN Merged(w, Respaced(placed, order), Relinked(Ordered(rows, Live(rows)), order, x))
    BY <1>2 DEF MergePlace
  <2> DEFINE order == MergedOrder(rows, x, prev)
             placed == IF x \in Fresh THEN Begun(x) ELSE Revived(x)
             table == Respaced(placed, order)
             affected == Relinked(Ordered(rows, Live(rows)), order, x)
  <2>2. Mergeable(table, affected)
    BY PlaceMergeable
  <2>3. Merged(w, table, affected)
    BY <2>1
  <2> HIDE DEF table, affected
  <2>4. QED
    BY <2>2, <2>3
<1>3. CASE MergePicture(w)
  <2>1. Merged(w, rows, {})
    BY <1>3 DEF MergePicture
  <2>2. Mergeable(rows, {})
    BY DEF Mergeable, Alike
  <2>3. QED
    BY <2>1, <2>2
<1>4. QED
  BY <1>1, <1>2, <1>3

\* A watch thread.
LEMMA WatchTyped ==
    ASSUME Typed, NEW w \in Watchers, Watch(w)
    PROVE  Typed'
<1>1. CASE MergeLine(w) \/ MergePlace(w) \/ MergePicture(w)
  <2>1. PICK table, affected : Mergeable(table, affected) /\ Merged(w, table, affected)
    BY <1>1, Merging DEF Typed
  <2>2. [at |-> "merged", affected |-> affected] \in Telling
    BY <2>1 DEF Mergeable, Telling
  <2>3. watch' \in [Watchers -> {Resting} \cup Telling]
    BY <2>1, <2>2 DEF Merged, Typed
  <2>4. QED
    BY <2>1, <2>3 DEF Merged, Mergeable, session, Typed
<1>2. CASE ReadRevision(w)
  <2>1. watch[w] \in Telling
    BY <1>2 DEF ReadRevision, Typed, Resting
  <2>2. [at |-> "read", affected |-> watch[w].affected, revision |-> revision] \in Telling
    BY <2>1 DEF Telling, Typed
  <2>3. watch' \in [Watchers -> {Resting} \cup Telling]
    BY <1>2, <2>2 DEF ReadRevision, Typed
  <2>4. QED
    BY <1>2, <2>3 DEF ReadRevision, stored, session, Typed
<1>3. CASE AbsorbExternal(w)
  <2>1. watch[w].at = "read" /\ watch[w] \in Telling
    BY <1>3 DEF AbsorbExternal, Typed, Resting
  <2>2. watch[w].revision \in Nat
    BY <2>1 DEF Telling
  <2>3. watch' \in [Watchers -> {Resting} \cup Telling]
    BY <1>3 DEF AbsorbExternal, Typed
  <2>4. redo' \in Seq(Entry) /\ floor' \in Nat
    BY <1>3 DEF AbsorbExternal, Redoable, Typed
  <2>5. QED
    BY <1>3, <2>2, <2>3, <2>4 DEF AbsorbExternal, stored, Typed
<1>4. QED
  BY <1>1, <1>2, <1>3 DEF Watch

\* A rebuild.
LEMMA RebuildTyped ==
    ASSUME Typed, Rebuild
    PROVE  Typed'
<1>1. CASE RebuildFromVault
  <2>1. PICK S \in SUBSET Rows \ {{}}, says \in Texts :
          /\ LET read == [x \in Rows |-> IF x \in S
                                        THEN [text |-> says, key |-> Step, live |-> TRUE]
                                        ELSE NoRow]
             IN rows' = Respaced(read, Ordered(read, S))
          /\ stated' = S
    BY <1>1 DEF RebuildFromVault
  <2>2. S \in SUBSET Rows
    OBVIOUS
  <2>3. rows' \in Table
    BY <2>1, <2>2, RebuiltTyped
  <2>4. rebuild' \in Rereading
    BY <1>1 DEF RebuildFromVault, Rereading
  <2>5. revision' \in Nat /\ UNCHANGED <<session, plan, watch>>
    BY <1>1 DEF RebuildFromVault, Typed
  <2>6. QED
    BY <2>1, <2>2, <2>3, <2>4, <2>5 DEF session, Typed
<1>2. CASE RebuildReadRevision
  <2>1. rebuild' \in Rereading
    BY <1>2 DEF RebuildReadRevision, Rereading, Typed
  <2>2. QED
    BY <1>2, <2>1 DEF RebuildReadRevision, stored, session, Typed
<1>3. CASE ResetSession
  <2>1. rebuild \in Rereading /\ rebuild.at = "read"
    BY <1>3 DEF ResetSession, Typed, Resting
  <2>2. rebuild.revision \in Nat
    BY <2>1 DEF Rereading
  <2>3. QED
    BY <1>3, <2>2, SessionAssumption DEF ResetSession, stored, Typed
<1>4. QED
  BY <1>1, <1>2, <1>3 DEF Rebuild

\* Every step.
LEMMA TypedAlways ==
    ASSUME Typed, [Next]_vars
    PROVE  Typed'
<1>1. CASE (\E q \in Requests : Execute(q)) \/ (\E x \in Rows : RestoreConflict(x))
  BY <1>1, Executing DEF stored, session, others, Typed
<1>2. CASE Finish
  BY <1>2, FinishTyped
<1>3. CASE Undo \/ Redo
  BY <1>3, UndoRedoTyped
<1>4. CASE Export
  <2>1. Present(rows) \subseteq Rows
    BY DEF Present
  <2>2. QED
    BY <1>4, <2>1 DEF Export, session, others, Typed
<1>5. CASE \E w \in Watchers : Watch(w)
  BY <1>5, WatchTyped
<1>6. CASE Rebuild
  BY <1>6, RebuildTyped
<1>7. CASE UNCHANGED vars
  BY <1>7 DEF vars, stored, session, others, Typed
<1>8. QED
  BY <1>1, <1>2, <1>3, <1>4, <1>5, <1>6, <1>7 DEF Next, Use

\* service.rs:43: whatever is done, the storage holds rows, the stacks hold entries
\* of mutations of rows, and the threads are where their code can be.
THEOREM TypeCorrect == Spec => []TypeOK
BY TypedInitially, TypedAlways, TypedMeans, PTL DEF Spec

-----------------------------------------------------------------------------
(* The tale of the two stacks.                                             *)

\* The undo stack, and on it the redo stack from its top down.
Tale(u, r) == [k \in 1 .. Len(u) + Len(r) |->
                  IF k <= Len(u) THEN u[k] ELSE r[Len(u) + Len(r) + 1 - k]]

\* Where the entries of either stack are in it.
LEMMA TaleIs ==
    ASSUME NEW u \in Seq(Entry), NEW r \in Seq(Entry)
    PROVE  /\ Tale(u, r) \in Seq(Entry) /\ Len(Tale(u, r)) = Len(u) + Len(r)
           /\ Len(u) \in Nat /\ Len(r) \in Nat
           /\ \A k \in 1 .. Len(u) : Tale(u, r)[k] = u[k]
           /\ \A i \in 1 .. Len(r) : Tale(u, r)[Len(u) + Len(r) + 1 - i] = r[i]
<1> DEFINE n == Len(u)
           m == Len(r)
           t == [k \in 1 .. n + m |-> IF k <= n THEN u[k] ELSE r[n + m + 1 - k]]
<1>1. /\ n \in Nat /\ m \in Nat
      /\ \A k \in 1 .. n : u[k] \in Entry
      /\ \A k \in 1 .. m : r[k] \in Entry
  OBVIOUS
<1>2. Tale(u, r) = t
  BY DEF Tale
<1> HIDE DEF n, m
<1>3. ASSUME NEW k \in 1 .. n + m
      PROVE  t[k] = (IF k <= n THEN u[k] ELSE r[n + m + 1 - k]) /\ t[k] \in Entry
  <2>1. CASE k <= n
    <3>1. k \in 1 .. n
      BY <1>1, <2>1
    <3>2. QED
      BY <1>1, <2>1, <3>1
  <2>2. CASE ~(k <= n)
    <3>1. n + m + 1 - k \in 1 .. m
      BY <1>1, <2>2
    <3>2. QED
      BY <1>1, <2>2, <3>1
  <2>3. QED
    BY <2>1, <2>2
<1>4. DOMAIN t = 1 .. n + m
  OBVIOUS
<1>5. t = [k \in 1 .. n + m |-> t[k]]
  OBVIOUS
<1> HIDE DEF t
<1>6. t \in [1 .. n + m -> Entry] /\ n + m \in Nat
  BY <1>1, <1>3, <1>5
<1>7. t \in Seq(Entry) /\ Len(t) = n + m
  BY <1>6
<1>8. \A k \in 1 .. n : t[k] = u[k]
  BY <1>1, <1>3
<1>9. \A i \in 1 .. m : t[n + m + 1 - i] = r[i]
  <2> TAKE i \in 1 .. m
  <2>1. n + m + 1 - i \in 1 .. n + m /\ ~(n + m + 1 - i <= n) /\ n + m + 1 - (n + m + 1 - i) = i
    BY <1>1
  <2>2. QED
    BY <1>3, <2>1
<1>10. QED
  BY <1>1, <1>2, <1>7, <1>8, <1>9 DEF n, m

\* Two tales that tell the same of either stack are one.
LEMMA OneTale ==
    ASSUME NEW u \in Seq(Entry), NEW r \in Seq(Entry), NEW t \in Seq(Entry),
           Len(t) = Len(u) + Len(r),
           \A k \in 1 .. Len(u) : t[k] = u[k],
           \A i \in 1 .. Len(r) : t[Len(u) + Len(r) + 1 - i] = r[i]
    PROVE  Tale(u, r) = t
<1> DEFINE n == Len(u)
           m == Len(r)
           s == Tale(u, r)
<1>1. /\ s \in Seq(Entry) /\ Len(s) = n + m /\ n \in Nat /\ m \in Nat
      /\ \A k \in 1 .. n : s[k] = u[k]
      /\ \A i \in 1 .. m : s[n + m + 1 - i] = r[i]
  BY TaleIs
<1>2. /\ Len(t) = n + m
      /\ \A k \in 1 .. n : t[k] = u[k]
      /\ \A i \in 1 .. m : t[n + m + 1 - i] = r[i]
  OBVIOUS
<1> HIDE DEF n, m, s
<1>3. ASSUME NEW k \in 1 .. n + m
      PROVE  s[k] = t[k]
  <2>1. CASE k \in 1 .. n
    BY <1>1, <1>2, <2>1
  <2>2. CASE k \notin 1 .. n
    <3>1. PICK i \in 1 .. m : k = n + m + 1 - i
      <4>1. n + m + 1 - k \in 1 .. m /\ k = n + m + 1 - (n + m + 1 - k)
        BY <1>1, <2>2
      <4>2. QED
        BY <4>1
    <3>2. QED
      BY <1>1, <1>2, <3>1
  <2>3. QED
    BY <2>1, <2>2
<1>4. s = t
  BY <1>1, <1>2, <1>3
<1>5. QED
  BY <1>4 DEF s

\* service.rs:464: an undo leaves the tale as it is,
LEMMA TaleUndone ==
    ASSUME NEW u \in Seq(Entry), NEW r \in Seq(Entry), u # <<>>
    PROVE  Tale(Front(u), Append(r, Last(u))) = Tale(u, r)
<1> DEFINE n == Len(u)
           m == Len(r)
           t == Tale(u, r)
           a == Front(u)
           b == Append(r, Last(u))
<1>1. /\ t \in Seq(Entry) /\ Len(t) = n + m /\ n \in Nat /\ m \in Nat
      /\ \A k \in 1 .. n : t[k] = u[k]
      /\ \A i \in 1 .. m : t[n + m + 1 - i] = r[i]
  BY TaleIs
<1>2. /\ n \in Nat \ {0} /\ Last(u) = u[n] /\ Last(u) \in Entry
      /\ a \in Seq(Entry) /\ Len(a) = n - 1
      /\ \A i \in 1 .. n - 1 : a[i] = u[i]
  BY Top
<1>3. /\ b \in Seq(Entry) /\ Len(b) = m + 1
      /\ b[m + 1] = Last(u)
      /\ \A i \in 1 .. m : b[i] = r[i]
  BY <1>2, OnTop
<1> HIDE DEF n, m, t, a, b
<1>4. \A k \in 1 .. Len(a) : t[k] = a[k]
  BY <1>1, <1>2
<1>5. ASSUME NEW i \in 1 .. m + 1
      PROVE  t[Len(a) + Len(b) + 1 - i] = b[i]
  <2>1. Len(a) + Len(b) + 1 - i = n + m + 1 - i
    BY <1>1, <1>2, <1>3
  <2>2. CASE i = m + 1
    <3>1. n + m + 1 - i = n /\ n \in 1 .. n
      BY <1>1, <1>2, <2>2
    <3>2. QED
      BY <1>1, <1>2, <1>3, <2>1, <2>2, <3>1
  <2>3. CASE i # m + 1
    <3>1. i \in 1 .. m
      BY <1>1, <2>3
    <3>2. QED
      BY <1>1, <1>3, <2>1, <3>1
  <2>4. QED
    BY <2>2, <2>3
<1>6. /\ a \in Seq(Entry) /\ b \in Seq(Entry) /\ t \in Seq(Entry)
      /\ Len(t) = Len(a) + Len(b)
      /\ \A k \in 1 .. Len(a) : t[k] = a[k]
      /\ \A i \in 1 .. Len(b) : t[Len(a) + Len(b) + 1 - i] = b[i]
  BY <1>1, <1>2, <1>3, <1>4, <1>5
<1>7. Tale(a, b) = t
  BY <1>6, OneTale
<1>8. QED
  BY <1>7 DEF a, b, t

\* service.rs:496: and so does a redo.
LEMMA TaleRedone ==
    ASSUME NEW u \in Seq(Entry), NEW r \in Seq(Entry), r # <<>>
    PROVE  Tale(Append(u, Last(r)), Front(r)) = Tale(u, r)
<1> DEFINE n == Len(u)
           m == Len(r)
           t == Tale(u, r)
           a == Append(u, Last(r))
           b == Front(r)
<1>1. /\ t \in Seq(Entry) /\ Len(t) = n + m /\ n \in Nat /\ m \in Nat
      /\ \A k \in 1 .. n : t[k] = u[k]
      /\ \A i \in 1 .. m : t[n + m + 1 - i] = r[i]
  BY TaleIs
<1>2. /\ m \in Nat \ {0} /\ Last(r) = r[m] /\ Last(r) \in Entry
      /\ b \in Seq(Entry) /\ Len(b) = m - 1
      /\ \A i \in 1 .. m - 1 : b[i] = r[i]
  BY Top
<1>3. /\ a \in Seq(Entry) /\ Len(a) = n + 1
      /\ a[n + 1] = Last(r)
      /\ \A i \in 1 .. n : a[i] = u[i]
  BY <1>2, OnTop
<1> HIDE DEF n, m, t, a, b
<1>4. ASSUME NEW k \in 1 .. n + 1
      PROVE  t[k] = a[k]
  <2>1. CASE k = n + 1
    <3>1. n + m + 1 - m = n + 1 /\ m \in 1 .. m
      BY <1>1, <1>2
    <3>2. t[n + m + 1 - m] = r[m]
      BY <1>1, <3>1
    <3>3. QED
      BY <1>2, <1>3, <2>1, <3>1, <3>2
  <2>2. CASE k # n + 1
    <3>1. k \in 1 .. n
      BY <1>1, <2>2
    <3>2. QED
      BY <1>1, <1>3, <3>1
  <2>3. QED
    BY <2>1, <2>2
<1>5. ASSUME NEW i \in 1 .. m - 1
      PROVE  t[Len(a) + Len(b) + 1 - i] = b[i]
  <2>1. Len(a) + Len(b) + 1 - i = n + m + 1 - i /\ i \in 1 .. m
    BY <1>1, <1>2, <1>3
  <2>2. QED
    BY <1>1, <1>2, <2>1
<1>6. /\ a \in Seq(Entry) /\ b \in Seq(Entry) /\ t \in Seq(Entry)
      /\ Len(t) = Len(a) + Len(b)
      /\ \A k \in 1 .. Len(a) : t[k] = a[k]
      /\ \A i \in 1 .. Len(b) : t[Len(a) + Len(b) + 1 - i] = b[i]
  BY <1>1, <1>2, <1>3, <1>4, <1>5
<1>7. Tale(a, b) = t
  BY <1>6, OneTale
<1>8. QED
  BY <1>7 DEF a, b, t

-----------------------------------------------------------------------------
(* What is ready to be replayed.                                           *)

\* service.rs:464: the inverse of the last entry,
LEMMA ReadyToUndo ==
    ASSUME NEW tale \in Seq(Entry), NEW f \in Nat, NEW n \in Nat, f < n, n <= Len(tale),
           Told(tale, n, f, rows, stated, {})
    PROVE  Ready(tale[n].inverse, tale[n].forward)
<1> DEFINE p == tale[n].forward
           q == tale[n].inverse
<1>1. Len(tale) \in Nat /\ n \in f + 1 .. Len(tale) /\ n \in f + 1 .. n /\ n \in 1 .. Len(tale)
  OBVIOUS
<1>2. p \in Seq(Mutation) /\ q \in Seq(Mutation)
  <2>1. \A k \in 1 .. Len(tale) : tale[k] \in Entry
    OBVIOUS
  <2>2. QED
    BY <1>1, <2>1 DEF Entry
<1>3. Ids(p) = Ids(q) /\ Sound(stated, tale[n])
  BY <1>1 DEF Told, AllSound, Sound
<1>4. ASSUME NEW x \in Ids(p)
      PROVE  Bears(stated, x, rows[x], Final(p, x))
  <2>1. \A i \in DOMAIN p : p[i] \in Mutation
    BY <1>2
  <2>2. x \in Rows
    BY <2>1 DEF Ids, Mutation
  <2>3. Silent(tale, x, n + 1, n)
    BY <1>1 DEF Silent
  <2>4. QED
    BY <1>1, <2>2, <2>3 DEF Told, LeftSo
<1>5. ASSUME NEW x \in Ids(p), x \notin Creates(p)
      PROVE  Final(p, x) # NoRow
  <2>1. PICK i \in 1 .. Len(p) : LastAt(p, x, i) /\ Final(p, x) = p[i].row
    BY <1>2, LastOne
  <2>2. p[i].id = x
    BY <2>1 DEF LastAt
  <2>3. QED
    BY <1>2, <1>5, <2>1, <2>2, Creating
<1>6. ASSUME NEW x \in Ids(q)
      PROVE  /\ \A i \in DOMAIN q : q[i].id = x /\ q[i].row = NoRow =>
                   LastAt(q, x, i) \/ x \in stated
             /\ x \in Creates(p) => Gone(rows[x])
             /\ x \notin Creates(p) => rows[x] # NoRow
  <2>1. x \in Ids(p) /\ Bears(stated, x, rows[x], Final(p, x))
    BY <1>3, <1>4
  <2>2. x \in Creates(p) => Gone(rows[x])
    BY <1>3, <2>1 DEF Sound, Bears, Gone
  <2>3. x \notin Creates(p) => rows[x] # NoRow
    BY <1>5, <2>1 DEF Bears
  <2>4. QED
    BY <1>3, <2>1, <2>2, <2>3 DEF Sound
<1>7. QED
  BY <1>6 DEF Ready

\* service.rs:496: what the entry undone last did,
LEMMA ReadyToRedo ==
    ASSUME NEW tale \in Seq(Entry), NEW f \in Nat, NEW n \in Nat, f <= n, n < Len(tale),
           Told(tale, n, f, rows, stated, {})
    PROVE  /\ Ready(tale[n + 1].forward, tale[n + 1].inverse)
           /\ \A x \in Ids(tale[n + 1].forward) :
                 x \in Creates(tale[n + 1].inverse) => Initial(tale[n + 1].forward, x) # NoRow
<1> DEFINE m == n + 1
           p == tale[m].forward
           q == tale[m].inverse
<1>1. Len(tale) \in Nat /\ m \in f + 1 .. Len(tale) /\ m \in n + 1 .. Len(tale)
      /\ m \in 1 .. Len(tale) /\ n + 1 .. m - 1 = {}
  OBVIOUS
<1>2. p \in Seq(Mutation) /\ q \in Seq(Mutation)
  <2>1. \A k \in 1 .. Len(tale) : tale[k] \in Entry
    OBVIOUS
  <2>2. QED
    BY <1>1, <2>1 DEF Entry
<1>3. Ids(p) = Ids(q) /\ Sound(stated, tale[m])
  BY <1>1 DEF Told, AllSound, Sound
<1> HIDE DEF m
<1>4. ASSUME NEW x \in Ids(p)
      PROVE  Bears(stated, x, rows[x], Final(q, x))
  <2>1. \A i \in DOMAIN p : p[i] \in Mutation
    BY <1>2
  <2>2. x \in Rows
    BY <2>1 DEF Ids, Mutation
  <2>3. Silent(tale, x, n + 1, m - 1)
    BY <1>1 DEF Silent
  <2>4. QED
    BY <1>1, <2>2, <2>3 DEF Told, FoundSo
<1>5. ASSUME NEW x \in Ids(q)
      PROVE  x \in Creates(q) <=> Final(q, x) = NoRow
  <2>1. PICK i \in 1 .. Len(q) : LastAt(q, x, i) /\ Final(q, x) = q[i].row
    BY <1>2, LastOne
  <2>2. q[i].id = x
    BY <2>1 DEF LastAt
  <2>3. ASSUME Final(q, x) = NoRow
        PROVE  x \in Creates(q)
    <3>1. q[i].id = x /\ q[i].row = NoRow
      BY <2>1, <2>2, <2>3
    <3>2. QED
      BY <1>2, <3>1, Creating
  <2>4. ASSUME x \in Creates(q)
        PROVE  Final(q, x) = NoRow
    <3>1. PICK j \in 1 .. Len(q) : q[j].id = x /\ q[j].row = NoRow
      BY <1>2, <2>4, Creating
    <3>2. LastAt(q, x, j)
      BY <1>2, <1>3, <3>1 DEF Sound
    <3>3. j \in 1 .. Len(q) /\ Len(q) \in Nat /\ \A k \in j + 1 .. Len(q) : q[k].id # x
      BY <1>2, <3>2 DEF LastAt
    <3>4. QED
      BY <1>2, <3>1, <3>3, LastIs
  <2>5. QED
    BY <2>3, <2>4
<1>6. ASSUME NEW x \in Ids(p)
      PROVE  /\ \A i \in DOMAIN p : p[i].id = x /\ p[i].row = NoRow =>
                   LastAt(p, x, i) \/ x \in stated
             /\ x \in Creates(q) => Gone(rows[x])
             /\ x \notin Creates(q) => rows[x] # NoRow
             /\ x \in Creates(q) => Initial(p, x) # NoRow
  <2>1. x \in Ids(q) /\ Bears(stated, x, rows[x], Final(q, x))
    BY <1>3, <1>4
  <2>2. x \in Creates(q) => Gone(rows[x])
    BY <1>5, <2>1 DEF Bears, Gone
  <2>3. x \notin Creates(q) => rows[x] # NoRow
    BY <1>5, <2>1 DEF Bears
  <2>4. QED
    BY <1>3, <2>2, <2>3 DEF Sound
<1>7. QED
  BY <1>6 DEF Ready, m

\* mutations.rs:10: and what was drawn up from the rows as they are.
LEMMA ReadyToCommit ==
    ASSUME NEW f, NEW v, NEW to, Drawn(f, v, rows, to)
    PROVE  Ready(f, v)
<1>1. /\ f \in Seq(Mutation) /\ v \in Seq(Mutation)
      /\ Ids(f) = Ids(v)
      /\ \A i \in 1 .. Len(f) : f[i].row = to[f[i].id] /\ LastAt(f, f[i].id, i)
      /\ \A i \in 1 .. Len(v) : v[i].row = rows[v[i].id] /\ LastAt(v, v[i].id, i)
  BY DrawnOnce
<1>2. DOMAIN f = 1 .. Len(f) /\ DOMAIN v = 1 .. Len(v)
  BY <1>1
<1>3. ASSUME NEW x \in Ids(f)
      PROVE  x \in Creates(v) <=> rows[x] = NoRow
  <2>1. PICK i \in 1 .. Len(v) : v[i].id = x
    BY <1>1, <1>2 DEF Ids
  <2>2. rows[x] = NoRow => x \in Creates(v)
    BY <1>1, <2>1, Creating
  <2>3. ASSUME x \in Creates(v)
        PROVE  rows[x] = NoRow
    <3>1. PICK j \in 1 .. Len(v) : v[j].id = x /\ v[j].row = NoRow
      BY <1>1, <2>3, Creating
    <3>2. QED
      BY <1>1, <3>1
  <2>4. QED
    BY <2>2, <2>3
<1>4. QED
  BY <1>1, <1>2, <1>3 DEF Ready, Gone

-----------------------------------------------------------------------------
(* The session's own work.                                                 *)

\* What the watch threads have not told yet.
News == {x \in Rows : \E w \in Watchers : watch[w] # Resting /\ x \in watch[w].affected}

\* A plan that can still be committed was drawn up from the rows as they are.
Drafted ==
    plan.busy /\ known = revision =>
        \E t \in Table : Drawn(plan.forward, plan.inverse, rows, t) /\ Fits(t, plan.group)

\* Unless a rebuild has wiped it out, the tale of the two stacks is true.
Heard ==
    rebuild = Resting => Told(Tale(undo, redo), Len(undo), floor, rows, stated, News)

\* The inductive invariant.
OwnWork == Typed /\ Counted /\ InStep /\ Drafted /\ Heard

\* When the session holds the stored revision nobody has news.
LEMMA NoNews ==
    ASSUME OwnWork, known = revision
    PROVE  /\ rebuild = Resting /\ News = {}
           /\ Told(Tale(undo, redo), Len(undo), floor, rows, stated, {})
BY DEF OwnWork, InStep, News, Heard

\* What an entry names.
LEMMA NamesAre ==
    ASSUME NEW e \in Entry
    PROVE  Names(e) = Ids(e.forward) \cup Ids(e.inverse)
<1>1. e.forward \in Seq(Mutation) /\ e.inverse \in Seq(Mutation)
  BY DEF Entry
<1>2. DOMAIN e.forward = 1 .. Len(e.forward) /\ DOMAIN e.inverse = 1 .. Len(e.inverse)
  BY <1>1
<1>3. Ids(e.forward) = {e.forward[i].id : i \in 1 .. Len(e.forward)}
      /\ Ids(e.inverse) = {e.inverse[i].id : i \in 1 .. Len(e.inverse)}
  BY <1>2 DEF Ids
<1>4. QED
  BY <1>3 DEF Names

\* The rows of the undo stack are among those a command must not make anew.
LEMMA UndoNamed ==
    ASSUME undo \in Seq(Entry), NEW k \in 1 .. Len(undo)
    PROVE  undo[k] \in Entry /\ Ids(undo[k].forward) \subseteq Named
<1>1. undo[k] \in Entry
  OBVIOUS
<1>2. Ids(undo[k].forward) \subseteq Names(undo[k])
  BY <1>1, NamesAre
<1>3. Names(undo[k]) \subseteq Named
  BY DEF Named
<1>4. QED
  BY <1>1, <1>2, <1>3

\* With nothing to redo the tale is the undo stack.
LEMMA TaleAlone ==
    ASSUME NEW u \in Seq(Entry)
    PROVE  Tale(u, <<>>) = u
<1>1. <<>> \in Seq(Entry) /\ Len(<<>>) = 0 /\ Len(u) \in Nat
  OBVIOUS
<1>2. Len(u) = Len(u) + Len(<<>>) /\ \A i \in 1 .. Len(<<>>) : FALSE
  BY <1>1
<1>3. QED
  BY <1>1, <1>2, OneTale

\* mutations.rs:10: what a patch that is ready leaves.
LEMMA StoresReplayed ==
    ASSUME rows \in Table, NEW p \in Seq(Mutation), NEW q \in Seq(Mutation), Ready(p, q),
           Stores(p, q)
    PROVE  /\ Replayed(p, rows, rows', stated) /\ rows' \in Table
           /\ \A x \in Ids(p) : x \in stated /\ (x \in Creates(q) => Initial(p, x) # NoRow) =>
                 rows'[x] # NoRow
<1> DEFINE t == Transaction(p, q)
<1>1. rows' = t.rows
  BY DEF Stores
<1>2. /\ t.rows \in Table
      /\ \A x \in Rows \ Ids(p) : t.rows[x] = rows[x]
      /\ \A x \in Ids(p) :
            /\ Bears(stated, x, t.rows[x], Final(p, x))
            /\ x \in stated /\ (x \in Creates(q) => Initial(p, x) # NoRow) => t.rows[x] # NoRow
  BY Replays
<1> HIDE DEF t
<1>3. QED
  BY <1>1, <1>2 DEF Replayed

\* service.rs:70: an entry recorded over the rows as they are.
LEMMA RecordTold ==
    ASSUME OwnWork, NEW e \in Entry, NEW to,
           Drawn(e.forward, e.inverse, rows, to), Fits(to, e.group),
           Told(Tale(undo, redo), Len(undo), floor, rows, stated, {}),
           NEW rs2, Replayed(e.forward, rows, rs2, stated),
           RecordHistory(e)
    PROVE  Told(Tale(undo', redo'), Len(undo'), floor', rs2, stated, {})
<1> DEFINE tale == Tale(undo, redo)
           n == Len(undo)
<1>1. /\ undo \in Seq(Entry) /\ redo \in Seq(Entry) /\ n \in Nat /\ floor \in Nat /\ floor <= n
      /\ \A k \in 1 .. n : undo[k] \in Entry
  BY DEF OwnWork, Typed, Counted, HistoryWithinLimits
<1>2. /\ tale \in Seq(Entry) /\ Len(tale) = n + Len(redo) /\ Len(redo) \in Nat
      /\ \A k \in 1 .. n : tale[k] = undo[k]
  BY <1>1, TaleIs
<1>3. Builds(tale, n, floor, e, to)
  <2>1. \A k \in 1 .. n : Ids(tale[k].forward) \subseteq Named
    BY <1>1, <1>2, UndoNamed
  <2>2. n <= Len(tale)
    BY <1>1, <1>2
  <2>3. QED
    BY <1>1, <1>2, <2>1, <2>2 DEF Builds
<1> HIDE DEF tale, n
<1>4. redo' = <<>>
  BY DEF RecordHistory
<1>5. CASE Joins(e)
  <2>1. e.group # Alone /\ floor < n /\ undo # <<>>
    BY <1>1, <1>5 DEF Joins, n
  <2>2. /\ n \in Nat \ {0} /\ Last(undo) = undo[n] /\ Last(undo) \in Entry
        /\ Front(undo) \in Seq(Entry) /\ Len(Front(undo)) = n - 1
        /\ \A i \in 1 .. n - 1 : Front(undo)[i] = undo[i]
    BY <1>1, <2>1, Top DEF n
  <2>3. Joined(Last(undo), e) \in Entry
    BY <2>2, JoinedLists
  <2>4. undo' = Append(Front(undo), Joined(Last(undo), e)) /\ floor' = floor
    BY <1>5 DEF RecordHistory
  <2>5. /\ undo' \in Seq(Entry) /\ Len(undo') = n /\ undo'[n] = Joined(Last(undo), e)
        /\ \A i \in 1 .. n - 1 : undo'[i] = Front(undo)[i]
    <3>1. Len(Front(undo)) + 1 = n
      BY <2>2
    <3>2. QED
      BY <2>2, <2>3, <2>4, <3>1, OnTop
  <2>6. undo'[n] = Joined(tale[n], e) /\ \A k \in 1 .. n - 1 : undo'[k] = tale[k]
    <3>1. n \in 1 .. n /\ \A k \in 1 .. n - 1 : k \in 1 .. n
      BY <2>2
    <3>2. Last(undo) = tale[n] /\ \A k \in 1 .. n - 1 : tale[k] = undo[k]
      BY <1>2, <2>2, <3>1
    <3>3. QED
      BY <2>2, <2>5, <3>2
  <2>7. Told(undo', n, floor, rs2, stated, {})
    BY <1>3, <2>1, <2>5, <2>6, ToldJoin
  <2>8. QED
    BY <1>4, <2>4, <2>5, <2>7, TaleAlone
<1>6. CASE ~Joins(e)
  <2> DEFINE l == Append(undo, e)
  <2>1. /\ l \in Seq(Entry) /\ Len(l) = n + 1 /\ l[n + 1] = e
        /\ \A i \in 1 .. n : l[i] = undo[i]
    BY <1>1, OnTop DEF n
  <2>2. /\ undo' = Bounded(l)
        /\ floor' = IF n + 1 > MaxHistory /\ floor > 0 THEN floor - 1 ELSE floor
    BY <1>6 DEF RecordHistory, n
  <2>3. /\ undo' \in Seq(Entry)
        /\ n + 1 <= MaxHistory => undo' = l
        /\ n + 1 > MaxHistory => Len(undo') = n /\ \A i \in 1 .. n : undo'[i] = l[i + 1]
    BY <1>1, <2>2, WithinBounds DEF n
  <2> HIDE DEF l
  <2>4. \A k \in 1 .. n : l[k] = tale[k]
    BY <1>2, <2>1
  <2>5. Told(l, n + 1, floor, rs2, stated, {})
    BY <1>3, <2>1, <2>4, ToldPush
  <2>6. CASE n + 1 <= MaxHistory
    BY <1>1, <1>4, <2>1, <2>2, <2>3, <2>5, <2>6, TaleAlone, SessionAssumption
  <2>7. CASE n + 1 > MaxHistory
    <3>1. floor' \in Nat /\ floor <= floor' + 1
      BY <1>1, <2>2, <2>7
    <3>2. PICK m \in Nat \ {0} : m = n + 1
      BY <1>1
    <3>3. Len(undo') = n /\ \A i \in 1 .. n : undo'[i] = l[i + 1]
      BY <2>3, <2>7
    <3>4. Told(undo', n, floor', rs2, stated, {})
      <4>1. /\ n = m - 1 /\ m = Len(l) /\ Len(undo') = m - 1
            /\ \A k \in 1 .. m - 1 : undo'[k] = l[k + 1]
            /\ Told(l, m, floor, rs2, stated, {})
        BY <1>1, <2>1, <2>5, <3>2, <3>3
      <4>2. l \in Seq(Entry) /\ floor \in Nat /\ undo' \in Seq(Entry)
        BY <1>1, <2>1, <2>3
      <4>3. Told(undo', m - 1, floor', rs2, stated, {})
        BY <3>1, <4>1, <4>2, ToldDrop
      <4>4. QED
        BY <4>1, <4>3
    <3>5. QED
      BY <1>4, <2>3, <3>3, <3>4, TaleAlone
  <2>8. QED
    BY <1>1, <2>6, <2>7, SessionAssumption
<1>7. QED
  BY <1>5, <1>6

\* Replaying nothing changes nothing.
LEMMA NothingReplayed ==
    ASSUME rows \in Table, NEW rs2 \in Table, Replayed(<<>>, rows, rs2, stated)
    PROVE  rs2 = rows
<1>1. Ids(<<>>) = {}
  BY DEF Ids
<1>2. \A x \in Rows : rs2[x] = rows[x]
  BY <1>1 DEF Replayed
<1>3. QED
  BY <1>2 DEF Table

\* mutations.rs:26: a commit goes through only with the rows it was drawn from.
LEMMA CommitHeard ==
    ASSUME OwnWork, plan.busy, CommitPlan, UNCHANGED others
    PROVE  Heard'
<1> DEFINE e == [forward |-> plan.forward, inverse |-> plan.inverse, group |-> plan.group]
<1>1. /\ known = revision /\ Stores(plan.forward, plan.inverse)
      /\ \/ plan.forward = <<>> /\ UNCHANGED <<floor, undo, redo>>
         \/ RecordHistory(e)
  BY DEF CommitPlan, Commits
<1>2. /\ News = {} /\ Told(Tale(undo, redo), Len(undo), floor, rows, stated, {})
  BY <1>1, NoNews
<1>3. PICK to \in Table : Drawn(plan.forward, plan.inverse, rows, to) /\ Fits(to, plan.group)
  BY <1>1 DEF OwnWork, Drafted
<1>4. e \in Entry /\ plan.forward \in Seq(Mutation) /\ plan.inverse \in Seq(Mutation)
  <2>1. plan # NoPlan
    BY DEF NoPlan
  <2>2. plan \in Draft
    BY <2>1 DEF OwnWork, Typed
  <2>3. QED
    BY <2>2 DEF Draft, Entry
<1>5. /\ e.forward = plan.forward /\ e.inverse = plan.inverse /\ e.group = plan.group
  OBVIOUS
<1> HIDE DEF e
<1>6. Ready(plan.forward, plan.inverse) /\ rows \in Table
  BY <1>3, ReadyToCommit DEF OwnWork, Typed
<1>7. Replayed(plan.forward, rows, rows', stated) /\ rows' \in Table
  BY <1>1, <1>4, <1>6, StoresReplayed
<1>8. stated' = stated /\ watch' = watch /\ News' = {}
  BY <1>1, <1>2 DEF Stores, others, News
<1>9. Told(Tale(undo', redo'), Len(undo'), floor', rows', stated, {})
  <2>1. CASE plan.forward = <<>> /\ UNCHANGED <<floor, undo, redo>>
    <3>1. rows' = rows
      BY <1>6, <1>7, <2>1, NothingReplayed
    <3>2. QED
      BY <1>2, <2>1, <3>1
  <2>2. CASE RecordHistory(e)
    BY <1>2, <1>3, <1>4, <1>5, <1>7, <2>2, RecordTold
  <2>3. QED
    BY <1>1, <2>1, <2>2
<1>10. QED
  BY <1>8, <1>9 DEF Heard

\* What an undo would replay, and a redo, is ready.
LEMMA WithinReach ==
    ASSUME OwnWork, known = revision
    PROVE  /\ Undoable => /\ Last(undo) \in Entry
                          /\ Ready(Last(undo).inverse, Last(undo).forward)
           /\ redo # <<>> => /\ Last(redo) \in Entry
                             /\ Ready(Last(redo).forward, Last(redo).inverse)
                             /\ \A x \in Ids(Last(redo).forward) : x \in Creates(Last(redo).inverse) =>
                                   Initial(Last(redo).forward, x) # NoRow
<1> DEFINE tale == Tale(undo, redo)
           n == Len(undo)
           m == Len(redo)
<1>1. Told(tale, n, floor, rows, stated, {})
  BY NoNews
<1>2. /\ undo \in Seq(Entry) /\ redo \in Seq(Entry) /\ floor \in Nat /\ floor <= n
  BY DEF OwnWork, Typed, Counted, HistoryWithinLimits
<1>3. /\ tale \in Seq(Entry) /\ Len(tale) = n + m /\ n \in Nat /\ m \in Nat
      /\ \A k \in 1 .. n : tale[k] = undo[k]
      /\ \A i \in 1 .. m : tale[n + m + 1 - i] = redo[i]
  BY <1>2, TaleIs
<1> HIDE DEF tale, n, m
<1>4. ASSUME Undoable
      PROVE  Last(undo) \in Entry /\ Ready(Last(undo).inverse, Last(undo).forward)
  <2>1. floor < n /\ n <= Len(tale) /\ undo # <<>> /\ n \in 1 .. n
    BY <1>2, <1>3, <1>4 DEF Undoable, n
  <2>2. Ready(tale[n].inverse, tale[n].forward)
    BY <1>1, <1>2, <1>3, <2>1, ReadyToUndo
  <2>3. Last(undo) = undo[n] /\ Last(undo) \in Entry
    BY <1>2, <2>1, Top DEF n
  <2>4. QED
    BY <1>3, <2>1, <2>2, <2>3
<1>5. ASSUME redo # <<>>
      PROVE  /\ Last(redo) \in Entry
             /\ Ready(Last(redo).forward, Last(redo).inverse)
             /\ \A x \in Ids(Last(redo).forward) : x \in Creates(Last(redo).inverse) =>
                   Initial(Last(redo).forward, x) # NoRow
  <2>1. m \in Nat \ {0} /\ Last(redo) = redo[m] /\ Last(redo) \in Entry
    BY <1>2, <1>5, Top DEF m
  <2>2. n < Len(tale) /\ m \in 1 .. m /\ n + m + 1 - m = n + 1
    BY <1>3, <2>1
  <2>3. tale[n + 1] = Last(redo)
    BY <1>3, <2>1, <2>2
  <2>4. /\ Ready(tale[n + 1].forward, tale[n + 1].inverse)
        /\ \A x \in Ids(tale[n + 1].forward) :
              x \in Creates(tale[n + 1].inverse) => Initial(tale[n + 1].forward, x) # NoRow
    BY <1>1, <1>2, <1>3, <2>2, ReadyToRedo
  <2>5. QED
    BY <2>1, <2>3, <2>4
<1>6. QED
  BY <1>4, <1>5

\* service.rs:464: an undo tells the same tale, one entry back.
LEMMA UndoHeard ==
    ASSUME OwnWork, Undo
    PROVE  Heard'
<1> DEFINE tale == Tale(undo, redo)
           n == Len(undo)
           e == Last(undo)
<1>1. /\ known = revision /\ Stores(e.inverse, e.forward) /\ Undoable
      /\ undo' = Front(undo) /\ redo' = Bounded(Append(redo, e))
      /\ floor' = floor /\ watch' = watch
  BY DEF Undo, Commits, others
<1>2. /\ News = {} /\ Told(tale, n, floor, rows, stated, {})
  BY <1>1, NoNews
<1>3. /\ undo \in Seq(Entry) /\ redo \in Seq(Entry) /\ floor \in Nat /\ floor < n
      /\ Len(undo) + Len(redo) <= MaxHistory /\ rows \in Table
  BY <1>1 DEF OwnWork, Typed, Counted, HistoryWithinLimits, Undoable
<1>4. undo # <<>>
  BY <1>3
<1>5. /\ n \in Nat \ {0} /\ e = undo[n] /\ e \in Entry
      /\ Front(undo) \in Seq(Entry) /\ Len(Front(undo)) = n - 1
  BY <1>3, <1>4, Top
<1>6. redo' = Append(redo, e)
  <2>1. Len(redo) + 1 <= MaxHistory
    BY <1>3, <1>5, SessionAssumption
  <2>2. QED
    BY <1>1, <1>3, <1>5, <2>1, WithinBounds
<1>7. Tale(undo', redo') = tale
  BY <1>1, <1>3, <1>4, <1>6, TaleUndone
<1>8. tale \in Seq(Entry) /\ Len(tale) = n + Len(redo) /\ tale[n] = e /\ n <= Len(tale)
  <2>1. /\ tale \in Seq(Entry) /\ Len(tale) = n + Len(redo) /\ Len(redo) \in Nat
        /\ \A k \in 1 .. n : tale[k] = undo[k]
    BY <1>3, TaleIs
  <2> HIDE DEF tale, n, e
  <2>2. n \in 1 .. n
    BY <1>5
  <2>3. QED
    BY <1>5, <2>1, <2>2
<1> HIDE DEF tale, n, e
<1>9. e.inverse \in Seq(Mutation) /\ e.forward \in Seq(Mutation)
  BY <1>5 DEF Entry
<1>10. Ready(e.inverse, e.forward)
  BY <1>1, WithinReach DEF e
<1>11. Replayed(e.inverse, rows, rows', stated)
  BY <1>1, <1>3, <1>9, <1>10, StoresReplayed
<1>12. Told(tale, n - 1, floor, rows', stated, {})
  BY <1>2, <1>3, <1>5, <1>8, <1>11, ToldUndo
<1>13. Len(undo') = n - 1 /\ stated' = stated /\ News' = {}
  BY <1>1, <1>2, <1>5 DEF Stores, News
<1>14. QED
  BY <1>1, <1>7, <1>12, <1>13 DEF Heard

\* service.rs:496: a redo, one entry on.
LEMMA RedoHeard ==
    ASSUME OwnWork, Redo
    PROVE  Heard'
<1> DEFINE tale == Tale(undo, redo)
           n == Len(undo)
           m == Len(redo)
           e == Last(redo)
<1>1. /\ known = revision /\ Stores(e.forward, e.inverse) /\ redo # <<>>
      /\ redo' = Front(redo) /\ floor' = floor /\ watch' = watch
  BY DEF Redo, Commits, others
<1>2. undo' = Append(undo, e)
  BY RedoCounted DEF OwnWork
<1>3. /\ News = {} /\ Told(tale, n, floor, rows, stated, {})
  BY <1>1, NoNews
<1>4. /\ undo \in Seq(Entry) /\ redo \in Seq(Entry) /\ floor \in Nat /\ floor <= n /\ rows \in Table
  BY <1>1 DEF OwnWork, Typed, Counted, HistoryWithinLimits
<1>5. m \in Nat \ {0} /\ e = redo[m] /\ e \in Entry
  BY <1>1, <1>4, Top
<1>6. Tale(undo', redo') = tale
  BY <1>1, <1>2, <1>4, TaleRedone
<1>7. /\ tale \in Seq(Entry) /\ n \in Nat /\ n < Len(tale) /\ tale[n + 1] = e
  <2>1. /\ tale \in Seq(Entry) /\ Len(tale) = n + m /\ n \in Nat
        /\ \A i \in 1 .. m : tale[n + m + 1 - i] = redo[i]
    BY <1>4, TaleIs
  <2> HIDE DEF tale, n, m, e
  <2>2. m \in 1 .. m /\ n + m + 1 - m = n + 1
    BY <1>5, <2>1
  <2>3. QED
    BY <1>5, <2>1, <2>2
<1>8. Len(undo') = n + 1
  BY <1>2, <1>4, <1>5, OnTop
<1> HIDE DEF tale, n, m, e
<1>9. e.inverse \in Seq(Mutation) /\ e.forward \in Seq(Mutation)
  BY <1>5 DEF Entry
<1>10. /\ Ready(e.forward, e.inverse)
       /\ \A x \in Ids(e.forward) : x \in Creates(e.inverse) => Initial(e.forward, x) # NoRow
  BY <1>1, WithinReach DEF e
<1>11. /\ Replayed(e.forward, rows, rows', stated)
       /\ \A x \in Ids(e.forward) :
             x \in stated /\ (x \in Creates(e.inverse) => Initial(e.forward, x) # NoRow) =>
                 rows'[x] # NoRow
  BY <1>1, <1>4, <1>9, <1>10, StoresReplayed
<1>12. Told(tale, n + 1, floor, rows', stated, {})
  BY <1>3, <1>4, <1>7, <1>10, <1>11, ToldRedo
<1>13. stated' = stated /\ News' = {}
  BY <1>1, <1>3 DEF Stores, News
<1>14. QED
  BY <1>1, <1>6, <1>8, <1>12, <1>13 DEF Heard

\* lib.rs:834: a merge has news of every row it says something else of.
LEMMA MergeHeard ==
    ASSUME OwnWork, NEW w \in Watchers, NEW table, NEW affected,
           Mergeable(table, affected), Merged(w, table, affected)
    PROVE  Heard'
<1>1. /\ rows' = table /\ stated' = stated \cup affected
      /\ watch' = [watch EXCEPT ![w] = [at |-> "merged", affected |-> affected]]
      /\ rebuild' = rebuild /\ undo' = undo /\ redo' = redo /\ floor' = floor
      /\ watch[w] = Resting
  BY DEF Merged, session
<1>2. watch'[w] = [at |-> "merged", affected |-> affected]
      /\ \A v \in Watchers \ {w} : watch'[v] = watch[v]
  BY <1>1 DEF OwnWork, Typed
<1>3. affected \subseteq News'
  <2>1. watch'[w] # Resting /\ watch'[w].affected = affected
    BY <1>2 DEF Resting
  <2>2. QED
    BY <2>1 DEF News, Mergeable
<1>4. News \subseteq News'
  BY <1>1, <1>2 DEF News
<1>5. SUFFICES ASSUME rebuild' = Resting
               PROVE  Told(Tale(undo, redo), Len(undo), floor, rows', stated', News')
  BY <1>1 DEF Heard
<1>6. Told(Tale(undo, redo), Len(undo), floor, rows, stated, News)
  BY <1>1, <1>5 DEF OwnWork, Heard
<1>7. \A x \in Rows \ News' : Alike(rows[x], rows'[x])
  BY <1>1, <1>3 DEF Mergeable
<1>8. stated \subseteq stated'
  BY <1>1
<1>9. QED
  BY <1>4, <1>6, <1>7, <1>8, ToldMore

\* service.rs:525: what the session is told of is out of reach.
LEMMA AbsorbHeard ==
    ASSUME TakesTurns, OwnWork, NEW w \in Watchers, AbsorbExternal(w)
    PROVE  Heard'
<1> DEFINE affected == watch[w].affected
           n == Len(undo)
           tale == Tale(undo, redo)
<1>1. /\ undo \in Seq(Entry) /\ redo \in Seq(Entry) /\ floor \in Nat /\ floor <= n
      /\ n \in Nat
      /\ watch \in [Watchers -> {Resting} \cup Telling]
  BY DEF OwnWork, Typed, Counted, HistoryWithinLimits
<1>2. /\ watch[w].at = "read" /\ watch' = [watch EXCEPT ![w] = Resting]
      /\ redo' = Redoable(affected)
      /\ rows' = rows /\ stated' = stated /\ undo' = undo /\ rebuild' = rebuild
  BY DEF AbsorbExternal, stored
<1>3. PICK g \in floor .. n : Raised(g, affected) /\ floor' = g
  BY DEF AbsorbExternal
<1>4. watch[w] # Resting /\ rebuild = Resting
  BY <1>2 DEF OwnWork, InStep, Resting
<1>5. News \subseteq affected /\ News' = {}
  <2>1. \A v \in Watchers : v = w
    BY DEF TakesTurns
  <2>2. watch'[w] = Resting
    BY <1>1, <1>2
  <2>3. QED
    BY <2>1, <2>2 DEF News
<1>6. Told(tale, n, floor, rows, stated, News)
  BY <1>4 DEF OwnWork, Heard
<1>7. PICK r : r = redo'
  OBVIOUS
<1>8. /\ r \in Seq(Entry) /\ (r = redo \/ r = <<>>)
      /\ \A i \in 1 .. Len(r) : Ids(r[i].forward) \cap affected = {}
  <2>1. CASE \E i \in 1 .. Len(redo) : Touches(redo[i], affected)
    <3>1. r = <<>>
      BY <1>2, <1>7, <2>1 DEF Redoable
    <3>2. r \in Seq(Entry) /\ Len(r) = 0
      BY <3>1
    <3>3. QED
      BY <3>1, <3>2
  <2>2. CASE ~\E i \in 1 .. Len(redo) : Touches(redo[i], affected)
    <3>1. r = redo
      BY <1>2, <1>7, <2>2 DEF Redoable
    <3>2. ASSUME NEW i \in 1 .. Len(redo)
          PROVE  Ids(redo[i].forward) \cap affected = {}
      <4>1. redo[i] \in Entry /\ ~Touches(redo[i], affected)
        BY <1>1, <2>2
      <4>2. Ids(redo[i].forward) \subseteq Names(redo[i])
        BY <4>1, NamesAre
      <4>3. QED
        BY <4>1, <4>2 DEF Touches
    <3>3. QED
      BY <1>1, <3>1, <3>2
  <2>3. QED
    BY <2>1, <2>2
<1> DEFINE more == Tale(undo, r)
<1>9. /\ tale \in Seq(Entry) /\ Len(tale) = n + Len(redo) /\ Len(redo) \in Nat
      /\ \A k \in 1 .. n : tale[k] = undo[k]
  BY <1>1, TaleIs
<1>10. /\ more \in Seq(Entry) /\ Len(more) = n + Len(r) /\ Len(r) \in Nat
       /\ \A k \in 1 .. n : more[k] = undo[k]
       /\ \A i \in 1 .. Len(r) : more[n + Len(r) + 1 - i] = r[i]
  BY <1>1, <1>8, TaleIs
<1>11. Len(more) <= Len(tale) /\ \A k \in 1 .. Len(more) : more[k] = tale[k]
  <2>1. CASE r = redo
    BY <1>9, <2>1
  <2>2. CASE r = <<>>
    <3>1. Len(r) = 0
      BY <2>2
    <3>2. QED
      BY <1>9, <1>10, <3>1
  <2>3. QED
    BY <1>8, <2>1, <2>2
<1>12. \A k \in g + 1 .. n : ~Touches(undo[k], affected)
  BY <1>3 DEF Raised
<1> HIDE DEF affected, n, tale, more
<1>13. g \in Nat /\ floor <= g /\ g <= n /\ \A k \in g + 1 .. n : k \in 1 .. n
  BY <1>1, <1>3
<1>14. \A k \in g + 1 .. Len(more) : Ids(more[k].forward) \cap News = {}
  <2>1. SUFFICES ASSUME NEW k \in g + 1 .. Len(more)
                 PROVE  Ids(more[k].forward) \cap affected = {}
    BY <1>5
  <2>2. CASE k <= n
    <3>1. k \in g + 1 .. n /\ k \in 1 .. n
      BY <1>1, <1>10, <1>13, <2>2
    <3>2. undo[k] \in Entry
      BY <1>1, <3>1 DEF n
    <3>3. Ids(undo[k].forward) \subseteq Names(undo[k])
      BY <3>2, NamesAre
    <3>4. Ids(undo[k].forward) \cap affected = {}
      BY <1>12, <3>1, <3>3 DEF Touches
    <3>5. QED
      BY <1>10, <3>1, <3>4
  <2>3. CASE ~(k <= n)
    <3>1. PICK i \in 1 .. Len(r) : k = n + Len(r) + 1 - i
      <4>1. n + Len(r) + 1 - k \in 1 .. Len(r) /\ k = n + Len(r) + 1 - (n + Len(r) + 1 - k)
        BY <1>1, <1>10, <1>13, <2>3
      <4>2. QED
        BY <4>1
    <3>2. QED
      BY <1>8, <1>10, <3>1
  <2>4. QED
    BY <2>2, <2>3
<1>15. n <= Len(tale) /\ n <= Len(more)
  BY <1>1, <1>9, <1>10
<1>16. Told(more, n, g, rows, stated, {})
  BY <1>1, <1>6, <1>9, <1>10, <1>11, <1>13, <1>14, <1>15, ToldRaised
<1>17. QED
  BY <1>2, <1>3, <1>5, <1>7, <1>16 DEF Heard, more, n

\* A step that leaves the rows, the stacks and a held plan alone.
LEMMA SameDrafted ==
    ASSUME Drafted, UNCHANGED <<rows, revision, known, undo, redo, plan>>
    PROVE  Drafted'
BY DEF Drafted, Fits, Named

\* The same of the tale.
LEMMA SameHeard ==
    ASSUME Heard, UNCHANGED <<rows, stated, floor, undo, redo, watch, rebuild>>
    PROVE  Heard'
BY DEF Heard, News

\* Drafts: a plan is drawn up from the rows, and whoever else writes them moves the
\* stored revision past the session's.
LEMMA DraftedAlways ==
    ASSUME OwnWork, [Next]_vars
    PROVE  Drafted'
<1>1. Drafted /\ known \in Nat /\ revision \in Nat /\ known <= revision
  BY DEF OwnWork, InStep
<1>2. CASE plan' = NoPlan
  BY <1>2 DEF Drafted, NoPlan
<1>3. CASE known' = known /\ revision' = revision + 1
  BY <1>1, <1>3 DEF Drafted
<1>4. CASE UNCHANGED <<rows, revision, known, undo, redo, plan>>
  BY <1>1, <1>4, SameDrafted
<1>5. CASE Next
  <2>1. CASE (\E q \in Requests : Execute(q)) \/ (\E x \in Rows : RestoreConflict(x))
    <3>1. /\ UNCHANGED <<stored, session, others>>
          /\ \E t \in Table : Drawn(plan'.forward, plan'.inverse, rows, t) /\ Fits(t, plan'.group)
      BY <2>1, Executing DEF OwnWork
    <3>2. QED
      BY <3>1 DEF Drafted, Fits, Named, stored, session
  <2>2. CASE Finish
    BY <1>2, <2>2 DEF Finish
  <2>3. CASE Undo \/ Redo
    BY <1>2, <2>3 DEF Undo, Redo
  <2>4. CASE Export
    BY <1>4, <2>4 DEF Export, session
  <2>5. ASSUME NEW w \in Watchers, Watch(w)
        PROVE  Drafted'
    <3>1. CASE MergeLine(w) \/ MergePlace(w) \/ MergePicture(w)
      <4>1. PICK table, affected : Merged(w, table, affected)
        BY <3>1, Merging DEF OwnWork, Typed
      <4>2. QED
        BY <1>3, <4>1 DEF Merged, session
    <3>2. CASE ReadRevision(w)
      BY <1>4, <3>2 DEF ReadRevision, stored, session
    <3>3. CASE AbsorbExternal(w)
      BY <1>2, <3>3 DEF AbsorbExternal
    <3>4. QED
      BY <2>5, <3>1, <3>2, <3>3 DEF Watch
  <2>6. CASE Rebuild
    <3>1. CASE RebuildFromVault
      BY <1>3, <3>1 DEF RebuildFromVault, session
    <3>2. CASE RebuildReadRevision
      BY <1>4, <3>2 DEF RebuildReadRevision, stored, session
    <3>3. CASE ResetSession
      BY <1>2, <3>3 DEF ResetSession
    <3>4. QED
      BY <2>6, <3>1, <3>2, <3>3 DEF Rebuild
  <2>7. QED
    BY <1>5, <2>1, <2>2, <2>3, <2>4, <2>5, <2>6 DEF Next, Use
<1>6. CASE UNCHANGED vars
  BY <1>4, <1>6 DEF vars, stored, session
<1>7. QED
  BY <1>5, <1>6

\* And the tale stays true.
LEMMA HeardAlways ==
    ASSUME TakesTurns, OwnWork, [Next]_vars
    PROVE  Heard'
<1>1. Heard
  BY DEF OwnWork
<1>2. CASE UNCHANGED <<rows, stated, floor, undo, redo, watch, rebuild>>
  BY <1>1, <1>2, SameHeard
<1>3. CASE rebuild' # Resting
  BY <1>3 DEF Heard
<1>4. CASE Next
  <2>1. CASE (\E q \in Requests : Execute(q)) \/ (\E x \in Rows : RestoreConflict(x))
    BY <1>2, <2>1, Executing DEF OwnWork, stored, session, others
  <2>2. CASE Finish
    <3>1. plan.busy /\ UNCHANGED others /\ (CommitPlan \/ RefusePlan)
      BY <2>2 DEF Finish
    <3>2. CASE RefusePlan
      BY <1>2, <3>1, <3>2 DEF RefusePlan, stored, session, others
    <3>3. QED
      BY <3>1, <3>2, CommitHeard
  <2>3. CASE Undo
    BY <2>3, UndoHeard
  <2>4. CASE Redo
    BY <2>4, RedoHeard
  <2>5. CASE Export
    <3>1. /\ rows' = rows /\ undo' = undo /\ redo' = redo /\ floor' = floor
          /\ stated' = Present(rows) \cup stated /\ watch' = watch /\ rebuild' = rebuild
      BY <2>5 DEF Export, session, others
    <3>2. News' = News
      BY <3>1 DEF News
    <3>3. SUFFICES ASSUME rebuild = Resting
                   PROVE  Told(Tale(undo, redo), Len(undo), floor, rows, stated', News)
      BY <3>1, <3>2 DEF Heard
    <3>4. Told(Tale(undo, redo), Len(undo), floor, rows, stated, News)
      BY <1>1, <3>3 DEF Heard
    <3>5. stated \subseteq stated' /\ \A x \in Rows \ News : Alike(rows[x], rows[x])
      BY <3>1 DEF Alike
    <3>6. QED
      BY <3>4, <3>5, ToldMore
  <2>6. ASSUME NEW w \in Watchers, Watch(w)
        PROVE  Heard'
    <3>1. CASE MergeLine(w) \/ MergePlace(w) \/ MergePicture(w)
      <4>1. PICK table, affected : Mergeable(table, affected) /\ Merged(w, table, affected)
        BY <3>1, Merging DEF OwnWork, Typed
      <4>2. QED
        BY <4>1, MergeHeard
    <3>2. CASE ReadRevision(w)
      <4>1. /\ watch[w].at = "merged"
            /\ watch' = [watch EXCEPT ![w] = [at |-> "read", affected |-> watch[w].affected,
                                              revision |-> revision]]
            /\ rows' = rows /\ stated' = stated /\ undo' = undo /\ redo' = redo
            /\ floor' = floor /\ rebuild' = rebuild
        BY <3>2 DEF ReadRevision, stored, session
      <4>2. /\ watch[w] # Resting /\ watch'[w] # Resting
            /\ watch'[w].affected = watch[w].affected
            /\ \A v \in Watchers \ {w} : watch'[v] = watch[v]
        BY <4>1 DEF OwnWork, Typed, Resting
      <4>3. \A v \in Watchers : /\ watch'[v] # Resting <=> watch[v] # Resting
                                /\ watch[v] # Resting => watch'[v].affected = watch[v].affected
        BY <4>2
      <4>4. News' = News
        BY <4>3 DEF News
      <4>5. QED
        BY <1>1, <4>1, <4>4 DEF Heard
    <3>3. CASE AbsorbExternal(w)
      BY <3>3, AbsorbHeard
    <3>4. QED
      BY <2>6, <3>1, <3>2, <3>3 DEF Watch
  <2>7. CASE Rebuild
    <3>1. CASE RebuildFromVault
      BY <1>3, <3>1 DEF RebuildFromVault, Resting
    <3>2. CASE RebuildReadRevision
      BY <1>3, <3>2 DEF RebuildReadRevision, Resting
    <3>3. CASE ResetSession
      <4>1. undo' = <<>> /\ redo' = <<>> /\ floor' = 0
        BY <3>3 DEF ResetSession
      <4>2. <<>> \in Seq(Entry) /\ Len(<<>>) = 0 /\ 0 \in Nat
        OBVIOUS
      <4>3. Tale(undo', redo') = <<>> /\ Len(undo') = 0
        BY <4>1, <4>2, TaleAlone
      <4>4. Told(<<>>, 0, 0, rows', stated', News')
        BY <4>2, ToldNothing
      <4>5. QED
        BY <4>1, <4>3, <4>4 DEF Heard
    <3>4. QED
      BY <2>7, <3>1, <3>2, <3>3 DEF Rebuild
  <2>8. QED
    BY <1>4, <2>1, <2>2, <2>3, <2>4, <2>5, <2>6, <2>7 DEF Next, Use
<1>5. CASE UNCHANGED vars
  BY <1>2, <1>5 DEF vars, stored, session, others
<1>6. QED
  BY <1>4, <1>5

\* At the start there is nothing to tell.
LEMMA OwnWorkInitially == Init => OwnWork
<1>1. SUFFICES ASSUME Init PROVE OwnWork
  OBVIOUS
<1>2. Typed /\ Counted /\ InStep
  BY <1>1, TypedInitially, CountedInitially, InStepInitially
<1>3. Drafted
  BY <1>1 DEF Init, Drafted, NoPlan
<1>4. undo = <<>> /\ redo = <<>> /\ floor = 0
  BY <1>1 DEF Init
<1>5. <<>> \in Seq(Entry) /\ Len(<<>>) = 0 /\ 0 \in Nat
  OBVIOUS
<1>6. Tale(undo, redo) = <<>> /\ Len(undo) = 0
  BY <1>4, <1>5, TaleAlone
<1>7. Told(<<>>, 0, 0, rows, stated, News)
  BY <1>5, ToldNothing
<1>8. Heard
  BY <1>4, <1>6, <1>7 DEF Heard
<1>9. QED
  BY <1>2, <1>3, <1>8 DEF OwnWork

\* Every step keeps the tale true.
LEMMA OwnWorkAlways ==
    ASSUME TakesTurns, OwnWork, [Next]_vars
    PROVE  OwnWork'
<1>1. Typed /\ Counted /\ InStep
  BY DEF OwnWork
<1>2. Typed' /\ Counted' /\ InStep'
  BY <1>1, TypedAlways, CountedAlways, InStepAlways
<1>3. QED
  BY <1>2, DraftedAlways, HeardAlways DEF OwnWork

\* What is in reach goes through.
LEMMA ReachGoesThrough == OwnWork => WithinReachGoesThrough
<1>1. SUFFICES ASSUME OwnWork, known = revision
               PROVE  /\ Undoable => Commits(known, Last(undo).inverse, Last(undo).forward)
                      /\ redo # <<>> => Commits(known, Last(redo).forward, Last(redo).inverse)
  BY DEF WithinReachGoesThrough
<1>2. ASSUME NEW e \in Entry
      PROVE  e.forward \in Seq(Mutation) /\ e.inverse \in Seq(Mutation)
  BY DEF Entry
<1>3. ASSUME NEW p \in Seq(Mutation), NEW q \in Seq(Mutation), Ready(p, q)
      PROVE  Commits(known, p, q)
  <2>1. rows \in Table
    BY <1>1 DEF OwnWork, Typed
  <2>2. Transaction(p, q).ok
    BY <1>3, <2>1, Replays
  <2>3. QED
    BY <1>1, <2>2 DEF Commits
<1>4. QED
  BY <1>1, <1>2, <1>3, WithinReach

\* service.rs:46: with one watch that takes turns with the rebuild, an undo or a redo
\* that is offered goes through: each row it updates is there, each it creates is not.
THEOREM OffersGoThrough ==
    ASSUME TakesTurns
    PROVE  Spec => []WithinReachGoesThrough
<1>1. OwnWork /\ [Next]_vars => OwnWork'
  BY OwnWorkAlways
<1>2. QED
  BY <1>1, OwnWorkInitially, ReachGoesThrough, PTL DEF Spec

\* What bears another out says the same to a reader.
LEMMA BearsSays ==
    ASSUME NEW st, NEW x, NEW r, NEW v, Bears(st, x, r, v)
    PROVE  Says(r) = Says(v)
<1>1. CASE v = NoRow
  BY <1>1 DEF Bears, Says
<1>2. CASE v # NoRow
  BY <1>2 DEF Bears, Says
<1>3. QED
  BY <1>1, <1>2

\* What the last mutation of a row leaves it saying.
LEMMA LeavesFinal ==
    ASSUME NEW p \in Seq(Mutation), NEW x \in Ids(p)
    PROVE  Leaves(p, x) = Says(Final(p, x))
<1> DEFINE I == {i \in 1 .. Len(p) : p[i].id = x}
           at == SelectLastInSeq(p, LAMBDA m : m.id = x)
<1>1. Len(p) \in Nat /\ DOMAIN p = 1 .. Len(p)
  OBVIOUS
<1>2. I \subseteq 1 .. Len(p) /\ I # {}
  BY <1>1 DEF Ids
<1>3. at = Max(I)
  BY <1>2 DEF SelectLastInSeq
<1> HIDE DEF at, I
<1>4. at \in I /\ \A k \in I : k <= at
  BY <1>1, <1>2, <1>3, SomePlaces
<1> USE DEF I
<1>5. /\ at \in 1 .. Len(p) /\ p[at].id = x
      /\ \A k \in at + 1 .. Len(p) : p[k].id # x
  BY <1>1, <1>4
<1>6. Final(p, x) = p[at].row
  BY <1>5, LastIs
<1>7. QED
  BY <1>6 DEF Leaves, at

\* An entry that is sound names the same rows twice.
LEMMA SoundNames ==
    ASSUME NEW e \in Entry, NEW st, Sound(st, e)
    PROVE  /\ Names(e) = Ids(e.forward) /\ Names(e) = Ids(e.inverse) /\ Names(e) \subseteq Rows
           /\ \A x \in Names(e) : /\ Leaves(e.forward, x) = Says(Final(e.forward, x))
                                  /\ Leaves(e.inverse, x) = Says(Final(e.inverse, x))
<1>1. e.forward \in Seq(Mutation) /\ e.inverse \in Seq(Mutation)
  BY DEF Entry
<1>2. Names(e) = Ids(e.forward) /\ Names(e) = Ids(e.inverse)
  BY NamesAre DEF Sound
<1>3. \A i \in DOMAIN e.forward : e.forward[i] \in Mutation
  BY <1>1
<1>4. Ids(e.forward) \subseteq Rows
  BY <1>3 DEF Ids, Mutation
<1>5. QED
  BY <1>1, <1>2, <1>4, LeavesFinal

\* Where the tale is true, every entry within reach is of the session's own work.
LEMMA OwnWorkIsHistory == OwnWork => HistoryIsOfOwnWork
<1>1. SUFFICES ASSUME OwnWork, known = revision
               PROVE  /\ \A i \in floor + 1 .. Len(undo) : \A x \in Names(undo[i]) :
                           LET later == {j \in i + 1 .. Len(undo) : x \in Names(undo[j])}
                           IN IF later = {} THEN Leaves(undo[i].forward, x) = Says(rows[x])
                              ELSE Leaves(undo[i].forward, x) = Leaves(undo[Min(later)].inverse, x)
                      /\ \A i \in 1 .. Len(redo) : \A x \in Names(redo[i]) :
                           LET sooner == {j \in i + 1 .. Len(redo) : x \in Names(redo[j])}
                           IN IF sooner = {} THEN Leaves(redo[i].inverse, x) = Says(rows[x])
                              ELSE Leaves(redo[i].inverse, x) = Leaves(redo[Min(sooner)].forward, x)
  BY DEF HistoryIsOfOwnWork
<1> DEFINE tale == Tale(undo, redo)
           n == Len(undo)
           m == Len(redo)
<1>2. Told(tale, n, floor, rows, stated, {})
  BY <1>1, NoNews
<1>3. /\ undo \in Seq(Entry) /\ redo \in Seq(Entry) /\ floor \in Nat /\ floor <= n
      /\ \A i \in 1 .. n : undo[i] \in Entry
      /\ \A i \in 1 .. m : redo[i] \in Entry
  BY <1>1 DEF OwnWork, Typed, Counted, HistoryWithinLimits
<1>4. /\ tale \in Seq(Entry) /\ Len(tale) = n + m /\ n \in Nat /\ m \in Nat
      /\ \A k \in 1 .. n : tale[k] = undo[k]
      /\ \A i \in 1 .. m : tale[n + m + 1 - i] = redo[i]
  BY <1>3, TaleIs
<1> HIDE DEF tale, n, m
<1>5. ASSUME NEW k \in floor + 1 .. n + m
      PROVE  /\ tale[k] \in Entry
             /\ Names(tale[k]) = Ids(tale[k].forward) /\ Names(tale[k]) \subseteq Rows
             /\ \A x \in Names(tale[k]) :
                   /\ Leaves(tale[k].forward, x) = Says(Final(tale[k].forward, x))
                   /\ Leaves(tale[k].inverse, x) = Says(Final(tale[k].inverse, x))
  <2>1. k \in 1 .. Len(tale) /\ k \in floor + 1 .. Len(tale)
    BY <1>3, <1>4
  <2>2. tale[k] \in Entry
    BY <1>4, <2>1
  <2>3. Sound(stated, tale[k])
    BY <1>2, <2>1 DEF Told, AllSound
  <2>4. QED
    BY <2>2, <2>3, SoundNames
<1>6. ASSUME NEW k \in floor + 1 .. n + m, NEW l \in floor + 1 .. n + m, k < l,
             NEW x \in Rows, x \in Names(tale[k]), x \in Names(tale[l]),
             \A j \in k + 1 .. l - 1 : x \notin Names(tale[j])
      PROVE  Leaves(tale[l].inverse, x) = Leaves(tale[k].forward, x)
  <2>1. \A j \in k + 1 .. l - 1 : j \in floor + 1 .. n + m
    BY <1>3, <1>4
  <2>2. Neighbours(tale, x, k, l)
    BY <1>5, <1>6, <2>1 DEF Neighbours, Silent
  <2>3. Bears(stated, x, Final(tale[l].inverse, x), Final(tale[k].forward, x))
    BY <1>2, <1>4, <2>2 DEF Told, Linked
  <2>4. Says(Final(tale[l].inverse, x)) = Says(Final(tale[k].forward, x))
    BY <2>3, BearsSays
  <2>5. /\ Leaves(tale[l].inverse, x) = Says(Final(tale[l].inverse, x))
        /\ Leaves(tale[k].forward, x) = Says(Final(tale[k].forward, x))
    BY <1>5, <1>6
  <2>6. QED
    BY <2>4, <2>5
<1>7. ASSUME NEW i \in floor + 1 .. n, NEW x \in Names(undo[i])
      PROVE  LET later == {j \in i + 1 .. n : x \in Names(undo[j])}
             IN IF later = {} THEN Leaves(undo[i].forward, x) = Says(rows[x])
                ELSE Leaves(undo[i].forward, x) = Leaves(undo[Min(later)].inverse, x)
  <2> DEFINE later == {j \in i + 1 .. n : x \in Names(undo[j])}
  <2>1. /\ i \in 1 .. n /\ i \in floor + 1 .. n + m
        /\ tale[i] = undo[i] /\ \A j \in i + 1 .. n : tale[j] = undo[j] /\ j \in floor + 1 .. n + m
    BY <1>3, <1>4
  <2>2. x \in Rows /\ x \in Names(tale[i])
    BY <1>5, <1>7, <2>1
  <2>3. CASE later = {}
    <3>1. Silent(tale, x, i + 1, n)
      BY <1>5, <2>1, <2>3 DEF Silent
    <3>2. Bears(stated, x, rows[x], Final(tale[i].forward, x))
      BY <1>2, <1>5, <2>1, <2>2, <3>1 DEF Told, LeftSo
    <3>3. Leaves(undo[i].forward, x) = Says(rows[x])
      BY <1>5, <2>1, <2>2, <3>2, BearsSays
    <3>4. QED
      BY <2>3, <3>3
  <2>4. CASE later # {}
    <3> DEFINE j == Min(later)
    <3>1. later \subseteq 1 .. n
      BY <1>3, <1>4
    <3>2. j \in later /\ \A k \in later : j <= k
      BY <1>4, <2>4, <3>1, SomePlaces
    <3> HIDE DEF j
    <3>3. /\ j \in i + 1 .. n /\ x \in Names(undo[j]) /\ i < j
          /\ \A k \in i + 1 .. j - 1 : x \notin Names(undo[k]) /\ k \in i + 1 .. n
      BY <1>3, <1>4, <3>2
    <3>4. Leaves(tale[j].inverse, x) = Leaves(tale[i].forward, x)
      BY <1>6, <2>1, <2>2, <3>3
    <3>5. Leaves(undo[i].forward, x) = Leaves(undo[j].inverse, x)
      BY <2>1, <3>3, <3>4
    <3>6. QED
      BY <2>4, <3>5 DEF j
  <2>5. QED
    BY <2>3, <2>4
<1>8. ASSUME NEW i \in 1 .. m, NEW x \in Names(redo[i])
      PROVE  LET sooner == {j \in i + 1 .. m : x \in Names(redo[j])}
             IN IF sooner = {} THEN Leaves(redo[i].inverse, x) = Says(rows[x])
                ELSE Leaves(redo[i].inverse, x) = Leaves(redo[Min(sooner)].forward, x)
  <2> DEFINE sooner == {j \in i + 1 .. m : x \in Names(redo[j])}
             k == n + m + 1 - i
  <2>1. /\ k \in floor + 1 .. n + m /\ k \in n + 1 .. n + m /\ tale[k] = redo[i]
    BY <1>3, <1>4
  <2>2. x \in Rows /\ x \in Names(tale[k])
    BY <1>5, <1>8, <2>1
  <2>3. \A j \in i + 1 .. m : /\ tale[n + m + 1 - j] = redo[j]
                              /\ n + m + 1 - j \in floor + 1 .. n + m /\ n + m + 1 - j < k
    BY <1>3, <1>4
  <2>4. \A l \in n + 1 .. k - 1 : /\ n + m + 1 - l \in i + 1 .. m /\ l \in floor + 1 .. n + m
                                  /\ tale[l] = redo[n + m + 1 - l]
    <3> TAKE l \in n + 1 .. k - 1
    <3>1. /\ n + m + 1 - l \in i + 1 .. m /\ l \in floor + 1 .. n + m
          /\ n + m + 1 - (n + m + 1 - l) = l
      BY <1>3, <1>4
    <3>2. QED
      BY <2>3, <3>1
  <2>5. CASE sooner = {}
    <3>1. Silent(tale, x, n + 1, k - 1)
      BY <1>5, <2>4, <2>5 DEF Silent
    <3>2. Bears(stated, x, rows[x], Final(tale[k].inverse, x))
      BY <1>2, <1>4, <1>5, <2>1, <2>2, <3>1 DEF Told, FoundSo
    <3>3. Leaves(redo[i].inverse, x) = Says(rows[x])
      BY <1>5, <2>1, <2>2, <3>2, BearsSays
    <3>4. QED
      BY <2>5, <3>3
  <2>6. CASE sooner # {}
    <3> DEFINE j == Min(sooner)
               l == n + m + 1 - j
    <3>1. sooner \subseteq 1 .. m
      BY <1>4
    <3>2. j \in sooner /\ \A h \in sooner : j <= h
      BY <1>4, <2>6, <3>1, SomePlaces
    <3> HIDE DEF j
    <3>3. j \in i + 1 .. m /\ x \in Names(redo[j]) /\ \A h \in i + 1 .. j - 1 : x \notin Names(redo[h])
      BY <1>4, <3>2
    <3>4. /\ tale[l] = redo[j] /\ l \in floor + 1 .. n + m /\ l < k
      BY <2>3, <3>3
    <3>5. \A h \in l + 1 .. k - 1 : x \notin Names(tale[h])
      <4> TAKE h \in l + 1 .. k - 1
      <4>1. h \in n + 1 .. k - 1 /\ n + m + 1 - h \in i + 1 .. j - 1
        BY <1>3, <1>4, <2>1, <3>3
      <4>2. QED
        BY <2>4, <3>3, <4>1
    <3>6. Leaves(tale[k].inverse, x) = Leaves(tale[l].forward, x)
      BY <1>6, <2>1, <2>2, <3>3, <3>4, <3>5
    <3>7. Leaves(redo[i].inverse, x) = Leaves(redo[j].forward, x)
      BY <2>1, <3>4, <3>6
    <3>8. QED
      BY <2>6, <3>7 DEF j
  <2>7. QED
    BY <2>5, <2>6
<1>9. QED
  BY <1>7, <1>8 DEF n, m

\* service.rs:46: with one watch that takes turns with the rebuild, an undo takes back,
\* and a redo does again, only what the session did itself and nobody wrote over: each
\* row an entry names says what the entry left it saying, or the next one found.
THEOREM UndoIsOfOwnWork ==
    ASSUME TakesTurns
    PROVE  Spec => []HistoryIsOfOwnWork
<1>1. OwnWork /\ [Next]_vars => OwnWork'
  BY OwnWorkAlways
<1>2. QED
  BY <1>1, OwnWorkInitially, OwnWorkIsHistory, PTL DEF Spec
=============================================================================
