------------------------------- MODULE Family -------------------------------
(***************************************************************************)
(* The rows under one parent: what a row holds, the order sort_key puts    *)
(* siblings in, and how a command and a merge choose those keys.  A row is *)
(* its text, its key and whether it is live; a row in the trash keeps its  *)
(* key.  Every function from ids to rows below maps an id that is not in   *)
(* the table to NoRow.                                                     *)
(***************************************************************************)
EXTENDS Integers, FiniteSets, SequencesExt

CONSTANTS
    Rows,     \* the ids; their order is the order of the ids' text
    Texts,
    Step,     \* SORT_KEY_STEP
    NoRow

ASSUME FamilyAssumption ==
    /\ Rows \subseteq Nat
    /\ IsFiniteSet(Rows)
    /\ Step \in Nat \ {0, 1}

Node == [text : Texts, key : Int, live : BOOLEAN]

ASSUME NoRowAssumption == NoRow \notin Node

\* In place of a row: after the last one.
AtEnd == -1

Present(rs) == {x \in Rows : rs[x] # NoRow}
Live(rs) == {x \in Present(rs) : rs[x].live}

Before(rs, x, y) ==
    \/ rs[x].key < rs[y].key
    \/ rs[x].key = rs[y].key /\ x < y

Ordered(rs, S) ==
    [i \in 1 .. Cardinality(S) |->
        CHOOSE x \in S : Cardinality({y \in S : Before(rs, y, x)}) = i - 1]

Spot(order, x) == SelectInSeq(order, LAMBDA y : y = x)

\* The row after x, as a set that is empty when x is last.
Follower(order, x) ==
    {order[i] : i \in {j \in 2 .. Len(order) : order[j - 1] = x}}

\* Every row of the order at a key of its own, a step apart.
Respaced(rs, order) ==
    [x \in Rows |-> IF x \in ToSet(order)
                    THEN [rs[x] EXCEPT !.key = Step * Spot(order, x)]
                    ELSE rs[x]]

\* The order in which a command leaves the family when it puts x before a row.
WithPlaced(rs, x, next) ==
    LET others == Ordered(rs, Present(rs) \ {x})
        at == IF next = AtEnd THEN Len(others) + 1 ELSE Spot(others, next)
    IN InsertAt(others, at, x)

\* A key beside the neighbour or between the two.
SparseKey(rs, order, at) ==
    CASE at = 1 /\ at = Len(order) -> Step
      [] at > 1 /\ at = Len(order) -> rs[order[at - 1]].key + Step
      [] at = 1 /\ at < Len(order) -> rs[order[at + 1]].key - Step
      [] OTHER -> (rs[order[at - 1]].key + rs[order[at + 1]].key) \div 2

Cramped(rs, order, at) ==
    /\ 1 < at /\ at < Len(order)
    /\ rs[order[at + 1]].key - rs[order[at - 1]].key <= 1

Place(rs, x, next) ==
    LET order == WithPlaced(rs, x, next)
        at == Spot(order, x)
    IN IF Cramped(rs, order, at)
       THEN Respaced(rs, order)
       ELSE [rs EXCEPT ![x].key = SparseKey(rs, order, at)]

\* A row back from the trash gets a new key when a live one has taken its own.
Reseated(rs, x) ==
    LET order == Ordered(rs, Present(rs))
        next == IF x = Last(order) THEN AtEnd ELSE order[Spot(order, x) + 1]
    IN IF \E y \in Live(rs) \ {x} : rs[y].key = rs[x].key THEN Place(rs, x, next) ELSE rs

\* What the tree refuses to be loaded or planned without.
StrictlyOrdered(rs) ==
    \A x, y \in Live(rs) : x # y => rs[x].key # rs[y].key

\* The order a merge leaves when a file places x after a row, or first.
MergedOrder(rs, x, prev) ==
    LET others == Ordered(rs, Live(rs) \ {x})
    IN InsertAt(others, Spot(others, prev) + 1, x)

\* The rows whose claim such a file states anew: x and those it re-links.
Relinked(before, after, x) == {x} \cup Follower(before, x) \cup Follower(after, x)
=============================================================================
