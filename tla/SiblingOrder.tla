---------------------------- MODULE SiblingOrder ----------------------------
(***************************************************************************)
(* The claims of siblings and the order they add up to.  A row's claim is  *)
(* the sibling it follows, under the stamp of the move that said so; a row *)
(* none was recorded for claims the place its key gives it, at its own     *)
(* stamp.  Stamps are numbers here, 0 the lack of one.                     *)
(***************************************************************************)
EXTENDS Outline

Unstamped == 0

\* In place of a sibling: a claim to come first.
First == -1

PlacedRow ==
    [parent : Rows \cup {NoParent}, text : Texts, key : Int, live : BOOLEAN,
     done : {FALSE}, t : Nat, prev : Rows \cup {First}, at : Nat]

LiveInOrder(t, p) == Ordered(Siblings(t, p), LiveChildren(t, p))

\* The live sibling a row comes after by its key.
Predecessor(t, x) ==
    LET ahead == {y \in LiveChildren(t, t[x].parent) : Before(t, y, x)}
    IN IF ahead = {} THEN First ELSE Last(Ordered(t, ahead))

ClaimOf(t, x) ==
    IF t[x].at = Unstamped
    THEN [id |-> x, prev |-> Predecessor(t, x), at |-> t[x].t]
    ELSE [id |-> x, prev |-> t[x].prev, at |-> t[x].at]

ClaimsUnder(t, p) == {ClaimOf(t, x) : x \in LiveChildren(t, p)}

\* Ties by id.
Oldest(claims) ==
    CHOOSE a \in claims :
        \A b \in claims : a.at < b.at \/ (a.at = b.at /\ a.id <= b.id)

\* Mutant: a claim whose sibling is not down yet falls to the end.
SequenceImpatient(claims) ==
    FoldLeft(LAMBDA order, c :
                InsertAt(order, IF c.prev = First THEN 1
                                ELSE IF c.prev \in ToSet(order) THEN Spot(order, c.prev) + 1
                                ELSE Len(order) + 1,
                         c.id),
             <<>>,
             SetToSortSeq(claims, LAMBDA a, b : a.at < b.at \/ (a.at = b.at /\ a.id < b.id)))

\* The oldest claim is laid down first and newer ones go in over it.  One whose
\* sibling is not down yet waits its turn, and with nothing else left goes last.
Sequence(claims) ==
    LET down(s) ==
            LET ready == {c \in s.rest : c.prev \in ToSet(s.order) \cup {First}}
                next == Oldest(IF ready = {} THEN s.rest ELSE ready)
                at == IF next.prev = First THEN 1
                      ELSE IF ready = {} THEN Len(s.order) + 1
                      ELSE Spot(s.order, next.prev) + 1
            IN [order |-> InsertAt(s.order, at, next.id), rest |-> s.rest \ {next}]
    IN FoldLeft(LAMBDA s, c : down(s), [order |-> <<>>, rest |-> claims], SetToSeq(claims)).order

\* What a file's claim does to the row's: "take" it, "keep" the row's, or, when
\* both carry this device's stamp, "author" the place the line stands at.
Judged(file, own, mine) ==
    CASE file.at > own.at -> "take"
      [] file.at < own.at \/ file.prev = own.prev -> "keep"
      [] mine -> "author"
      [] file.prev > own.prev -> "take"
      [] OTHER -> "keep"

\* The claims a command leaves: `moved` changed place and `relocated` changed
\* parent or came or went, so they and whoever now follows another are written.
Reclaimed(before, t, moved, relocated) ==
    LET stamps == {t[x].t : x \in moved \cap Present(t)}
        at == CHOOSE s \in stamps : \A u \in stamps : u <= s
        parents == {before[x].parent : x \in moved \cap Present(before)}
                     \cup {t[x].parent : x \in moved \cap Present(t)}
        anew(x) ==
            /\ x \in Live(t)
            /\ t[x].parent \in parents
            /\ t[x].prev # Predecessor(t, x) \/ x \in relocated
    IN IF stamps = {} THEN t
       ELSE [x \in Rows |-> IF anew(x)
                            THEN [t[x] EXCEPT !.prev = Predecessor(t, x), !.at = at]
                            ELSE t[x]]
=============================================================================
