------------------------------ MODULE Outline ------------------------------
(***************************************************************************)
(* The outline and what a command makes of it.                             *)
(*                                                                         *)
(* A table is a function from ids to rows, as in Family, each row with its *)
(* parent and whether it is done.  A command is a sequence of steps: the   *)
(* commands over several rows run their steps one after the other.  An     *)
(* operator that may refuse gives a set of tables, empty when it does.     *)
(*                                                                         *)
(* Left out: what a row shows beside its text (note, marker, star, fold),  *)
(* field and depth limits, overflow of keys.  A picture is an id.          *)
(***************************************************************************)
EXTENDS Family

CONSTANTS
    Root,          \* the page every row hangs under
    Journals,      \* JOURNALS_ID, the id every device creates alike
    Pictures,      \* the ids that stand for pictures
    Blank          \* the text of a row with nothing in it

ASSUME OutlineAssumption ==
    /\ Root \in Rows /\ Root \notin Pictures
    /\ Pictures \subseteq Rows
    /\ Blank \in Texts

NoParent == -1

OutlineRow ==
    [parent : Rows \cup {NoParent}, text : Texts, key : Int,
     live : BOOLEAN, done : BOOLEAN]

-----------------------------------------------------------------------------
\* The shape of a table.

Siblings(t, p) ==
    [x \in Rows |-> IF t[x] # NoRow /\ t[x].parent = p THEN t[x] ELSE NoRow]

\* The table with the rows f gives.
With(t, f) == [x \in Rows |-> IF f[x] = NoRow THEN t[x] ELSE f[x]]

Only(t, S) == [x \in Rows |-> IF x \in S THEN t[x] ELSE NoRow]

Children(t, p) == Present(Siblings(t, p))
LiveChildren(t, p) == Live(Siblings(t, p))
InOrder(t, p) == Ordered(Siblings(t, p), Children(t, p))

\* From x upward to where the parents end, or a row comes back.
Path(t, x) ==
    LET climb[n \in 0 .. Cardinality(Rows)] ==
            IF n = 0 THEN <<x>>
            ELSE LET path == climb[n - 1]
                     top == t[Last(path)]
                 IN IF top = NoRow \/ top.parent \in ToSet(path) \cup {NoParent}
                    THEN path
                    ELSE Append(path, top.parent)
    IN climb[Cardinality(Rows)]

Above(t, x) == Tail(Path(t, x))

Subtree(t, x) == {y \in Present(t) : x \in ToSet(Path(t, y))}

\* The part of it no row in the trash cuts off.
VisibleSubtree(t, x) ==
    {y \in Subtree(t, x) :
        LET path == Path(t, y)
        IN \A i \in 1 .. SelectInSeq(path, LAMBDA z : z = x) - 1 : t[path[i]].live}

Valid(t) ==
    /\ \A x \in Present(t) :
        IF x = Root
        THEN t[x].parent = NoParent
        ELSE /\ t[x].parent \in Present(t)
             /\ x \in Pictures => t[x].parent # Root
             /\ Last(Path(t, x)) = Root
    /\ \A p \in Rows : StrictlyOrdered(Siblings(t, p))

-----------------------------------------------------------------------------
\* Placing, moving, taking away.

When(may, tables) == IF may THEN tables ELSE {}

Hosts(t, p) == p \in Live(t)

Placed(t, x, next) ==
    LET siblings == Siblings(t, t[x].parent)
    IN When(next \in {AtEnd} \cup (Present(siblings) \ {x}),
            {With(t, Place(siblings, x, next))})

\* A row not there yet, at a place of its own.
Inserted(t, x, row, next) ==
    When(Hosts(t, row.parent), Placed([t EXCEPT ![x] = row], x, next))

NewRow(p, text) ==
    [parent |-> p, text |-> text, key |-> Step, live |-> TRUE, done |-> FALSE]

Created(t, c) ==
    IF c.id = Journals /\ c.id \in Live(t)
    THEN When(Hosts(t, c.parent), {t})
    ELSE When(c.id \notin Present(t) \/ c.id = Journals,
              Inserted(t, c.id, NewRow(c.parent, c.text), c.next))

Imported(t, c) ==
    When(c.id \notin Present(t),
         Inserted(t, c.id, [NewRow(c.parent, c.text) EXCEPT !.done = c.done], c.next))

\* The half after the caret goes beside its row or inside it.
Split(t, c) ==
    When(/\ c.id \in Present(t) \ (Pictures \cup {Root})
         /\ c.parent \in {c.id, t[c.id].parent}
         /\ c.new \notin Present(t),
         Inserted([t EXCEPT ![c.id].text = c.prefix], c.new,
                  NewRow(c.parent, c.suffix), c.next))

Moved(t, c) ==
    When(/\ c.id \in Present(t) \ {Root}
         /\ Hosts(t, c.parent)
         /\ c.parent \notin Subtree(t, c.id),
         Placed([t EXCEPT ![c.id].parent = c.parent], c.id, c.next))

\* copies names the copy of each row of the branch.
Duplicated(t, c) ==
    LET branch == VisibleSubtree(t, c.id)
        copyOf(y) == CHOOSE x \in branch : c.copies[x] = y
        copy(x) == [t[x] EXCEPT !.parent = IF x = c.id THEN c.parent ELSE c.copies[t[x].parent],
                                !.key = IF x = c.id THEN Step ELSE t[x].key,
                                !.live = TRUE]
        made == {c.copies[x] : x \in branch}
    IN When(Hosts(t, c.parent) /\ made \cap Present(t) = {},
            Placed([y \in Rows |-> IF y \in made THEN copy(copyOf(y)) ELSE t[y]],
                   c.copies[c.id], c.next))

\* The children of x take its place, in the room after it when there is enough.
Lifted(t, x) ==
    LET p == t[x].parent
        siblings == InOrder(t, p)
        at == Spot(siblings, x)
        children == InOrder(t, x)
        n == Len(children)
        isLast == at = Len(siblings)
        gap == IF isLast THEN Step * (n + 1) ELSE t[siblings[at + 1]].key - t[x].key
        stride == IF isLast THEN Step ELSE gap \div (n + 1)
        lifted == [y \in Rows |-> CASE y = x -> NoRow
                                    [] y \in ToSet(children) -> [t[y] EXCEPT !.parent = p]
                                    [] OTHER -> t[y]]
    IN CASE n = 0 -> lifted
         [] n > 0 /\ (isLast \/ gap > n) ->
               [y \in Rows |-> IF y \in ToSet(children)
                               THEN [lifted[y] EXCEPT !.key = t[x].key + stride * Spot(children, y)]
                               ELSE lifted[y]]
         [] OTHER ->
               Respaced(lifted, SubSeq(siblings, 1, at - 1) \o children
                                  \o SubSeq(siblings, at + 1, Len(siblings)))

Removed(t, c) ==
    When(c.id \in Present(t) \ (Pictures \cup {Root}) /\ t[c.id].text = Blank,
         {Lifted(t, c.id)})

Joined(a, b) == IF a = Blank THEN b ELSE a

\* The row above, with nothing under it, goes; this one takes its key.
MergedBackward(t, c) ==
    LET order == Ordered(Siblings(t, t[c.id].parent), LiveChildren(t, t[c.id].parent))
    IN When(/\ {c.id, c.previous} \subseteq Present(t) \ (Pictures \cup {Root})
            /\ c.previous # c.id
            /\ LiveChildren(t, c.previous) = {}
            /\ c.id \in Follower(order, c.previous),
            {[t EXCEPT ![c.id].text = Joined(t[c.previous].text, @),
                       ![c.id].key = t[c.previous].key,
                       ![c.previous] = NoRow]})

MergedIntoParent(t, c) ==
    LET p == t[c.id].parent
        live == Ordered(Siblings(t, p), LiveChildren(t, p))
    IN When(/\ c.id \in Present(t) \ (Pictures \cup {Root})
            /\ p # Root
            /\ live # <<>> /\ Head(live) = c.id,
            {Lifted([t EXCEPT ![p].text = Joined(@, t[c.id].text)], c.id)})

\* Mutant: what hangs under it stays.
DeletedAlone(t, c) ==
    When(c.id \in Present(t), {[t EXCEPT ![c.id].live = FALSE]})

Deleted(t, c) ==
    When(c.id \in Present(t),
         {[x \in Rows |-> IF x \in Subtree(t, c.id) THEN [t[x] EXCEPT !.live = FALSE] ELSE t[x]]})

Reseat(t, x) ==
    IF x = Root THEN t ELSE With(t, Reseated(Siblings(t, t[x].parent), x))

\* A branch out of the trash, with the rows it hangs under.
Restored(t, c) ==
    LET path == Path(t, c.id)
        back == [x \in Rows |-> IF x \in Subtree(t, c.id) \cup ToSet(path)
                                THEN [t[x] EXCEPT !.live = TRUE] ELSE t[x]]
    IN When(c.id \in Present(t), {FoldLeft(Reseat, back, path)})

Retexted(t, c) ==
    When(c.id \in Present(t) \ Pictures, {[t EXCEPT ![c.id].text = c.text]})

-----------------------------------------------------------------------------
\* What is done.

IsPageRow(t, x) == x = Root \/ t[x].parent = Root

\* The rows a tick climbs through.
Climbable(t, x) == x \in Live(t) /\ ~ IsPageRow(t, x)

Ticked(t, S, done) ==
    [x \in Rows |-> IF x \in S THEN [t[x] EXCEPT !.done = done] ELSE t[x]]

\* The rows of a path up to the first whose place does not let the climb through.
Reached(path, through) ==
    {path[i] : i \in {j \in DOMAIN path : 1 .. j \subseteq through}}

Settled(t, path) ==
    LET closing ==
            {j \in DOMAIN path :
                /\ Climbable(t, path[j])
                /\ LiveChildren(t, path[j]) # {}
                /\ \A y \in LiveChildren(t, path[j]) : t[y].done \/ (j > 1 /\ y = path[j - 1])}
    IN Ticked(t, Reached(path, closing), TRUE)

Cleared(t, path) ==
    LET opening == {j \in DOMAIN path : Climbable(t, path[j]) /\ t[path[j]].done}
    IN Ticked(t, Reached(path, opening), FALSE)

SetDone(t, x, done) ==
    LET told == Ticked(t, {x}, done)
    IN IF done THEN Settled(told, Above(t, x)) ELSE Cleared(told, Above(t, x))

Completed(t, c) == When(c.id \in Present(t), {SetDone(t, c.id, c.done)})

\* The three presses of the completion chord.
Cycled(t, c) ==
    LET open == {y \in LiveChildren(t, c.id) : ~ t[y].done}
    IN When(c.id \in Present(t),
            {CASE ~ t[c.id].done -> SetDone(t, c.id, TRUE)
               [] t[c.id].done /\ open # {} -> Ticked(t, LiveChildren(t, c.id), TRUE)
               [] OTHER -> SetDone(Ticked(t, c.remembered \cap Present(t), FALSE), c.id, FALSE)})

HoldsSomething(t, x) == t[x].text # Blank \/ x \in Pictures
CountsAsOpen(t, x) == x \in Live(t) /\ ~ t[x].done /\ HoldsSomething(t, x)

\* The rows that lost an open row to this command, and may be done for it.
LeftBehind(before, t) ==
    {before[x].parent : x \in
        {y \in Live(before) \ {Root} :
            /\ ~ before[y].done
            /\ y \notin Live(t) \/ t[y].parent # before[y].parent}}

SettledAfter(before, t) ==
    FoldLeft(LAMBDA u, p : Settled(u, Path(u, p)), t,
             SetToSortSeq(LeftBehind(before, t), <))

\* Mutant: what is written into a blank row does not count.
ArrivedByPlaceOnly(before, t) ==
    {x \in Rows : CountsAsOpen(t, x)
                    /\ (x \notin Live(before) \/ before[x].parent # t[x].parent)}

Arrived(before, t) ==
    {x \in Rows :
        /\ CountsAsOpen(t, x)
        /\ \/ x \notin Live(before)
           \/ before[x].parent # t[x].parent
           \/ ~ HoldsSomething(before, x)}

\* Finished rows that were there before open for it; one that came along does not.
OpenedOver(before, t, x) ==
    LET path == Above(t, x)
        came(j) == path[j] \notin Live(before)
        passes(j) == Climbable(t, path[j]) /\ t[path[j]].done # came(j)
        comes(j) == Climbable(t, path[j]) /\ \A k \in 1 .. j - 1 : passes(k)
    IN {path[j] : j \in {i \in DOMAIN path : comes(i) /\ t[path[i]].done /\ ~ came(i)}}

ReopenedAfter(before, t) ==
    Ticked(t, UNION {OpenedOver(before, t, x) : x \in Arrived(before, t)}, FALSE)

-----------------------------------------------------------------------------
\* A command over a table.

Executed(t, c) ==
    CASE c.kind = "create" -> Created(t, c)
      [] c.kind = "import" -> Imported(t, c)
      [] c.kind = "split" -> Split(t, c)
      [] c.kind \in {"move", "moves", "indent"} -> Moved(t, c)
      [] c.kind = "duplicate" -> Duplicated(t, c)
      [] c.kind = "remove" -> Removed(t, c)
      [] c.kind = "backward" -> MergedBackward(t, c)
      [] c.kind = "upward" -> MergedIntoParent(t, c)
      [] c.kind = "delete" -> Deleted(t, c)
      [] c.kind = "restore" -> Restored(t, c)
      [] c.kind = "text" -> Retexted(t, c)
      [] c.kind = "complete" -> Completed(t, c)
      [] c.kind = "cycle" -> Cycled(t, c)

Ran(t, command) ==
    FoldLeft(LAMBDA tables, c : UNION {Executed(u, c) : u \in tables}, {t}, command)

Plan(t, command) ==
    {u \in {ReopenedAfter(t, SettledAfter(t, v)) : v \in Ran(t, command)} : Valid(u)}
=============================================================================
