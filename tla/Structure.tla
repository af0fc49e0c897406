----------------------------- MODULE Structure -----------------------------
(***************************************************************************)
(* Where the rows are, on devices that share a vault: the parent of a row  *)
(* and its place among its siblings.                                       *)
(*                                                                         *)
(* A command sets parents and keys and records the claims they make.  A    *)
(* merge judges the claims of a file one by one and sets the keys to what  *)
(* all the claims add up to.  A row left under a parent that is gone, or   *)
(* on a ring of parents, is parked on a page made for it.                  *)
(*                                                                         *)
(* A device reads a file as its writer holds the rows at that moment, and  *)
(* the files in any order.  What a row says is no more than its stamp, and *)
(* stamps never drift.                                                     *)
(***************************************************************************)
EXTENDS SiblingOrder

CONSTANTS
    Devices,
    Recovery,      \* each device's recovery page: its id comes from vault_uuid
    Starts,        \* the tables the devices start from, and the commands spent by then
    Kinds,         \* the commands: "move", "trash", "restore", "create", "undo"
    MaxCommands    \* bound: commands, over all devices

ASSUME StructureAssumption ==
    /\ Devices = {0, 1}
    /\ Recovery \in [Devices -> Rows]
    /\ Kinds \subseteq {"move", "trash", "restore", "create", "undo"}
    /\ MaxCommands \in Nat

VARIABLES
    table,      \* notes_nodes: [device -> [id -> placed row]]
    clock,      \* the counter of the last stamp issued or met
    commands,
    displaced   \* history: a row has come under another parent, or back to life

vars == <<table, clock, commands, displaced>>

Stamp(n, d) == 2 * n + d + 2
CounterOf(stamp) == IF stamp = Unstamped THEN 0 ELSE (stamp - 2) \div 2
Mine(stamp, d) == stamp # Unstamped /\ stamp % 2 = d

Other(d) == 1 - d

-----------------------------------------------------------------------------
\* The files.

Trash == -2

\* A row no claim is written for: none was recorded, or it is in the trash.
Stands(row) == row.at = Unstamped \/ ~ row.live

\* What the line of x says: its place is the claim, or where the line stands.
LineOf(t, x, parent, pred) ==
    [id |-> x, parent |-> parent, t |-> t[x].t, positioned |-> TRUE, from |-> FALSE,
     key |-> t[x].key, standing |-> pred,
     prev |-> IF Stands(t[x]) THEN pred ELSE t[x].prev,
     at |-> IF Stands(t[x]) THEN t[x].t ELSE t[x].at]

RECURSIVE LinesBelow(_, _, _)
LinesBelow(t, p, S) ==
    LET order == Ordered(t, {x \in S : t[x].parent = p})
        pred(i) == IF i = 1 THEN First ELSE order[i - 1]
    IN FlattenSeq([i \in DOMAIN order |->
          <<LineOf(t, order[i], p, pred(i))>> \o LinesBelow(t, order[i], S)])

Pages(t) == LiveChildren(t, Root)
Trashed(t) == {x \in Present(t) \ Live(t) : t[x].t # Unstamped}
TrashRoots(t) == {x \in Trashed(t) : t[x].parent \notin Present(t) \ Live(t)}

\* Home states the pages, a page the rows under it, the trash what was deleted.
Documents(t) == {Root} \cup Pages(t) \cup {d \in {Trash} : Trashed(t) # {}}

Lines(t, doc) ==
    LET head(x) == [LineOf(t, x, Root, First) EXCEPT !.positioned = FALSE]
        roots == Ordered(t, TrashRoots(t))
        thrown(x) == [head(x) EXCEPT !.parent = t[x].parent, !.from = TRUE]
    IN CASE doc = Root -> LinesBelow(t, Root, Pages(t))
         [] doc = Trash -> FlattenSeq([i \in DOMAIN roots |->
                <<thrown(roots[i])>> \o LinesBelow(t, roots[i], Trashed(t))])
         [] OTHER -> <<head(doc)>> \o LinesBelow(t, doc, Live(t))

-----------------------------------------------------------------------------
\* A merge.

\* The trash names the parents of what it holds; one not here yet is held open
\* by a row without a stamp.
Placeholder ==
    [parent |-> Root, text |-> Blank, key |-> Step, live |-> FALSE, done |-> FALSE,
     t |-> Unstamped, prev |-> First, at |-> Unstamped]

HeldOpen(t, lines) ==
    LET named == {l.parent : l \in {m \in ToSet(lines) : m.from}}
    IN [x \in Rows |-> IF x \in named \ Present(t) THEN Placeholder ELSE t[x]]

\* The claims of every family a line is in or comes from.
OrderLoaded(t, lines) ==
    LET wanted == {IF l.positioned THEN l.parent ELSE Root : l \in ToSet(lines)}
                    \cup {t[l.id].parent : l \in {m \in ToSet(lines) : m.id \in Present(t)}}
    IN [p \in Rows |-> IF p \in wanted THEN ClaimsUnder(t, p) ELSE {}]

LastOf(claims) ==
    LET order == Sequence(claims) IN IF order = <<>> THEN First ELSE Last(order)

\* The claim of a row that is there: what was recorded, or where it is laid down.
OwnClaim(order, was, x) ==
    LET before == Spot(order, x) - 1
    IN IF was.at # Unstamped THEN [prev |-> was.prev, at |-> was.at]
       ELSE [prev |-> IF before < 1 THEN First ELSE order[before], at |-> was.t]

\* The claim a merge takes for a line, as a set that is empty when it takes none.
PlaceTaken(s, l, was, d) ==
    LET file == [prev |-> l.prev, at |-> l.at]
        verdict == Judged(file, OwnClaim(Sequence(s.order[l.parent]), was, l.id), Mine(l.at, d))
    IN CASE l.positioned /\ was = NoRow -> {file}
         [] l.positioned /\ was # NoRow ->
              CASE verdict = "take" -> {file}
                [] verdict = "author" -> {[prev |-> l.standing, at |-> Stamp(s.clock + 1, d)]}
                [] OTHER -> {}
         [] ~ l.positioned /\ ~ l.from /\ (was = NoRow \/ was.t = Unstamped) ->
              {[prev |-> LastOf(s.order[l.parent]), at |-> Stamp(0, d)]}
         [] OTHER -> {}

\* Mutant: a row that is there keeps its parent, whatever its line says.
RowOfSettled(l, was, trash) ==
    [parent |-> IF was = NoRow THEN l.parent ELSE was.parent,
     text |-> Blank, done |-> FALSE, live |-> ~ trash, t |-> l.t,
     key |-> CASE l.from -> l.key
               [] ~ l.from /\ was # NoRow -> was.key
               [] OTHER -> Step,
     prev |-> IF was = NoRow THEN First ELSE was.prev,
     at |-> IF was = NoRow THEN Unstamped ELSE was.at]

\* The row a newer line makes.
RowOf(l, was, trash) ==
    [parent |-> IF l.positioned \/ l.from \/ was = NoRow THEN l.parent ELSE was.parent,
     text |-> Blank, done |-> FALSE, live |-> ~ trash, t |-> l.t,
     key |-> CASE l.from -> l.key
               [] ~ l.from /\ was # NoRow -> was.key
               [] OTHER -> Step,
     prev |-> IF was = NoRow THEN First ELSE was.prev,
     at |-> IF was = NoRow THEN Unstamped ELSE was.at]

\* The row a line leaves, with the claim taken for it if one was.
Entered(s, l, row, place, d) ==
    LET claimed == CHOOSE c \in place : TRUE
    IN IF place = {}
       THEN [s EXCEPT !.t[l.id] = row]
       ELSE [t |-> [s.t EXCEPT ![l.id] = [row EXCEPT !.prev = claimed.prev, !.at = claimed.at]],
             clock |-> IF claimed.at = Stamp(s.clock + 1, d) THEN s.clock + 1 ELSE s.clock,
             order |-> [s.order EXCEPT ![l.parent] =
                          {b \in @ : b.id # l.id}
                            \cup {[id |-> l.id, prev |-> claimed.prev, at |-> claimed.at]}],
             moved |-> s.moved \cup {l.parent}]

\* One line against the row that was there when the merge began.
LineTaken(s, l, was, d, trash) ==
    LET met == IF CounterOf(l.t) > s.clock THEN [s EXCEPT !.clock = CounterOf(l.t)] ELSE s
        newer == IF was = NoRow THEN TRUE ELSE l.t > was.t
        row == IF newer THEN RowOf(l, was, trash) ELSE met.t[l.id]
    IN Entered(met, l, row, PlaceTaken(met, l, was, d), d)

\* Mutant: the keys stay as they were.
FlushedNever(s) == s.t

\* The keys of each family something was claimed in, family after family.
Flushed(s) ==
    FoldLeft(LAMBDA t, p : Respaced(t, Sequence(s.order[p])), s.t, SetToSortSeq(s.moved, <))

Applied(t, c, lines, d, trash) ==
    LET open == HeldOpen(t, lines)
        s == FoldLeft(LAMBDA u, l : LineTaken(u, l, t[l.id], d, trash),
                      [t |-> open, clock |-> c, order |-> OrderLoaded(open, lines), moved |-> {}],
                      lines)
    IN [t |-> Flushed(s), clock |-> s.clock]

-----------------------------------------------------------------------------
\* What a merge repairs.

Orphans(t) == {x \in Live(t) \ {Root} : t[x].parent \notin Live(t)}

\* The live rows on a ring of parents.
OnRings(t) ==
    {x \in Live(t) : LET top == Last(Path(t, x)) IN t[top] # NoRow /\ t[top].parent = x}

\* The row a ring gives up: the one with the oldest stamp.
GivenUp(t, ring) ==
    CHOOSE x \in ring : \A y \in ring : t[x].t < t[y].t \/ (t[x].t = t[y].t /\ x <= y)

\* The recovery page is made when it is not there; nothing brings it back from
\* the trash.  A parked row's key comes from its id.  (A merge that parks takes
\* a reading for the page even when it is there, and drops it: left out.)
Parked(s, x, d) ==
    LET page == Recovery[d]
        made == page \notin Present(s.t)
        c == IF made THEN s.clock + 1 ELSE s.clock
    IN [t |-> [y \in Rows |->
                 CASE y = x -> [s.t[x] EXCEPT !.parent = page, !.key = x, !.t = Stamp(c + 1, d)]
                   [] y = page /\ made ->
                        [Placeholder EXCEPT !.live = TRUE, !.key = 100, !.t = Stamp(c, d)]
                   [] OTHER -> s.t[y]],
        clock |-> c + 1]

\* Mutant: rings are left alone.
RepairedOrphansOnly(s, d) ==
    LET orphans == Orphans(s.t)
    IN IF orphans = {} THEN s
       ELSE Parked(s, CHOOSE x \in orphans : \A y \in orphans : x <= y, d)

\* One row: an orphan before any ring.
RepairedOnce(s, d) ==
    LET orphans == Orphans(s.t)
        rings == OnRings(s.t)
        ringOf(x) == rings \cap ToSet(Path(s.t, x))
    IN CASE orphans # {} -> Parked(s, CHOOSE x \in orphans : \A y \in orphans : x <= y, d)
         [] orphans = {} /\ rings # {} ->
              Parked(s, GivenUp(s.t, ringOf(CHOOSE x \in rings : \A y \in rings : x <= y)), d)
         [] OTHER -> s

\* A repair goes on until nothing is left; here it is cut off after as many
\* rounds as are given it, one for each row there can be.
RECURSIVE RepairedIn(_, _, _)
RepairedIn(rounds, s, d) ==
    LET next == RepairedOnce(s, d)
    IN IF rounds = 0 \/ next = s THEN s ELSE RepairedIn(rounds - 1, next, d)

Repaired(s, d) == RepairedIn(Cardinality(Rows), s, d)

\* One file of the other device, read to its end.
Merged(d, doc) ==
    LET lines == Lines(table[Other(d)], doc)
    IN Repaired(Applied(table[d], clock[d], lines, d, doc = Trash), d)

Displacing(before, after) ==
    \E d \in Devices : \E x \in Present(before[d]) \cap Present(after[d]) :
        \/ before[d][x].parent # after[d][x].parent
        \/ ~ before[d][x].live /\ after[d][x].live

Merge(d, doc) ==
    /\ doc \in Documents(table[Other(d)])
    /\ LET merged == Merged(d, doc)
       IN /\ table' = [table EXCEPT ![d] = merged.t]
          /\ clock' = [clock EXCEPT ![d] = merged.clock]
    /\ displaced' = (displaced \/ Displacing(table, table'))
    /\ UNCHANGED commands

-----------------------------------------------------------------------------
\* The commands.

\* Every row the command changed is stamped, and the claims follow.
Stated(before, u, d) ==
    LET place(r) == <<r.parent, r.key, r.live>>
        changed == {x \in Present(u) : x \notin Present(before) \/ place(u[x]) # place(before[x])}
        gone == Present(before) \ Present(u)
        stampOf(x) == Stamp(clock[d] + Cardinality({y \in changed : y <= x}), d)
        relocated == {x \in changed : \/ x \notin Present(before)
                                      \/ u[x].parent # before[x].parent
                                      \/ u[x].live # before[x].live}
        row(x) == [parent |-> u[x].parent, text |-> Blank, key |-> u[x].key, live |-> u[x].live,
                   done |-> FALSE,
                   t |-> IF x \in changed THEN stampOf(x) ELSE u[x].t,
                   prev |-> IF x \in Present(before) THEN u[x].prev ELSE First,
                   at |-> IF x \in Present(before) THEN u[x].at ELSE Unstamped]
        stamped == [x \in Rows |-> IF x \in Present(u) THEN row(x) ELSE NoRow]
    IN [t |-> Reclaimed(before, stamped, changed \cup gone, relocated \cup gone),
        clock |-> clock[d] + Cardinality(changed)]

Command(d, kind, tables) ==
    /\ kind \in Kinds
    /\ commands < MaxCommands
    /\ commands' = commands + 1
    /\ \E u \in tables :
         LET stated == Stated(table[d], u, d)
         IN /\ table' = [table EXCEPT ![d] = stated.t]
            /\ clock' = [clock EXCEPT ![d] = stated.clock]
    /\ displaced' = (displaced \/ Displacing(table, table'))

Movable(d) == Live(table[d]) \ ({Root} \cup ToSet(Recovery))
Targets(t, p) == {AtEnd} \cup LiveChildren(t, p)

Move(d) ==
    LET t == table[d]
    IN \E x \in Movable(d), p \in Live(t) \ {Root} :
         /\ t[x].parent # Root
         /\ \E next \in Targets(t, p) :
              Command(d, "move", Moved(t, [id |-> x, parent |-> p, next |-> next]))

Discard(d) ==
    \E x \in Live(table[d]) \ {Root} : Command(d, "trash", Deleted(table[d], [id |-> x]))

Restore(d) ==
    LET t == table[d]
    IN \E x \in {y \in Trashed(t) : t[y].parent \in Live(t)} :
         Command(d, "restore", Restored(t, [id |-> x]))

Create(d) ==
    LET t == table[d]
    IN \E x \in Rows \ (Present(t) \cup Present(table[Other(d)]) \cup ToSet(Recovery)),
          p \in Live(t) \ {Root} :
         \E next \in Targets(t, p) :
              Command(d, "create", Created(t, [id |-> x, parent |-> p, text |-> Blank, next |-> next]))

\* A row no file has stated yet goes altogether.
Undo(d) ==
    LET t == table[d]
    IN \E x \in Live(t) \ (Present(table[Other(d)]) \cup ToSet(Recovery)) :
         /\ Children(t, x) = {}
         /\ Command(d, "undo", {[t EXCEPT ![x] = NoRow]})

Init ==
    /\ \E start \in Starts :
         /\ table = start.table
         /\ commands = start.commands
    /\ clock = [d \in Devices |-> 1]
    /\ displaced = FALSE

Next ==
    \E d \in Devices :
        \/ Move(d) \/ Discard(d) \/ Restore(d) \/ Create(d) \/ Undo(d)
        \/ \E doc \in Rows \cup {Trash} : Merge(d, doc)

Spec == Init /\ [][Next]_vars

-----------------------------------------------------------------------------

TypeOK ==
    /\ table \in [Devices -> [Rows -> PlacedRow \cup {NoRow}]]
    /\ \A d \in Devices : \A x \in Present(table[d]) :
         table[d][x].parent = NoParent <=> x = Root
    /\ clock \in [Devices -> Nat]
    /\ commands \in 0 .. MaxCommands
    /\ displaced \in BOOLEAN

\* Every live row is under live rows up to the root: what a merge left without
\* a parent was parked on a page the user can find (merger.rs:535).
EveryRowIsFound ==
    \A d \in Devices : Orphans(table[d]) = {} /\ OnRings(table[d]) = {}

\* No two live siblings share a key, on which the domain refuses the whole page
\* (merger.rs:353).
KeysOfTheirOwn ==
    \A d \in Devices, p \in Rows : StrictlyOrdered(Siblings(table[d], p))

\* They do not while no row has come to a family it was not in.
KeysOfTheirOwnWhileAtHome == displaced \/ KeysOfTheirOwn

\* Nothing is left to learn from any file.
Quiet ==
    \A d \in Devices : \A doc \in Documents(table[Other(d)]) : Merged(d, doc).t = table[d]

\* Devices that have read all of each other's files have the same live rows
\* under the same parents, whichever device parked the ones that were lost.
SameTree ==
    /\ Live(table[0]) = Live(table[1])
    /\ \A x \in Live(table[0]) : table[0][x].parent = table[1][x].parent
QuietMeansOneTree == SameTree \/ ~ Quiet

\* And they show each family in the same order: laid down again, the claims
\* give the same sequence on every device (merger.rs:840).
SameOrder(p) == LiveInOrder(table[0], p) = LiveInOrder(table[1], p)
QuietMeansOneOrder == (\A p \in Rows : SameOrder(p)) \/ ~ Quiet

\* They do where every claim names a sibling that is there.
Grounded(p) ==
    \A d \in Devices : \A x \in LiveChildren(table[d], p) :
        table[d][x].prev \in LiveChildren(table[d], p) \cup {First}
QuietMeansOneOrderWhereGrounded ==
    \/ displaced
    \/ \A p \in Rows : Grounded(p) => SameOrder(p)
    \/ ~ Quiet
=============================================================================
