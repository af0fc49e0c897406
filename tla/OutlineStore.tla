---------------------------- MODULE OutlineStore ----------------------------
(***************************************************************************)
(* Commands against the stored outline.  A command is planned over a       *)
(* slice, the rows the storage loads for it.  The plan is checked on the   *)
(* slice alone and its rows are written into the whole table, so what      *)
(* holds of the slice has to hold of the table.                            *)
(*                                                                         *)
(* Each row carries its path, the keys and ids from the page down to it,   *)
(* and none when a row on the way is in the trash.  A command rewrites the *)
(* paths it can have changed; what reads a page asks the paths alone.      *)
(*                                                                         *)
(* Beside the commands stands a merge, which spaces out a family a file    *)
(* has ordered and leaves the keys of its rows in the trash alone.         *)
(***************************************************************************)
EXTENDS Outline

CONSTANTS
    Tables,        \* what the table may hold at first
    DeepRestores,  \* whether a row is restored while its page is in the trash
    MaxCommands    \* bound: commands and merges in a behaviour

ASSUME StoreAssumption == DeepRestores \in BOOLEAN /\ MaxCommands \in Nat

VARIABLES
    table,     \* notes_nodes
    paths,     \* its column path, where a window reads its rows from
    commands

vars == <<table, paths, commands>>

-----------------------------------------------------------------------------
\* The rows loaded for a command.

Chain(t, x) == ToSet(Path(t, x)) \cap Present(t)

\* A row's children, and those of the rows a tick climbs through above it.
CompletionContext(t, x) ==
    LET path == Path(t, x)
        below == {i \in DOMAIN path : i = 1 \/ ~ IsPageRow(t, path[i])}
    IN Chain(t, x) \cup UNION {Children(t, path[i]) : i \in below}

\* Mutant: only the row and those above it.
DepartureContextBare(t, x) == Chain(t, x)

DepartureContext(t, x) ==
    Chain(t, x) \cup
        IF x \in Present(t) \ {Root} THEN CompletionContext(t, t[x].parent) ELSE {}

\* The neighbours of a place, and the whole family when there is no room.
PositionContext(t, p, next, moved) ==
    LET order == Ordered(Siblings(t, p), Children(t, p) \ {moved})
        ahead == {y \in ToSet(order) : Before(t, y, next)}
        previous == Ordered(t, ahead)
    IN CASE next = AtEnd -> IF order = <<>> THEN {} ELSE {Last(order)}
         [] next # AtEnd /\ next \notin Present(t) -> {}
         [] OTHER ->
              {next} \cup
              CASE previous = <<>> -> {}
                [] previous # <<>> /\ t[next].key - t[Last(previous)].key <= 1 -> Children(t, p)
                [] OTHER -> {Last(previous)}

MoveContext(t, c) ==
    Chain(t, c.id) \cup Chain(t, c.parent) \cup Subtree(t, c.id)
        \cup PositionContext(t, c.parent, c.next, c.id)

RemoveContext(t, x) ==
    LET siblings == InOrder(t, t[x].parent)
        n == Cardinality(Children(t, x))
        next == Follower(siblings, x)
        cramped == \E y \in next : t[y].key - t[x].key <= n
    IN Chain(t, x) \cup Children(t, x) \cup
       CASE x \notin Present(t) \ {Root} \/ n = 0 -> {}
         [] cramped -> ToSet(siblings)
         [] OTHER -> next

Loaded(t, c) ==
    CASE c.kind = "create" ->
           Chain(t, c.id) \cup Chain(t, c.parent) \cup PositionContext(t, c.parent, c.next, AtEnd)
      [] c.kind = "import" ->
           ({c.id} \cap Present(t)) \cup Chain(t, c.parent) \cup Children(t, c.parent)
      [] c.kind = "split" ->
           ({c.new} \cap Present(t)) \cup Chain(t, c.id) \cup Chain(t, c.parent)
             \cup PositionContext(t, c.parent, c.next, AtEnd)
      [] c.kind = "backward" ->
           Chain(t, c.id) \cup Children(t, t[c.id].parent) \cup Children(t, c.previous)
             \cup DepartureContext(t, c.previous)
      [] c.kind \in {"remove", "upward"} ->
           RemoveContext(t, c.id) \cup DepartureContext(t, c.id)
      [] c.kind \in {"move", "indent"} ->
           MoveContext(t, c) \cup DepartureContext(t, c.id)
      [] c.kind = "moves" ->
           MoveContext(t, c) \cup DepartureContext(t, c.id) \cup Children(t, c.parent)
      [] c.kind = "duplicate" ->
           ({c.copies[x] : x \in DOMAIN c.copies} \cap Present(t))
             \cup Chain(t, c.id) \cup Chain(t, c.parent) \cup Subtree(t, c.id)
             \cup PositionContext(t, c.parent, c.next, AtEnd)
      [] c.kind \in {"delete", "restore"} ->
           Subtree(t, c.id) \cup DepartureContext(t, c.id)
      [] c.kind = "text" -> Chain(t, c.id)
      [] c.kind \in {"complete", "cycle"} -> CompletionContext(t, c.id)

Slice(t, command) == UNION {Loaded(t, c) : c \in ToSet(command)}

\* A slice that is not valid by itself is not planned over.
PlanOver(t, S, command) ==
    UNION {Plan(u, command) : u \in {v \in {Only(t, S)} : Valid(v)}}

\* A removed row the vault has stated goes to the trash.
Written(t, S, u, stated) ==
    [x \in Rows |->
        CASE u[x] # NoRow -> u[x]
          [] u[x] = NoRow /\ x \in S /\ x \in stated /\ t[x] # NoRow -> [t[x] EXCEPT !.live = FALSE]
          [] u[x] = NoRow /\ x \in S /\ x \notin stated -> NoRow
          [] OTHER -> t[x]]

-----------------------------------------------------------------------------
\* The paths.

NoPath == <<>>

PathTo(t, x) ==
    LET path == Reverse(Path(t, x))
    IN IF ToSet(path) \subseteq Live(t)
       THEN [i \in DOMAIN path |-> <<t[path[i]].key, path[i]>>]
       ELSE NoPath

AllPaths(t) == [x \in Rows |-> IF x \in Present(t) THEN PathTo(t, x) ELSE NoPath]

\* Mutant: a row that only went to the trash has not moved.
ReplacedUnlessTrashed(before, after) ==
    {x \in Present(after) :
        \/ x \notin Present(before)
        \/ before[x].parent # after[x].parent
        \/ before[x].key # after[x].key}

\* The rows whose place changed, or that went to the trash, and each branch below.
Replaced(before, after) ==
    {x \in Present(after) :
        \/ x \notin Present(before)
        \/ before[x].parent # after[x].parent
        \/ before[x].key # after[x].key
        \/ before[x].live # after[x].live}

Refreshed(before, after) ==
    LET moved == Replaced(before, after)
        seeds == {x \in moved : after[x].parent \notin moved}
        rebuilt == UNION {Subtree(after, x) : x \in seeds}
    IN [x \in Rows |->
          CASE x \in rebuilt -> PathTo(after, x)
            [] x \notin Present(after) -> NoPath
            [] OTHER -> paths[x]]

-----------------------------------------------------------------------------
\* The commands a window can ask for.

Free(t) == Rows \ (Present(t) \cup {Journals})
Places(t, p) == {AtEnd} \cup LiveChildren(t, p)
OneAtATime(steps) == {<<c>> : c \in steps}

Creations(t) == OneAtATime(
    UNION {[kind : {"create"}, id : (Free(t) \ Pictures) \cup {Journals}, parent : {p},
            next : Places(t, p), text : Texts] : p \in Live(t)})

\* A row, or a row with another under it.
Imports(t) ==
    LET step(x, p, next, text, done) ==
            [kind |-> "import", id |-> x, parent |-> p, next |-> next, text |-> text, done |-> done]
    IN UNION {{<<step(x, p, n, a, b)>> : n \in Places(t, p)} :
                 x \in Free(t), p \in Live(t), a \in Texts, b \in BOOLEAN}
       \cup {<<step(x, p, AtEnd, a, b), step(y, x, AtEnd, a, FALSE)>> :
                x \in Free(t), y \in Free(t), p \in Live(t), a \in Texts, b \in BOOLEAN}

Splits(t) == OneAtATime(
    UNION {[kind : {"split"}, id : {x}, new : Free(t) \ Pictures, parent : {p},
            next : Places(t, p), prefix : {Blank, t[x].text}, suffix : {Blank, t[x].text}] :
           x \in Live(t) \ {Root}, p \in Live(t)})

Moves(t) == OneAtATime(
    UNION {[kind : {"move"}, id : Live(t) \ {Root}, parent : {p}, next : Places(t, p)] :
           p \in Live(t)})

\* Several branches to the end of one row, none of them inside another.
ManyMoves(t) ==
    LET step(x, p) == [kind |-> "moves", id |-> x, parent |-> p, next |-> AtEnd]
        apart(x, y) == x \notin Subtree(t, y) /\ y \notin Subtree(t, x)
    IN {<<step(x, p), step(y, p)>> :
          <<x, y, p>> \in {m \in (Live(t) \ {Root}) \X (Live(t) \ {Root}) \X Live(t) :
                             apart(m[1], m[2])}}

Indents(t) == OneAtATime(
    UNION {[kind : {"indent"}, id : {x}, next : {AtEnd},
            parent : {y \in LiveChildren(t, t[x].parent) : Before(t, y, x)}] :
           x \in Live(t) \ {Root}})

Duplications(t) ==
    UNION {OneAtATime(
             {[kind |-> "duplicate", id |-> x, copies |-> m, parent |-> t[x].parent, next |-> AtEnd] :
                m \in {f \in Injection(VisibleSubtree(t, x), Free(t)) :
                         \A y \in DOMAIN f : y \in Pictures <=> f[y] \in Pictures}}) :
           x \in Live(t) \ {Root}}

Removals(t) == OneAtATime(
    [kind : {"remove", "upward"}, id : Live(t) \ {Root}]
      \cup [kind : {"backward"}, id : Live(t) \ {Root}, previous : Live(t) \ {Root}])

\* The last rows that went are the first that can come back.
Deletions(t) ==
    OneAtATime([kind : {"delete"}, id : Live(t) \ {Root}])
      \cup {<<[kind |-> "delete", id |-> m[1]], [kind |-> "delete", id |-> m[2]]>> :
              m \in {p \in (Live(t) \ {Root}) \X Live(t) : Before(t, p[1], p[2])}}

Shallow(t, x) == t[x].parent \in Live(t)
Restorations(t) ==
    OneAtATime([kind : {"restore"},
                id : {x \in Present(t) \ Live(t) : DeepRestores \/ Shallow(t, x)}])

Edits(t) == OneAtATime([kind : {"text"}, id : Live(t), text : Texts])

Ticks(t) ==
    OneAtATime([kind : {"complete"}, id : Live(t), done : BOOLEAN])
      \cup {<<[kind |-> "complete", id |-> m[1], done |-> TRUE],
               [kind |-> "complete", id |-> m[2], done |-> TRUE]>> :
              m \in {p \in Live(t) \X Live(t) : Before(t, p[1], p[2])}}

Presses(t) == OneAtATime(
    UNION {[kind : {"cycle"}, id : {x},
            remembered : SUBSET {y \in LiveChildren(t, x) : t[x].done /\ t[y].done}] :
           x \in Live(t)})

-----------------------------------------------------------------------------

Init ==
    /\ table \in Tables
    /\ paths = AllPaths(table)
    /\ commands = 0

Commit(command) ==
    /\ commands < MaxCommands
    /\ \E u \in PlanOver(table, Slice(table, command), command) :
          \E stated \in {{}, Rows} :
             table' = Written(table, Slice(table, command), u, stated)
    /\ paths' = Refreshed(table, table')
    /\ commands' = commands + 1

Create == \E command \in Creations(table) : Commit(command)
Import == \E command \in Imports(table) : Commit(command)
SplitNode == \E command \in Splits(table) : Commit(command)
Move == \E command \in Moves(table) \cup ManyMoves(table) \cup Indents(table) : Commit(command)
Duplicate == \E command \in Duplications(table) : Commit(command)
TakeAway == \E command \in Removals(table) : Commit(command)
Delete == \E command \in Deletions(table) : Commit(command)
Restore == \E command \in Restorations(table) : Commit(command)
Retext == \E command \in Edits(table) : Commit(command)
Complete == \E command \in Ticks(table) \cup Presses(table) : Commit(command)

Merge(p) ==
    /\ commands < MaxCommands
    /\ table' = With(table, Respaced(Siblings(table, p),
                                     Ordered(table, LiveChildren(table, p))))
    /\ paths' = AllPaths(table')
    /\ commands' = commands + 1

Next ==
    \/ Create \/ Import \/ SplitNode \/ Move \/ Duplicate \/ TakeAway
    \/ Delete \/ Restore \/ Retext \/ Complete
    \/ \E p \in Live(table) : Merge(p)

Spec == Init /\ [][Next]_vars

-----------------------------------------------------------------------------

\* A table of rows and none, and a count within its bound.
TypeOK ==
    /\ table \in [Rows -> OutlineRow \cup {NoRow}]
    /\ \A x \in Present(table) : table[x].parent = NoParent <=> x = Root
    /\ paths \in [Rows -> Seq(Int \X Rows)]
    /\ commands \in 0 .. MaxCommands

\* The whole table stays what a load accepts (tree.rs:478 validate), though
\* every plan was checked on a slice: parents are there and reach the page, no
\* picture hangs under it, live siblings have keys of their own.
TableStaysValid == Valid(table)

\* A row that is not in the trash is never under one that is.
NothingLiveUnderTheTrash ==
    \A x \in Live(table) : ToSet(Path(table, x)) \subseteq Live(table)

\* A row's path is what its place in the outline makes it, so a window shows
\* every row that is not in the trash, once, in order (queries.rs:15), though a
\* command rewrites only the paths it takes to have changed (node_paths.rs:69).
PathsAreFresh == paths = AllPaths(table)

Offered(t) ==
    UNION {Creations(t), Imports(t), Splits(t), Moves(t), ManyMoves(t), Indents(t),
           Duplications(t), Removals(t), Deletions(t), Restorations(t), Edits(t),
           Ticks(t), Presses(t)}

\* What is loaded for a command is enough: it is refused, or changes the same
\* rows alike, as if the whole table were there (repository.rs:54).
SliceIsEnough ==
    commands < MaxCommands => \A command \in Offered(table) :
        LET S == Slice(table, command)
        IN {Written(table, S, u, {}) : u \in PlanOver(table, S, command)}
             = Plan(table, command)

\* Open work that comes under a finished row that was there before, through
\* rows that came with it and say nothing is finished, opens it
\* (command_execution.rs:710 reopen_over_rows_this_command_placed).
Comes(before, after, x) ==
    /\ CountsAsOpen(after, x)
    /\ x \in Live(before) =>
          before[x].parent # after[x].parent \/ ~ HoldsSomething(before, x)
OldRowsOver(before, after, x) ==
    LET path == Above(after, x)
        stood(j) == path[j] \in Live(before)
    IN {path[j] : j \in {i \in DOMAIN path :
            stood(i) /\ \A k \in 1 .. i - 1 : ~ stood(k) /\ ~ after[path[k]].done}}
SeesNewWork(before, after) ==
    \A x \in Present(after) : Comes(before, after, x) =>
        \A y \in OldRowsOver(before, after, x) : ~ IsPageRow(after, y) => ~ after[y].done
NewWorkIsSeen == [][SeesNewWork(table, table')]_vars
=============================================================================
