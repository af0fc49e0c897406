---------------------------- MODULE NotesSession ----------------------------
(***************************************************************************)
(* One window's session over the storage: the revision it holds, the undo  *)
(* and redo stacks with the floor merges raise, and the requests it has    *)
(* answered; beside it the threads that write the same storage: the vault  *)
(* watch, which merges first and tells the session after, and a rebuild.   *)
(*                                                                         *)
(* The storage is one worker thread, so a load, a commit, a merge and a    *)
(* read of the revision are one step each, and others come in between.     *)
(* The session's lock is held from a command's load to its commit.         *)
(*                                                                         *)
(* The tree is one parent and its rows (Family).  A mutation is an id and  *)
(* the row it upserts, NoRow for a deletion.  Pictures, the completion     *)
(* chord's memory and the session id are not here.                         *)
(***************************************************************************)
EXTENDS Family

CONSTANTS
    Blank,         \* the text of a row that can be taken away
    Start,         \* the rows the session opens on
    Groups,        \* what a command states as its history group
    Alone,         \* which may be this, for no group
    Requests,      \* what the window asks, numbered as it asks
    Watchers,      \* two while a newly chosen folder replaces an older one
    MaxHistory,    \* MAX_HISTORY_ENTRIES
    MaxGroup,      \* MAX_HISTORY_MUTATIONS_PER_ENTRY
    MaxCompleted,  \* MAX_COMPLETED_REQUESTS
    MaxRevision,   \* bound: how far the stored revision goes
    MaxRebuilds,   \* bound: rebuilds asked for
    Overlap        \* whether a merge and a rebuild run into each other

ASSUME SessionAssumption ==
    /\ Blank \in Texts
    /\ Start \subseteq Rows
    /\ Requests \subseteq Nat
    /\ MaxHistory \in Nat \ {0}
    /\ MaxGroup \in Nat \ {0}
    /\ MaxCompleted \in Nat \ {0}
    /\ MaxRevision \in Nat
    /\ MaxRebuilds \in Nat
    /\ Overlap \in BOOLEAN

VARIABLES
    rows,       \* notes_nodes
    stated,     \* the ids sync_node_exports holds: the vault has stated them
    revision,   \* notes_meta.revision
    known,      \* SessionState.revision
    floor,      \* SessionState.undo_floor
    undo,
    redo,
    answered,   \* completed_request_order
    plan,       \* the command between its load and its commit
    watch,      \* where each watch thread is, and what it has to tell
    rebuild,    \* where the rebuild is
    rebuilds,   \* how many there were
    base,       \* the base revision each request was sent with
    applied     \* how often each request was applied

stored == <<rows, stated, revision>>
session == <<known, floor, undo, redo, answered>>
others == <<watch, rebuild, rebuilds>>
window == <<base, applied>>
vars == <<stored, session, plan, others, window>>

Unsent == -1
NoPlan == [busy |-> FALSE]
Resting == [at |-> "rest"]

Mutation == [id : Rows, row : Node \cup {NoRow}]
Entry == [forward : Seq(Mutation), inverse : Seq(Mutation), group : Groups \cup {Alone}]

\* A restore's id has the revision in it, so that no two are the same.
Asked(q) == [kind |-> "window", of |-> q]
Restore == [kind |-> "restore", of |-> known]

Names(e) == {e.forward[i].id : i \in 1 .. Len(e.forward)}
                \cup {e.inverse[i].id : i \in 1 .. Len(e.inverse)}
Named == UNION {Names(undo[i]) : i \in 1 .. Len(undo)}
             \cup UNION {Names(redo[i]) : i \in 1 .. Len(redo)}

Init ==
    /\ rows = [x \in Rows |-> IF x \in Start
                              THEN [text |-> Blank, key |-> Step * x, live |-> TRUE]
                              ELSE NoRow]
    /\ stated = {}
    /\ revision = 0 /\ known = 0
    /\ floor = 0 /\ undo = <<>> /\ redo = <<>>
    /\ answered = <<>>
    /\ plan = NoPlan
    /\ watch = [w \in Watchers |-> Resting]
    /\ rebuild = Resting
    /\ rebuilds = 0
    /\ base = [q \in Requests |-> Unsent]
    /\ applied = [q \in Requests |-> 0]

----------------------------------------------------------------------------
(* The storage's commit.                                                   *)

\* The ids a patch creates: its inverse deletes them.
Creates(inverse) ==
    {inverse[i].id : i \in {j \in 1 .. Len(inverse) : inverse[j].row = NoRow}}

\* A row the vault has stated goes to the trash, any other is gone.
Removed(t, x) ==
    [t EXCEPT !.rows[x] = IF x \notin stated THEN NoRow
                          ELSE IF @ = NoRow THEN NoRow
                          ELSE [@ EXCEPT !.live = FALSE]]

InsertedAnew(t, m) ==
    [ok |-> t.rows[m.id] = NoRow,
     rows |-> [t.rows EXCEPT ![m.id] = m.row],
     creates |-> t.creates \ {m.id}]

\* Over a row in the trash it is an update.
Inserted(t, m) ==
    [ok |-> t.rows[m.id] = NoRow \/ ~t.rows[m.id].live,
     rows |-> [t.rows EXCEPT ![m.id] = m.row],
     creates |-> t.creates \ {m.id}]

Updated(t, m) ==
    [ok |-> t.rows[m.id] # NoRow,
     rows |-> [t.rows EXCEPT ![m.id] = m.row],
     creates |-> t.creates]

\* One mutation of a patch; after one that fails nothing is written.
Apply(t, m) ==
    CASE ~t.ok -> t
      [] t.ok /\ m.row = NoRow -> Removed(t, m.id)
      [] t.ok /\ m.row # NoRow /\ m.id \in t.creates -> Inserted(t, m)
      [] OTHER -> Updated(t, m)

Transaction(forward, inverse) ==
    LET after[i \in 0 .. Len(forward)] ==
            IF i = 0 THEN [ok |-> TRUE, rows |-> rows, creates |-> Creates(inverse)]
            ELSE Apply(after[i - 1], forward[i])
    IN after[Len(forward)]

\* Refused when the storage has moved on, or when a mutation fails.
Commits(expected, forward, inverse) ==
    /\ revision = expected
    /\ Transaction(forward, inverse).ok

Stores(forward, inverse) ==
    /\ rows' = Transaction(forward, inverse).rows
    /\ revision' = revision + 1
    /\ known' = revision + 1
    /\ UNCHANGED stated

----------------------------------------------------------------------------
(* Commands.                                                               *)

\* The difference between two tables, in the order of the ids.
Diff(from, to) ==
    LET changed == {x \in Rows : from[x] # to[x]}
        Nth(i) == CHOOSE x \in changed : Cardinality({y \in changed : y < x}) = i - 1
    IN [i \in 1 .. Cardinality(changed) |-> [id |-> Nth(i), row |-> to[Nth(i)]]]

\* A new id is one no row has and no entry names.
Fresh == {x \in Rows : rows[x] = NoRow} \ Named

\* What a command or a line does to one row of the table.
Retyped(x, t) == [rows EXCEPT ![x].text = t]
Begun(x) == [rows EXCEPT ![x] = [text |-> Blank, key |-> Step, live |-> TRUE]]
Deleted(x) == [rows EXCEPT ![x] = NoRow]
Trashed(x) == [rows EXCEPT ![x].live = FALSE]
Revived(x) == [rows EXCEPT ![x].live = TRUE]

\* A live row put before another, or last.
Moves == UNION {{Place(rows, x, next) : next \in (Live(rows) \ {x}) \cup {AtEnd}} :
                    x \in Live(rows)}

\* The tables a command may plan.  All but a change of text and a new row at
\* the end load every sibling, and a tree with two live siblings on one key does
\* not load; a new row loads its neighbours, and every sibling when they are close.
Planned ==
    {Retyped(x, t) : x \in Live(rows), t \in Texts}
    \cup {Place(Begun(x), x, AtEnd) : x \in Fresh}
    \cup (IF ~StrictlyOrdered(rows) THEN {} ELSE
             {Place(Begun(x), x, y) : x \in Fresh, y \in Live(rows)}
             \cup Moves
             \cup {Deleted(x) : x \in {y \in Live(rows) : rows[y].text = Blank}}
             \cup {Trashed(x) : x \in Live(rows)})

\* The tables a restore from the trash may plan.
Restored ==
    IF ~StrictlyOrdered(rows) THEN {} ELSE {Reseated(Revived(x), x) : x \in Present(rows)}

Plan(id, group, table) ==
    /\ revision < MaxRevision
    /\ plan' = [busy |-> TRUE, id |-> id, group |-> group,
                forward |-> Diff(rows, table), inverse |-> Diff(table, rows)]

UpToDateAnyway(q) == q \in Requests
UpToDate(q) == base[q] \in {Unsent, known}

\* A request is sent with the base revision the window knows, and may arrive any
\* number of times.  One that has been answered gets the same answer, one with
\* an old base is refused; neither changes anything.  The window states no group
\* with a restore from the trash.
Execute(q) ==
    /\ plan = NoPlan
    /\ Asked(q) \notin ToSet(answered)
    /\ UpToDate(q)
    /\ \A p \in Requests : p < q => base[p] # Unsent
    /\ base' = [base EXCEPT ![q] = known]
    /\ \/ \E table \in Planned, g \in Groups : Plan(Asked(q), g, table)
       \/ \E table \in Restored : Plan(Asked(q), Alone, table)
    /\ UNCHANGED <<stored, session, others, applied>>

\* Putting a defeated text back asks for no base revision.
RestoreConflict(x) ==
    /\ plan = NoPlan
    /\ x \in Present(rows)
    /\ \E t \in Texts : Plan(Restore, Alone, Retyped(x, t))
    /\ UNCHANGED <<stored, session, others, window>>

Bounded(history) == IF Len(history) > MaxHistory THEN Tail(history) ELSE history

JoinsAnyEntry(e) ==
    /\ e.group # Alone
    /\ undo # <<>>
    /\ Last(undo).group = e.group
    /\ Len(Last(undo).forward) + Len(e.forward) <= MaxGroup
    /\ Len(Last(undo).inverse) + Len(e.inverse) <= MaxGroup

Joins(e) ==
    /\ e.group # Alone
    /\ Len(undo) > floor
    /\ Last(undo).group = e.group
    /\ Len(Last(undo).forward) + Len(e.forward) <= MaxGroup
    /\ Len(Last(undo).inverse) + Len(e.inverse) <= MaxGroup

Joined(last, e) ==
    [forward |-> last.forward \o e.forward,
     inverse |-> e.inverse \o last.inverse,
     group |-> last.group]

\* The floor is a position in the stack and moves down with it.
RecordHistory(e) ==
    /\ redo' = <<>>
    /\ \/ /\ Joins(e)
          /\ undo' = Append(Front(undo), Joined(Last(undo), e))
          /\ UNCHANGED floor
       \/ /\ ~Joins(e)
          /\ undo' = Bounded(Append(undo, e))
          /\ floor' = IF Len(undo) + 1 > MaxHistory /\ floor > 0 THEN floor - 1 ELSE floor

RecordCompleted(id) ==
    answered' = IF id \in ToSet(answered) THEN answered
                ELSE IF Len(answered) = MaxCompleted THEN Append(Tail(answered), id)
                ELSE Append(answered, id)

\* A plan that came out empty moves the revision and leaves no entry.
CommitPlan ==
    LET e == [forward |-> plan.forward, inverse |-> plan.inverse, group |-> plan.group]
    IN /\ Commits(known, e.forward, e.inverse)
       /\ Stores(e.forward, e.inverse)
       /\ \/ e.forward = <<>> /\ UNCHANGED <<floor, undo, redo>>
          \/ e.forward # <<>> /\ RecordHistory(e)
       /\ RecordCompleted(plan.id)
       /\ applied' = [q \in Requests |-> IF plan.id = Asked(q) THEN applied[q] + 1 ELSE applied[q]]

RefusePlan ==
    /\ ~Commits(known, plan.forward, plan.inverse)
    /\ UNCHANGED <<stored, session, applied>>

Finish ==
    /\ plan.busy
    /\ plan' = NoPlan
    /\ CommitPlan \/ RefusePlan
    /\ UNCHANGED <<others, base>>

Undoable == Len(undo) > floor

Undo ==
    /\ plan = NoPlan
    /\ Undoable
    /\ LET e == Last(undo) IN
         /\ Commits(known, e.inverse, e.forward)
         /\ revision < MaxRevision
         /\ Stores(e.inverse, e.forward)
         /\ undo' = Front(undo)
         /\ redo' = Bounded(Append(redo, e))
    /\ UNCHANGED <<floor, answered, plan, others, window>>

Redo ==
    /\ plan = NoPlan
    /\ redo # <<>>
    /\ LET e == Last(redo) IN
         /\ Commits(known, e.forward, e.inverse)
         /\ revision < MaxRevision
         /\ Stores(e.forward, e.inverse)
         /\ redo' = Front(redo)
         /\ undo' = Bounded(Append(undo, e))
    /\ UNCHANGED <<floor, answered, plan, others, window>>

----------------------------------------------------------------------------
(* The other writers.                                                      *)

\* An export: every row it writes out is one the vault has stated.
Export ==
    /\ stated # Present(rows) \cup stated
    /\ stated' = Present(rows) \cup stated
    /\ UNCHANGED <<rows, revision, session, plan, others, window>>

Merged(w, table, affected) ==
    /\ watch[w] = Resting
    /\ Overlap \/ rebuild = Resting
    /\ revision < MaxRevision
    /\ rows' = table
    /\ revision' = revision + 1
    /\ stated' = stated \cup affected
    /\ watch' = [watch EXCEPT ![w] = [at |-> "merged", affected |-> affected]]
    /\ UNCHANGED <<session, plan, rebuild, rebuilds, window>>

\* A newer line for a row, of the page or of the trash.  A row that comes back
\* with the claim it left with keeps its key.
MergeLine(w) ==
    \E x \in Present(rows) :
        \/ \E t \in Texts : Merged(w, [Revived(x) EXCEPT ![x].text = t], {x})
        \/ Merged(w, Trashed(x), {x})

\* A line that is new, or whose place is; the siblings get new keys with it, and
\* those that stay behind the same row are not called changed.
MergePlace(w) ==
    \E x \in Present(rows) \cup Fresh, prev \in Live(rows) \cup {NoRow} :
        /\ x # prev
        /\ LET placed == IF x \in Fresh THEN Begun(x) ELSE Revived(x)
               order == MergedOrder(rows, x, prev)
           IN Merged(w, Respaced(placed, order), Relinked(Ordered(rows, Live(rows)), order, x))

\* A picture's bytes: the revision moves and no row is called changed.
MergePicture(w) == Merged(w, rows, {})

ReadRevision(w) ==
    /\ watch[w].at = "merged"
    /\ watch' = [watch EXCEPT ![w] =
                    [at |-> "read", affected |-> watch[w].affected, revision |-> revision]]
    /\ UNCHANGED <<stored, session, plan, rebuild, rebuilds, window>>

Touches(e, affected) == Names(e) \cap affected # {}

RaisedTooLow(f, affected) ==
    LET touched == {i \in floor + 1 .. Len(undo) : Touches(undo[i], affected)}
    IN IF touched = {} THEN f = floor ELSE f = Max(touched) - 1

\* Every entry at or below the topmost one a merge touches is out of reach.
Raised(f, affected) ==
    /\ \A i \in f + 1 .. Len(undo) : ~Touches(undo[i], affected)
    /\ f # floor => Touches(undo[f], affected)

Redoable(affected) ==
    IF \E i \in 1 .. Len(redo) : Touches(redo[i], affected) THEN <<>> ELSE redo

AbsorbExternal(w) ==
    /\ watch[w].at = "read"
    /\ plan = NoPlan
    /\ known' = watch[w].revision
    /\ \E f \in floor .. Len(undo) : Raised(f, watch[w].affected) /\ floor' = f
    /\ redo' = Redoable(watch[w].affected)
    /\ watch' = [watch EXCEPT ![w] = Resting]
    /\ UNCHANGED <<stored, undo, answered, plan, rebuild, rebuilds, window>>

\* Refused while a row has not gone out.  Every row is replaced by what the folder
\* states, which is at least one line.
RebuildFromVault ==
    /\ rebuild = Resting
    /\ Present(rows) \subseteq stated
    /\ rebuilds < MaxRebuilds
    /\ Overlap \/ \A w \in Watchers : watch[w] = Resting
    /\ revision < MaxRevision
    /\ \E S \in SUBSET Rows \ {{}}, says \in Texts :
         /\ LET read == [x \in Rows |-> IF x \in S
                                       THEN [text |-> says, key |-> Step, live |-> TRUE]
                                       ELSE NoRow]
            IN rows' = Respaced(read, Ordered(read, S))
         /\ stated' = S
    /\ revision' = revision + 1
    /\ rebuild' = [at |-> "rebuilt"]
    /\ rebuilds' = rebuilds + 1
    /\ UNCHANGED <<session, plan, watch, window>>

RebuildReadRevision ==
    /\ rebuild.at = "rebuilt"
    /\ rebuild' = [at |-> "read", revision |-> revision]
    /\ UNCHANGED <<stored, session, plan, watch, rebuilds, window>>

ResetSessionOldNumber ==
    /\ rebuild.at = "read"
    /\ plan = NoPlan
    /\ floor' = 0 /\ undo' = <<>> /\ redo' = <<>>
    /\ rebuild' = Resting
    /\ UNCHANGED <<stored, known, answered, plan, watch, rebuilds, window>>

ResetSession ==
    /\ rebuild.at = "read"
    /\ plan = NoPlan
    /\ known' = rebuild.revision
    /\ floor' = 0 /\ undo' = <<>> /\ redo' = <<>>
    /\ rebuild' = Resting
    /\ UNCHANGED <<stored, answered, plan, watch, rebuilds, window>>

----------------------------------------------------------------------------

Use ==
    \/ \E q \in Requests : Execute(q)
    \/ \E x \in Rows : RestoreConflict(x)
    \/ Finish \/ Undo \/ Redo

Watch(w) ==
    \/ MergeLine(w) \/ MergePlace(w) \/ MergePicture(w)
    \/ ReadRevision(w) \/ AbsorbExternal(w)

Rebuild == RebuildFromVault \/ RebuildReadRevision \/ ResetSession

Next == Use \/ Export \/ (\E w \in Watchers : Watch(w)) \/ Rebuild

Spec == Init /\ [][Next]_vars

----------------------------------------------------------------------------
(* Properties.                                                             *)

\* service.rs:43: what the session and the storage hold between two steps.
TypeOK ==
    /\ rows \in [Rows -> Node \cup {NoRow}]
    /\ stated \subseteq Rows
    /\ revision \in Nat /\ known \in Nat
    /\ floor \in Nat
    /\ undo \in Seq(Entry) /\ redo \in Seq(Entry)
    /\ \A i \in 1 .. Len(answered) : answered[i].kind \in {"window", "restore"}
    /\ plan.busy \in BOOLEAN
    /\ \A w \in Watchers : watch[w].at \in {"rest", "merged", "read"}
    /\ rebuild.at \in {"rest", "rebuilt", "read"}

Quiet == rebuild = Resting /\ \A w \in Watchers : watch[w] = Resting

\* service.rs:441 and :554: whatever moved the stored revision, the session is
\* told of it, so that once nobody is on the way to tell it the next command
\* is not refused.
NeverLeftBehind == Quiet => known = revision

\* What a row says to a reader: nothing when it is not there or in the trash.
Says(row) == IF row = NoRow THEN {}
             ELSE IF row.live THEN {row.text} ELSE {}

\* What the last of some mutations leaves a row saying.
Leaves(mutations, x) ==
    Says(mutations[SelectLastInSeq(mutations, LAMBDA m : m.id = x)].row)

\* service.rs:46: an undo replays an inverse only against the state it was
\* recorded against.  For every entry within reach, a row says now what the
\* entry left it saying, or what the next entry to be replayed over it found.
\* service.rs:519: and so for a redo, which replays a forward.
HistoryIsOfOwnWork ==
    known = revision =>
        /\ \A i \in floor + 1 .. Len(undo) : \A x \in Names(undo[i]) :
             LET later == {j \in i + 1 .. Len(undo) : x \in Names(undo[j])}
             IN IF later = {} THEN Leaves(undo[i].forward, x) = Says(rows[x])
                ELSE Leaves(undo[i].forward, x) = Leaves(undo[Min(later)].inverse, x)
        /\ \A i \in 1 .. Len(redo) : \A x \in Names(redo[i]) :
             LET sooner == {j \in i + 1 .. Len(redo) : x \in Names(redo[j])}
             IN IF sooner = {} THEN Leaves(redo[i].inverse, x) = Says(rows[x])
                ELSE Leaves(redo[i].inverse, x) = Leaves(redo[Min(sooner)].forward, x)

\* What can be undone or redone goes through: the rows a patch updates are
\* there and those it creates are not.
WithinReachGoesThrough ==
    known = revision =>
        /\ Undoable => Commits(known, Last(undo).inverse, Last(undo).forward)
        /\ redo # <<>> => Commits(known, Last(redo).forward, Last(redo).inverse)

\* service.rs:94: the floor is a position in the stack.  A redo pushes onto it
\* without moving the floor, which is right only while it never drops an entry.
HistoryWithinLimits == floor <= Len(undo) /\ Len(undo) + Len(redo) <= MaxHistory

\* A request sent again, however late, is not applied again.
AppliedOnce == \A q \in Requests : applied[q] <= 1

\* service.rs:71: what the user did last is theirs to take back, after a merge
\* and at the limit of the history too.
YoursToTakeBack ==
    [][Finish /\ revision' # revision /\ plan.forward # <<>> =>
          Len(undo') > floor' /\ IsSuffix(plan.forward, Last(undo').forward)]_vars

\* merger.rs:371: "Two live siblings on one key is a tree the domain refuses,
\* and then nothing can be typed at all."
NoTwoSiblingsOnOneKey == StrictlyOrdered(rows)
=============================================================================
