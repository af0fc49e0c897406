------------------------------ MODULE VaultSync ------------------------------
(***************************************************************************)
(* One page and the trash, on several devices that share a vault folder.   *)
(* Each device has its rows, the marks of what it owes the vault, and its  *)
(* own copy of the two files; a transport carries the files.               *)
(*                                                                         *)
(* A device's database is one worker thread, so a merge is one step and an *)
(* export pass is a run of steps nothing of the database comes between.    *)
(* The folder keeps moving all the while, and the app can die anywhere.    *)
(*                                                                         *)
(* A file is the function from nodes to the lines it states, with the mark *)
(* its writer put in the frontmatter (completeness_bound); two files have  *)
(* the same hash when they are equal.  The page's own heading line, the    *)
(* place claims and the tree below the page are not here.                  *)
(***************************************************************************)
EXTENDS Merger, FiniteSets

CONSTANTS
    Devices,
    Nodes,
    Old,           \* the nodes every device has at the start
    Author,        \* the device that wrote them
    MaxWall,       \* bound: the wall clock an edit or a merge reads
    Budgets,       \* bounds: changes made in the app, over all devices, files
                   \* changed in an editor, deaths of the app, nodes and
                   \* contents in play
    Hands,         \* what somebody does to a file: "edit_page", "edit_trash", "erase"
    Restores,      \* whether the user takes deletions back
    TrashFirst,    \* whether the page's id sorts after 'yonalist-trash'
    WindowOpen     \* whether the folder moves between an export's look and its rename

ASSUME VaultAssumption ==
    /\ Devices \subseteq 1 .. MaxDevice
    /\ Nodes \subseteq Nat \ {0}
    /\ Old \subseteq Nodes
    /\ Author \in Devices
    /\ 1 \in Contents
    /\ 1 <= MaxMillis
    /\ MaxWall \in Nat
    /\ Budgets \subseteq [edits : Nat, hands : Nat, crashes : Nat,
                        nodes : SUBSET Nodes, contents : SUBSET Contents]
    /\ Hands \subseteq {"edit_page", "edit_trash", "erase"}
    /\ Restores \in BOOLEAN
    /\ TrashFirst \in BOOLEAN
    /\ WindowOpen \in BOOLEAN

Page == "page"
Trash == "trash"
Docs == {Page, Trash}

\* The page's own dirty mark, beside those of its nodes.
PageMark == 0

Line == Version \cup {None}
File == [lines : [Nodes -> Line], bound : Stamp]

\* Nothing stated.  For the trash this is no file at all.
Empty == [lines |-> [n \in Nodes |-> None], bound |-> Blank]

Idle == [busy |-> FALSE]

VARIABLES
    row,        \* notes_nodes: [device -> [node -> version]]
    dirty,      \* sync_dirty_nodes
    recorded,   \* sync_documents.exported_hash: [device -> [doc -> file]]
    reading,    \* sync_node_exports: what the page said of a node
    log,        \* sync_conflict_log: the versions that lost
    clock,      \* hlc::Clock
    file,       \* the folder: [device -> [doc -> file]]
    copies,     \* conflicted copies in the folder: [device -> set of <<doc, file>>]
    arriving,   \* what the watcher has read and the worker not merged, or Idle
    pass,       \* the export pass under way, or Idle
    synced,     \* the transport: the version a device last sent or received
    cloud,      \* the transport: the version it hands out
    left,       \* what is left of a budget
    told,       \* history: the newest stamp of a node a device has written in a
                \* file or read in one
    slipped,    \* history: an export has put a row back behind that
    died        \* history: the app has died

database == <<row, dirty, recorded, reading, log>>
transport == <<copies, synced, cloud>>
history == <<told, slipped, died>>
vars == <<row, dirty, recorded, reading, log, clock, file, copies, arriving,
          pass, synced, cloud, left, told, slipped, died>>

NoReading == [content |-> 0, deleted |-> FALSE, stamp |-> Blank]

Arrival == [busy : {TRUE}, doc : Docs, file : File, copy : BOOLEAN]

\* A pass keeps what a rollback brings back.
Pass == [busy : {TRUE}, todo : SUBSET Docs, writing : BOOLEAN,
         row : [Nodes -> Line], dirty : SUBSET (Nodes \cup {PageMark}),
         recorded : [Docs -> File], reading : [Nodes -> Line]]

TypeOK ==
    /\ row \in [Devices -> [Nodes -> Line]]
    /\ dirty \in [Devices -> SUBSET (Nodes \cup {PageMark})]
    /\ recorded \in [Devices -> [Docs -> File]]
    /\ reading \in [Devices -> [Nodes -> Line]]
    /\ log \in [Devices -> SUBSET (Nodes \X Version)]
    /\ clock \in [Devices -> Reading]
    /\ file \in [Devices -> [Docs -> File]]
    /\ copies \in [Devices -> SUBSET (Docs \X File)]
    /\ arriving \in [Devices -> Arrival \cup {Idle}]
    /\ pass \in [Devices -> Pass \cup {Idle}]
    /\ synced \in [Devices -> [Docs -> File]]
    /\ cloud \in [Docs -> File]
    /\ left \in [edits : Nat, hands : Nat, crashes : Nat,
                nodes : SUBSET Nodes, contents : SUBSET Contents]
    /\ told \in [Devices -> [Nodes -> Stamp]]
    /\ slipped \in BOOLEAN
    /\ died \in BOOLEAN

----------------------------------------------------------------------------
(* Files.                                                                  *)

\* The newest of some stamps, Blank of none.
Latest(stamps) ==
    IF \E s \in stamps : \A t \in stamps : AtMost(t, s)
    THEN CHOOSE s \in stamps : \A t \in stamps : AtMost(t, s)
    ELSE Blank

\* What the file of a document states of these rows: a page its live nodes, the
\* trash the deleted ones.
Render(rows, doc) ==
    LET stated == {n \in Nodes : Known(rows[n]) /\ (rows[n].deleted <=> doc = Trash)} IN
    [lines |-> [n \in Nodes |-> IF n \in stated THEN rows[n] ELSE None],
     bound |-> Latest({rows[n].stamp : n \in stated})]

\* completeness_bound: the mark the file states, or the newest line if newer.
Bound(f) == Latest({f.bound} \cup {f.lines[n].stamp : n \in Nodes})

Stated(f) == {n \in Nodes : Known(f.lines[n])}

\* pending_documents
Pending(d) ==
    (IF \E n \in dirty[d] : n = PageMark \/ Known(row[d][n]) THEN {Page} ELSE {})
    \cup
    (IF \/ \E n \in dirty[d] \ {PageMark} : row[d][n].deleted
        \/ dirty[d] # {} /\ recorded[d][Trash] # Empty
     THEN {Trash} ELSE {})

----------------------------------------------------------------------------
(* Start: the author has written the old nodes down and every device has    *)
(* merged them; nothing is owed.                                            *)

First == [content |-> 1, deleted |-> FALSE,
          stamp |-> [millis |-> 1, counter |-> 0, device |-> Author]]

AtFirst == [n \in Nodes |-> IF n \in Old THEN First ELSE None]

FilesAtFirst == [doc \in Docs |-> Render(AtFirst, doc)]

Init ==
    /\ row = [d \in Devices |-> AtFirst]
    /\ dirty = [d \in Devices |-> {}]
    /\ recorded = [d \in Devices |-> FilesAtFirst]
    /\ reading = [d \in Devices |-> IF d = Author THEN AtFirst ELSE [n \in Nodes |-> NoReading]]
    /\ log = [d \in Devices |-> {}]
    /\ clock = [d \in Devices |-> ReadingOf(First.stamp)]
    /\ file = [d \in Devices |-> FilesAtFirst]
    /\ copies = [d \in Devices |-> {}]
    /\ arriving = [d \in Devices |-> Idle]
    /\ pass = [d \in Devices |-> Idle]
    /\ synced = [d \in Devices |-> FilesAtFirst]
    /\ cloud = FilesAtFirst
    /\ left \in Budgets
    /\ told = [d \in Devices |-> [n \in Nodes |-> AtFirst[n].stamp]]
    /\ slipped = FALSE
    /\ died = FALSE

----------------------------------------------------------------------------
(* The user.                                                               *)

\* A row written by a command: the triggers stamp it and mark it and its page.
Write(d, n, content, deleted, wall) ==
    LET next == NowAt(clock[d], wall)
        v == [content |-> content, deleted |-> deleted, stamp |-> StampBy(d, next)]
    IN
    /\ ~pass[d].busy
    /\ left.edits > 0
    /\ Encodable(next)
    /\ row' = [row EXCEPT ![d][n] = v]
    /\ clock' = [clock EXCEPT ![d] = next]
    /\ dirty' = [dirty EXCEPT ![d] = @ \cup {n, PageMark}]
    /\ left' = [left EXCEPT !.edits = @ - 1]
    /\ UNCHANGED <<recorded, reading, log, file, arriving, pass>>
    /\ UNCHANGED history
    /\ UNCHANGED transport

\* A node is created by one device: its id is drawn once.
Edit(d, n, content, wall) ==
    /\ Known(row[d][n]) \/ \A e \in Devices : ~Known(row[e][n])
    /\ ~row[d][n].deleted
    /\ content # row[d][n].content
    /\ Write(d, n, content, FALSE, wall)

Delete(d, n, wall) ==
    /\ Known(row[d][n]) /\ ~row[d][n].deleted
    /\ Write(d, n, row[d][n].content, TRUE, wall)

Restore(d, n, wall) ==
    /\ Restores
    /\ Known(row[d][n]) /\ row[d][n].deleted
    /\ Write(d, n, row[d][n].content, FALSE, wall)

\* Whether the folder of a device can move now: always, or only outside the
\* window between an export's look at a file and its rename.
FolderMoves(d) == WindowOpen \/ ~(pass[d].busy /\ pass[d].writing)

\* A line of a file is changed in an editor, its stamp left where it was.
HandEdit(d, doc, n, content) ==
    /\ left.hands > 0
    /\ (IF doc = Page THEN "edit_page" ELSE "edit_trash") \in Hands
    /\ FolderMoves(d)
    /\ n \in Stated(file[d][doc])
    /\ content # file[d][doc].lines[n].content
    /\ file' = [file EXCEPT ![d][doc].lines[n].content = content]
    /\ left' = [left EXCEPT !.hands = @ - 1]
    /\ UNCHANGED database
    /\ UNCHANGED transport
    /\ UNCHANGED <<clock, arriving, pass>>
    /\ UNCHANGED history

\* A line of a page is erased in an editor: not a deletion, which only the
\* trash can state.
HandErase(d, n) ==
    /\ left.hands > 0
    /\ "erase" \in Hands
    /\ FolderMoves(d)
    /\ n \in Stated(file[d][Page])
    /\ file' = [file EXCEPT ![d][Page].lines[n] = None]
    /\ left' = [left EXCEPT !.hands = @ - 1]
    /\ UNCHANGED database
    /\ UNCHANGED transport
    /\ UNCHANGED <<clock, arriving, pass>>
    /\ UNCHANGED history

----------------------------------------------------------------------------
(* The export pass: export_pending, one transaction over both documents.   *)

\* What the pass under way holds, or one that starts now.
Under(d) ==
    IF pass[d].busy THEN pass[d]
    ELSE [busy |-> TRUE, todo |-> Pending(d), writing |-> FALSE,
          row |-> row[d], dirty |-> dirty[d],
          recorded |-> recorded[d], reading |-> reading[d]]

\* The documents of a pass come in the order of their ids.
Turn(p) == IF p.todo = {Page, Trash} THEN (IF TrashFirst THEN Trash ELSE Page)
           ELSE CHOOSE doc \in Docs : doc \in p.todo

\* settle_readings: a node back at what the page said takes back its stamp.
Settled(d) ==
    [n \in Nodes |->
        IF Known(reading[d][n]) /\ Same(row[d][n], reading[d][n])
        THEN reading[d][n] ELSE row[d][n]]

\* Mutants: a page's export clears every mark, and none.
ClearedAll(rows, marks, doc) == IF doc = Page THEN {} ELSE marks
ClearedNone(rows, marks, doc) == marks

\* clear_dirty: the page's live nodes and its own mark, the trash's deleted ones.
Cleared(rows, marks, doc) ==
    {n \in marks : IF n = PageMark THEN doc # Page
                   ELSE rows[n].deleted <=> doc = Page}

\* Mutant: the first reading of a node is kept for good.
RecordedOnce(rows, readings) ==
    [n \in Nodes |-> IF Known(readings[n]) THEN readings[n] ELSE rows[n]]

\* record_readings: a reading is replaced when the state it is of has moved.
Recorded(rows, readings) ==
    [n \in Nodes |->
        IF Known(rows[n]) /\ ~Same(rows[n], readings[n]) THEN rows[n] ELSE readings[n]]

\* may_write, on what stands at the path.
AlreadySaid(d, mine, doc) == file[d][doc] = mine

\* Mutant: the file is replaced unread.
OursWhatever(d, doc) == TRUE

Ours(d, doc) ==
    \/ file[d][doc] = recorded[d][doc]
    \/ doc = Trash /\ file[d][doc] = Empty

\* The document is said: its record, its marks and its readings.
Said(d, rows, doc) ==
    /\ recorded' = [recorded EXCEPT ![d][doc] = Render(rows, doc)]
    /\ dirty' = [dirty EXCEPT ![d] = Cleared(rows, @, doc)]
    /\ reading' = IF doc = Page
                  THEN [reading EXCEPT ![d] = Recorded(rows, @)] ELSE reading

\* A document needs no write: the next one, or the commit, which nothing that
\* anybody could see separates from this look.
Passed(p, doc) ==
    IF p.todo = {doc} THEN Idle ELSE [p EXCEPT !.todo = @ \ {doc}]

\* export_document and export_trash up to the write: the look at what stands at
\* the path.  The first look of a pass begins it.
ExportLook(d) ==
    LET p == Under(d)
        doc == Turn(p)
        rows == IF doc = Page THEN Settled(d) ELSE row[d]
        mine == Render(rows, doc)
    IN
    /\ p.todo # {} /\ ~p.writing
    /\ row' = [row EXCEPT ![d] = rows]
    /\ \/ /\ AlreadySaid(d, mine, doc)
          /\ Said(d, rows, doc)
          /\ pass' = [pass EXCEPT ![d] = Passed(p, doc)]
       \/ /\ ~AlreadySaid(d, mine, doc) /\ Ours(d, doc)
          /\ pass' = [pass EXCEPT ![d] = [p EXCEPT !.writing = TRUE]]
          /\ UNCHANGED <<recorded, dirty, reading>>
       \/ /\ ~AlreadySaid(d, mine, doc) /\ ~Ours(d, doc)
          /\ pass' = [pass EXCEPT ![d] = Passed(p, doc)]
          /\ UNCHANGED <<recorded, dirty, reading>>
    /\ UNCHANGED transport
    /\ UNCHANGED <<log, clock, file, arriving, left, told, died>>
    /\ slipped' = (slipped \/ \E n \in Nodes : Before(rows[n].stamp, told[d][n]))

\* write_atomic, or the trash removed: whatever stands there is replaced.
ExportRename(d) ==
    LET doc == Turn(pass[d])
        mine == Render(row[d], doc)
    IN
    /\ pass[d].busy /\ pass[d].writing
    /\ file' = [file EXCEPT ![d][doc] = mine]
    /\ Said(d, row[d], doc)
    /\ told' = [told EXCEPT ![d] = [n \in Nodes |-> Latest({told[d][n], mine.lines[n].stamp})]]
    /\ pass' = [pass EXCEPT ![d] =
           [pass[d] EXCEPT !.todo = pass[d].todo \ {doc}, !.writing = FALSE]]
    /\ UNCHANGED transport
    /\ UNCHANGED <<row, log, clock, arriving, left, slipped, died>>

\* The transaction commits.  Until here a crash takes back all but the files.
ExportCommit(d) ==
    /\ pass[d].busy /\ pass[d].todo = {}
    /\ pass' = [pass EXCEPT ![d] = Idle]
    /\ UNCHANGED database
    /\ UNCHANGED transport
    /\ UNCHANGED <<clock, file, arriving, left>>
    /\ UNCHANGED history

----------------------------------------------------------------------------
(* The watcher and the merge.                                              *)

\* consider: the record is the committed one, the bytes are those of now.  The
\* watch thread has one file in flight.
Consider(d, doc) ==
    LET known == IF pass[d].busy THEN pass[d].recorded[doc] ELSE recorded[d][doc] IN
    /\ ~arriving[d].busy
    /\ file[d][doc] # known
    /\ doc = Trash => file[d][doc] # Empty
    /\ arriving' = [arriving EXCEPT ![d] =
           [busy |-> TRUE, doc |-> doc, file |-> file[d][doc], copy |-> FALSE]]
    /\ UNCHANGED database
    /\ UNCHANGED transport
    /\ UNCHANGED <<clock, file, pass, left>>
    /\ UNCHANGED history

ConsiderCopy(d) ==
    /\ ~arriving[d].busy
    /\ \E copy \in copies[d] :
           arriving' = [arriving EXCEPT ![d] =
               [busy |-> TRUE, doc |-> copy[1], file |-> copy[2], copy |-> TRUE]]
    /\ UNCHANGED database
    /\ UNCHANGED transport
    /\ UNCHANGED <<clock, file, pass, left>>
    /\ UNCHANGED history

\* The line of a node as the file states it: a page states live nodes, the
\* trash deleted ones.
Incoming(f, doc, n) == [f.lines[n] EXCEPT !.deleted = (doc = Trash)]

\* Mutant: a line missing from a file is taken for what its writer had.
MissingNever(rows, f) == FALSE

\* document_is_missing_nodes: live, no newer than the file's own mark, not in it.
Missing(rows, f) ==
    \E n \in Nodes : /\ Known(rows[n]) /\ ~rows[n].deleted
                     /\ rows[n].stamp # Blank
                     /\ AtMost(rows[n].stamp, Bound(f))
                     /\ n \notin Stated(f)

\* merge_page and merge_trash, one transaction.  `heard` is the clock before
\* each line, in the order of the lines; a stamp minted for a line moves it on.
Merge(d, wall) ==
    LET a == arriving[d]
        lines == [n \in Nodes |-> Incoming(a.file, a.doc, n)]
        here == Stated(a.file)
        drifted == [n \in Nodes |-> BeyondDrift(lines[n].stamp, wall)]
        Mints(n) == n \in here /\ Issues(row[d][n], lines[n], FALSE, drifted[n], d)
        top == [n \in Nodes |->
                  Latest({lines[m].stamp : m \in {k \in here : k <= n /\ ~drifted[k]}})]
        heard == [n \in Nodes |-> Observe(clock[d], top[n])]
        fresh == [n \in Nodes |-> NowAt(heard[n], wall)]
        after == [n \in Nodes |->
                    IF n \in here
                    THEN Merged(row[d][n], lines[n], FALSE, drifted[n], d, StampBy(d, fresh[n]))
                    ELSE row[d][n]]
        written == {n \in here : Writes(row[d][n], lines[n], FALSE, drifted[n], d)}
        behind == \E n \in here : WritesBack(row[d][n], lines[n], FALSE, drifted[n], d)
    IN
    /\ ~pass[d].busy
    /\ a.busy
    /\ Cardinality({n \in Nodes : Mints(n)}) <= 1
    /\ \A n \in Nodes : Mints(n) => Encodable(fresh[n])
    /\ row' = [row EXCEPT ![d] = after]
    /\ clock' = [clock EXCEPT ![d] =
           Observe(Observe(@, Latest({top[n] : n \in Nodes})),
                   Latest({StampBy(d, fresh[n]) : n \in {k \in Nodes : Mints(k)}}))]
    /\ dirty' = [dirty EXCEPT ![d] =
           (@ \ written)
           \cup (IF a.doc = Page /\ (behind \/ Missing(after, a.file) \/ a.copy)
                 THEN {PageMark} ELSE {})
           \cup (IF a.doc = Trash /\ a.copy THEN here ELSE {})]
    /\ recorded' = IF a.copy THEN recorded
                   ELSE [recorded EXCEPT ![d][a.doc] = a.file]
    /\ reading' = [reading EXCEPT ![d] =
           [n \in Nodes |-> IF n \in written THEN NoReading ELSE @[n]]]
    /\ log' = [log EXCEPT ![d] = @ \cup
           {<<n, row[d][n]>> : n \in {k \in here :
               RowDefeated(row[d][k], lines[k], k \in dirty[d], FALSE, drifted[k], d)}} \cup
           {<<n, lines[n]>> : n \in {k \in here :
               LineDefeated(row[d][k], lines[k], FALSE, drifted[k], d)}}]
    /\ copies' = IF a.copy THEN [copies EXCEPT ![d] = @ \ {<<a.doc, a.file>>}] ELSE copies
    /\ arriving' = [arriving EXCEPT ![d] = Idle]
    /\ told' = [told EXCEPT ![d] = [n \in Nodes |->
           IF n \in here /\ ~drifted[n] THEN Latest({@[n], lines[n].stamp}) ELSE @[n]]]
    /\ UNCHANGED <<file, pass, synced, cloud, left, slipped, died>>

----------------------------------------------------------------------------
(* The app dies and starts again: the pass is rolled back, what it wrote to *)
(* the folder stays, and the clock is rebuilt from the rows.                *)

Crash(d) ==
    /\ left.crashes > 0
    /\ IF pass[d].busy
       THEN /\ row' = [row EXCEPT ![d] = pass[d].row]
            /\ dirty' = [dirty EXCEPT ![d] = pass[d].dirty]
            /\ recorded' = [recorded EXCEPT ![d] = pass[d].recorded]
            /\ reading' = [reading EXCEPT ![d] = pass[d].reading]
       ELSE UNCHANGED <<row, dirty, recorded, reading>>
    /\ clock' = [clock EXCEPT ![d] = ReadingOf(Latest({row'[d][n].stamp : n \in Nodes}))]
    /\ arriving' = [arriving EXCEPT ![d] = Idle]
    /\ pass' = [pass EXCEPT ![d] = Idle]
    /\ left' = [left EXCEPT !.crashes = @ - 1]
    /\ UNCHANGED transport
    /\ UNCHANGED <<log, file>>
    /\ died' = TRUE
    /\ UNCHANGED <<told, slipped>>

----------------------------------------------------------------------------
(* The transport, external: iCloud or Syncthing.  A version nobody else has *)
(* seen is never dropped: it stays beside the winner as a conflicted copy.  *)

Upload(d, doc) ==
    /\ file[d][doc] # synced[d][doc]
    /\ cloud[doc] = synced[d][doc] \/ (doc = Trash /\ cloud[doc] = Empty)
    /\ cloud' = [cloud EXCEPT ![doc] = file[d][doc]]
    /\ synced' = [synced EXCEPT ![d][doc] = file[d][doc]]
    /\ UNCHANGED database
    /\ UNCHANGED <<clock, file, copies, arriving, pass, left>>
    /\ UNCHANGED history

Download(d, doc) ==
    /\ FolderMoves(d)
    /\ cloud[doc] # synced[d][doc]
    /\ \/ file[d][doc] \in {synced[d][doc], cloud[doc]} /\ UNCHANGED copies
       \/ /\ file[d][doc] \notin {synced[d][doc], cloud[doc]}
          /\ ~(doc = Trash /\ cloud[doc] = Empty)
          /\ copies' = [copies EXCEPT ![d] = @ \cup
                 (IF doc = Trash /\ file[d][doc] = Empty THEN {} ELSE {<<doc, file[d][doc]>>})]
    /\ file' = [file EXCEPT ![d][doc] = cloud[doc]]
    /\ synced' = [synced EXCEPT ![d][doc] = cloud[doc]]
    /\ UNCHANGED database
    /\ UNCHANGED <<clock, arriving, pass, cloud, left>>
    /\ UNCHANGED history

----------------------------------------------------------------------------

Use(d) ==
    \E n \in left.nodes, wall \in 0 .. MaxWall :
        \/ \E c \in left.contents : Edit(d, n, c, wall)
        \/ Delete(d, n, wall)
        \/ Restore(d, n, wall)

ByHand(d) ==
    \E n \in left.nodes :
        \/ \E doc \in Docs, c \in left.contents : HandEdit(d, doc, n, c)
        \/ HandErase(d, n)

Export(d) == ExportLook(d) \/ ExportRename(d) \/ ExportCommit(d)

Watch(d) == (\E doc \in Docs : Consider(d, doc)) \/ ConsiderCopy(d)

MergeStep(d) == \E wall \in 0 .. MaxWall : Merge(d, wall)

Transport(d) == \E doc \in Docs : Upload(d, doc) \/ Download(d, doc)

Next ==
    \E d \in Devices :
        \/ Use(d) \/ ByHand(d) \/ Export(d) \/ Watch(d) \/ MergeStep(d)
        \/ Crash(d) \/ Transport(d)

Spec == Init /\ [][Next]_vars

\* The watcher sweeps every minute, and the worker takes what waits in turn, so
\* that no run of exports keeps a merge waiting for ever.  Two things are assumed:
\* that what is owed is tried again (SyncRuntime has what the threads do for it),
\* and that the transport delivers in the end, between two exports too.
Fairness ==
    \A d \in Devices :
        /\ WF_vars(Export(d))
        /\ WF_vars(ConsiderCopy(d))
        /\ SF_vars(MergeStep(d))
        /\ \A doc \in Docs : /\ WF_vars(Consider(d, doc))
                             /\ WF_vars(Upload(d, doc))
                             /\ SF_vars(Download(d, doc))

LiveSpec == Spec /\ Fairness

----------------------------------------------------------------------------
(* Properties.                                                             *)

\* Nothing is owed, unread or on its way.
Quiet ==
    \A d \in Devices :
        /\ dirty[d] = {} /\ copies[d] = {}
        /\ ~pass[d].busy /\ ~arriving[d].busy
        /\ \A doc \in Docs :
             /\ file[d][doc] = recorded[d][doc] \/ (doc = Trash /\ file[d][doc] = Empty)
             /\ file[d][doc] = synced[d][doc]
             /\ synced[d][doc] = cloud[doc]

Agreed == \A d, e \in Devices : row[d] = row[e]

\* sync-spec section 8, rule 2: once everything has been carried and read, every
\* device says the same, whatever was edited, deleted or changed by hand; but
\* where an edit taken back has taken its row too far back.
QuietMeansAgreedUnlessTakenBack == Quiet /\ ~slipped => Agreed

\* And the page's file states the rows: no mark is dropped while the file is
\* behind, a line missing from it included.
QuietMeansStated ==
    Quiet /\ ~slipped =>
        \A d \in Devices : file[d][Page].lines = Render(row[d], Page).lines

\* sync-spec section 8, rule 2, the other way: with nobody typing any more the
\* devices stop writing to each other.
ComesToRest == <>[]Quiet

\* export.rs:880: a reading is put back as what the files still carry, so no
\* row falls behind a stamp this device has written in a file or read in one;
\* a death, which forgets what was written, aside.
NeverBehindItsFiles == slipped => died

\* A merge that takes away an edit no file carries leaves it in the log.
OverwrittenEditIsLogged ==
    [][\A d \in Devices : MergeStep(d) =>
          \A n \in dirty[d] \cap Nodes :
              \/ AtMost(row[d][n].stamp, told[d][n])
              \/ Same(row'[d][n], row[d][n])
              \/ <<n, row[d][n]>> \in log'[d]]_vars

\* sync-spec:410 and export.rs:10: an export replaces only bytes it has dealt
\* with: what it wrote itself, or what has been merged.
NeverReplacesUnread ==
    [][\A d \in Devices : ExportRename(d) =>
          \A doc \in Docs :
              \/ file'[d][doc] = file[d][doc]
              \/ file[d][doc] = recorded[d][doc]
              \/ doc = Trash /\ file[d][doc] = Empty]_vars
=============================================================================
