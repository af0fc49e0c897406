-------------------------- MODULE VaultSyncProofs --------------------------
(***************************************************************************)
(* For any devices and nodes, any edits, hand edits and deaths and any     *)
(* order of export, merge and transport: every table and file keeps its    *)
(* shape, a merge takes no edit away without the log keeping it, and,      *)
(* where the folder stands still in the window of an export, an export     *)
(* replaces only what it has dealt with.                                   *)
(***************************************************************************)
EXTENDS VaultSync, HlcProofs

-----------------------------------------------------------------------------
(* Versions, lines and files.                                              *)

\* The parts of a line, and of no line.
LEMMA LineParts ==
    /\ None \in Line /\ None.stamp = Blank /\ Blank \in Stamp /\ NoReading = None
    /\ ~Known(None)
    /\ \A v \in Version : /\ v.content \in Contents /\ v.deleted \in BOOLEAN /\ v.stamp \in Stamp
                          /\ Known(v)
    /\ \A v \in Line : v.stamp \in Stamp /\ (Known(v) => v \in Version) /\ (~Known(v) => v = None)
<1>1. Blank \in Stamp
  BY BlankLeast
<1>2. None \in Line /\ None.stamp = Blank /\ NoReading = None /\ None.content = 0
  BY DEF None, Line, NoReading
<1>3. ASSUME NEW v \in Version
      PROVE  v.content \in Contents /\ v.deleted \in BOOLEAN /\ v.stamp \in Stamp /\ Known(v)
  BY ContentsAssumption DEF Version, Known
<1>4. QED
  BY <1>1, <1>2, <1>3 DEF Line, Known

\* The newest of some stamps is a stamp.
LEMMA LatestTyped ==
    ASSUME NEW S, S \subseteq Stamp
    PROVE  Latest(S) \in Stamp
BY LineParts DEF Latest

\* The newer of two stamps is no older than either.
LEMMA LatestOfTwo ==
    ASSUME NEW s \in Stamp, NEW t \in Stamp
    PROVE  /\ Latest({s, t}) \in Stamp
           /\ AtMost(s, Latest({s, t})) /\ AtMost(t, Latest({s, t}))
<1>1. \E u \in {s, t} : \A v \in {s, t} : AtMost(v, u)
  BY BeforeTotal DEF AtMost
<1>2. /\ Latest({s, t}) \in {s, t}
      /\ \A v \in {s, t} : AtMost(v, Latest({s, t}))
  BY <1>1 DEF Latest
<1>3. QED
  BY <1>2

\* A version under another stamp, with another text, or with another mark.
LEMMA VersionWith ==
    ASSUME NEW v \in Version
    PROVE  /\ \A s \in Stamp : /\ [v EXCEPT !.stamp = s] \in Version
                               /\ [v EXCEPT !.stamp = s].stamp = s
           /\ \A c \in Contents : /\ [v EXCEPT !.content = c] \in Version
                                  /\ [v EXCEPT !.content = c].stamp = v.stamp
           /\ \A b \in BOOLEAN : /\ [v EXCEPT !.deleted = b] \in Version
                                 /\ [v EXCEPT !.deleted = b].stamp = v.stamp
BY DEF Version

\* What a file states of some rows is a file.
LEMMA RenderTyped ==
    ASSUME NEW rows \in [Nodes -> Line], NEW doc
    PROVE  /\ Render(rows, doc) \in File
           /\ \A n \in Nodes : Render(rows, doc).lines[n] \in {rows[n], None}
<1> DEFINE stated == {n \in Nodes : Known(rows[n]) /\ (rows[n].deleted <=> doc = Trash)}
           lines == [n \in Nodes |-> IF n \in stated THEN rows[n] ELSE None]
           bound == Latest({rows[n].stamp : n \in stated})
<1>1. Render(rows, doc) = [lines |-> lines, bound |-> bound]
  BY DEF Render
<1>2. lines \in [Nodes -> Line] /\ \A n \in Nodes : lines[n] \in {rows[n], None}
  BY LineParts
<1>3. {rows[n].stamp : n \in stated} \subseteq Stamp
  BY LineParts
<1>4. bound \in Stamp
  BY <1>3, LatestTyped
<1> HIDE DEF lines, bound
<1>5. QED
  BY <1>1, <1>2, <1>4 DEF File

\* A stamp of one of the devices.
LEMMA StampTyped ==
    ASSUME NEW d \in Devices, NEW c \in Reading, Encodable(c)
    PROVE  StampBy(d, c) \in Stamp /\ StampBy(d, c).device = d
<1>1. d \in 0 .. MaxDevice
  BY VaultAssumption, HlcAssumption
<1>2. QED
  BY <1>1, HlcAssumption DEF StampBy, Stamp, Reading, Encodable

\* The reading of a stamp.
LEMMA ReadingTyped ==
    ASSUME NEW s \in Stamp
    PROVE  ReadingOf(s) \in Reading
BY HlcAssumption DEF ReadingOf, Reading, Stamp

\* The files of the start.
LEMMA FirstTyped ==
    /\ First \in Version /\ AtFirst \in [Nodes -> Line]
    /\ FilesAtFirst \in [Docs -> File]
    /\ \A doc \in Docs, n \in Nodes : FilesAtFirst[doc].lines[n] \in {AtFirst[n], None}
<1>1. First.stamp \in Stamp
  <2>1. Author \in 0 .. MaxDevice
    BY VaultAssumption, HlcAssumption
  <2>2. QED
    BY <2>1, VaultAssumption, HlcAssumption DEF First, Stamp
<1>2. First \in Version
  BY <1>1, VaultAssumption DEF First, Version
<1>3. AtFirst \in [Nodes -> Line]
  BY <1>2, LineParts DEF AtFirst, Line
<1>4. QED
  BY <1>2, <1>3, RenderTyped DEF FilesAtFirst

-----------------------------------------------------------------------------
(* The export's parts.                                                     *)

\* The documents of a pass come one at a time, each from those left.
LEMMA TurnInTodo ==
    ASSUME NEW p, p.todo \subseteq Docs, p.todo # {}
    PROVE  Turn(p) \in p.todo /\ Turn(p) \in Docs
<1>1. \E doc \in Docs : doc \in p.todo
  OBVIOUS
<1>2. QED
  BY <1>1 DEF Turn, Docs

\* The parts of a pass, and of none.
LEMMA PassParts ==
    /\ Idle.busy = FALSE
    /\ \A p \in Pass : /\ p.busy = TRUE /\ p.todo \subseteq Docs /\ p.writing \in BOOLEAN
                       /\ p.row \in [Nodes -> Line] /\ p.dirty \subseteq Nodes \cup {PageMark}
                       /\ p.recorded \in [Docs -> File] /\ p.reading \in [Nodes -> Line]
                       /\ \A todo \in SUBSET Docs : [p EXCEPT !.todo = todo] \in Pass
                       /\ \A b \in BOOLEAN : [p EXCEPT !.writing = b] \in Pass
BY DEF Pass, Idle

\* The pass a look is taken in.
LEMMA UnderTyped ==
    ASSUME TypeOK, NEW d \in Devices
    PROVE  Under(d) \in Pass
<1>1. Pending(d) \subseteq Docs
  BY DEF Pending, Docs
<1>2. pass[d] \in Pass \cup {Idle}
  BY DEF TypeOK
<1>3. CASE pass[d].busy
  BY <1>2, <1>3, PassParts DEF Under
<1>4. CASE ~pass[d].busy
  <2>1. /\ row[d] \in [Nodes -> Line] /\ dirty[d] \subseteq Nodes \cup {PageMark}
        /\ recorded[d] \in [Docs -> File] /\ reading[d] \in [Nodes -> Line]
    BY DEF TypeOK
  <2>2. Under(d) = [busy |-> TRUE, todo |-> Pending(d), writing |-> FALSE,
                    row |-> row[d], dirty |-> dirty[d],
                    recorded |-> recorded[d], reading |-> reading[d]]
    BY <1>4 DEF Under
  <2>3. QED
    BY <1>1, <2>1, <2>2 DEF Pass
<1>5. QED
  BY <1>3, <1>4

\* What an export makes of rows, readings and marks keeps its type.
LEMMA ExportParts ==
    ASSUME TypeOK, NEW d \in Devices, NEW doc \in Docs
    PROVE  /\ Settled(d) \in [Nodes -> Line]
           /\ \A rows \in [Nodes -> Line] :
                /\ Recorded(rows, reading[d]) \in [Nodes -> Line]
                /\ Cleared(rows, dirty[d], doc) \subseteq dirty[d]
<1>1. row[d] \in [Nodes -> Line] /\ reading[d] \in [Nodes -> Line]
  BY DEF TypeOK
<1>2. QED
  BY <1>1 DEF Settled, Recorded, Cleared

\* A document that is said is said with a file, and only marks go.
LEMMA SaidTypes ==
    ASSUME TypeOK, NEW d \in Devices, NEW doc \in Docs, NEW rows \in [Nodes -> Line],
           Said(d, rows, doc)
    PROVE  /\ recorded' \in [Devices -> [Docs -> File]]
           /\ dirty' \in [Devices -> SUBSET (Nodes \cup {PageMark})]
           /\ reading' \in [Devices -> [Nodes -> Line]]
<1> DEFINE mine == Render(rows, doc)
           marks == Cleared(rows, dirty[d], doc)
           said == Recorded(rows, reading[d])
<1>1. mine \in File /\ marks \subseteq dirty[d] /\ said \in [Nodes -> Line]
  BY RenderTyped, ExportParts
<1>2. /\ recorded' = [recorded EXCEPT ![d][doc] = mine]
      /\ dirty' = [dirty EXCEPT ![d] = marks]
      /\ reading' = [reading EXCEPT ![d] = said] \/ reading' = reading
  BY DEF Said
<1> HIDE DEF mine, marks, said
<1>3. QED
  BY <1>1, <1>2 DEF TypeOK

-----------------------------------------------------------------------------
(* The merge's parts.                                                      *)

\* What a merge reads and makes, in one place: the lines it takes are versions
\* under the stamps the file gives them, the stamps it mints are the device's.
Taken(d, n) == Incoming(arriving[d].file, arriving[d].doc, n)

Runaway(d, n, wall) == BeyondDrift(Taken(d, n).stamp, wall)

\* The parts of what the watcher has handed over.
LEMMA ArrivalParts ==
    ASSUME TypeOK, NEW d \in Devices, arriving[d].busy
    PROVE  /\ arriving[d].file \in File /\ arriving[d].doc \in Docs /\ arriving[d].copy \in BOOLEAN
           /\ Stated(arriving[d].file) \subseteq Nodes
           /\ \A n \in Stated(arriving[d].file) :
                /\ Taken(d, n) \in Version
                /\ Taken(d, n).stamp = arriving[d].file.lines[n].stamp
<1>1. arriving[d] \in Arrival
  BY DEF TypeOK, Idle
<1>2. /\ arriving[d].file \in File /\ arriving[d].doc \in Docs /\ arriving[d].copy \in BOOLEAN
  BY <1>1 DEF Arrival
<1>3. arriving[d].file.lines \in [Nodes -> Line]
  BY <1>2 DEF File
<1>4. ASSUME NEW n \in Stated(arriving[d].file)
      PROVE  /\ Taken(d, n) \in Version
             /\ Taken(d, n).stamp = arriving[d].file.lines[n].stamp
  <2>1. n \in Nodes /\ arriving[d].file.lines[n] \in Version
    BY <1>3, <1>4, LineParts DEF Stated
  <2>2. QED
    BY <2>1, VersionWith DEF Taken, Incoming
<1>5. QED
  BY <1>2, <1>4 DEF Stated

\* What a line makes of a row is a version or no row, under the stamp of one of
\* the two or a fresh one.
LEMMA MergedTyped ==
    ASSUME NEW v \in Line, NEW line \in Version, NEW drifted, NEW device, NEW fresh,
           Issues(v, line, FALSE, drifted, device) => fresh \in Stamp
    PROVE  /\ Merged(v, line, FALSE, drifted, device, fresh) \in Line
           /\ \/ Merged(v, line, FALSE, drifted, device, fresh).stamp \in {line.stamp, v.stamp}
              \/ /\ Issues(v, line, FALSE, drifted, device)
                 /\ Merged(v, line, FALSE, drifted, device, fresh).stamp = fresh
BY VersionWith DEF Merged, Line

\* A pass that has looked and not yet written has a document in hand.
InHand == \A d \in Devices : pass[d].busy /\ pass[d].writing => pass[d].todo # {}

-----------------------------------------------------------------------------
(* Types, step by step.                                                    *)

\* The budgets.
Left == [edits : Nat, hands : Nat, crashes : Nat,
         nodes : SUBSET Nodes, contents : SUBSET Contents]

\* A change made takes one from what is left.
LEMMA LeftTyped ==
    ASSUME TypeOK
    PROVE  /\ left.edits > 0 => [left EXCEPT !.edits = @ - 1] \in Left
           /\ left.hands > 0 => [left EXCEPT !.hands = @ - 1] \in Left
           /\ left.crashes > 0 => [left EXCEPT !.crashes = @ - 1] \in Left
<1>1. left \in Left
  BY DEF TypeOK, Left
<1>2. left.edits \in Nat /\ left.hands \in Nat /\ left.crashes \in Nat
  BY <1>1 DEF Left
<1>3. QED
  BY <1>1, <1>2 DEF Left

\* A row written in the app.
LEMMA WriteTypes ==
    ASSUME TypeOK, NEW d \in Devices, NEW n \in Nodes, NEW content \in Contents,
           NEW deleted \in BOOLEAN, NEW wall \in Nat, Write(d, n, content, deleted, wall)
    PROVE  TypeOK'
<1> DEFINE next == NowAt(clock[d], wall)
           v == [content |-> content, deleted |-> deleted, stamp |-> StampBy(d, next)]
<1>1. next \in Reading
  BY NowAtAdvances DEF TypeOK
<1>2. /\ left.edits > 0 /\ Encodable(next)
      /\ row' = [row EXCEPT ![d][n] = v]
      /\ clock' = [clock EXCEPT ![d] = next]
      /\ dirty' = [dirty EXCEPT ![d] = @ \cup {n, PageMark}]
      /\ left' = [left EXCEPT !.edits = @ - 1]
      /\ UNCHANGED <<recorded, reading, log, file, arriving, pass, told, slipped, died,
                     copies, synced, cloud>>
  BY DEF Write, history, transport
<1> HIDE DEF next
<1>3. StampBy(d, next) \in Stamp
  BY <1>1, <1>2, StampTyped
<1>4. v \in Line
  BY <1>3 DEF Line, Version
<1> HIDE DEF v
<1>5. row' \in [Devices -> [Nodes -> Line]]
  BY <1>2, <1>4 DEF TypeOK
<1>6. dirty' \in [Devices -> SUBSET (Nodes \cup {PageMark})]
  BY <1>2 DEF TypeOK
<1>7. left' \in Left
  BY <1>2, LeftTyped
<1>8. clock' \in [Devices -> Reading]
  BY <1>1, <1>2 DEF TypeOK
<1>9. QED
  BY <1>2, <1>5, <1>6, <1>7, <1>8 DEF TypeOK, Left

\* A file changed in an editor.
LEMMA HandTypes ==
    ASSUME TypeOK, NEW d \in Devices, NEW n \in Nodes,
           (\E doc \in Docs, c \in Contents : HandEdit(d, doc, n, c)) \/ HandErase(d, n)
    PROVE  TypeOK'
<1>1. /\ left.hands > 0 /\ left' = [left EXCEPT !.hands = @ - 1]
      /\ UNCHANGED <<row, dirty, recorded, reading, log, copies, synced, cloud, clock,
                     arriving, pass, told, slipped, died>>
  BY DEF HandEdit, HandErase, database, transport, history
<1>2. left' \in Left
  BY <1>1, LeftTyped
<1>3. file' \in [Devices -> [Docs -> File]]
  <2>1. PICK doc \in Docs, v \in Line :
          /\ n \in Stated(file[d][doc])
          /\ file' = [file EXCEPT ![d][doc].lines[n] = v]
    <3>1. ASSUME NEW doc \in Docs, NEW c \in Contents, HandEdit(d, doc, n, c)
          PROVE  \E e \in Docs, v \in Line : /\ n \in Stated(file[d][e])
                                             /\ file' = [file EXCEPT ![d][e].lines[n] = v]
      <4> DEFINE w == [file[d][doc].lines[n] EXCEPT !.content = c]
      <4>1. file[d][doc].lines[n] \in Version
        BY <3>1, LineParts DEF HandEdit, Stated, TypeOK, File
      <4>2. w \in Line
        BY <4>1, VersionWith DEF Line
      <4>3. /\ n \in Stated(file[d][doc])
            /\ file' = [file EXCEPT ![d][doc].lines[n] = w]
        BY <3>1 DEF HandEdit
      <4> HIDE DEF w
      <4>4. QED
        BY <4>2, <4>3
    <3>2. ASSUME HandErase(d, n)
          PROVE  \E e \in Docs, v \in Line : /\ n \in Stated(file[d][e])
                                             /\ file' = [file EXCEPT ![d][e].lines[n] = v]
      BY <3>2, LineParts DEF HandErase, Docs
    <3>3. QED
      BY <3>1, <3>2
  <2>2. file[d][doc] \in File
    BY DEF TypeOK
  <2> DEFINE changed == [file[d][doc] EXCEPT !.lines[n] = v]
  <2>3. changed \in File
    BY <2>2 DEF File
  <2>4. file' = [file EXCEPT ![d][doc] = changed]
    BY <2>1
  <2> HIDE DEF changed
  <2>5. QED
    BY <2>3, <2>4 DEF TypeOK
<1>4. QED
  BY <1>1, <1>2, <1>3 DEF TypeOK, Left

\* A look at a file: said, begun to be written, or left for another time.
LEMMA LookTypes ==
    ASSUME TypeOK, NEW d \in Devices, ExportLook(d)
    PROVE  TypeOK'
<1> DEFINE p == Under(d)
           doc == Turn(p)
           rows == IF doc = Page THEN Settled(d) ELSE row[d]
           mine == Render(rows, doc)
<1>1. /\ p.todo # {} /\ ~p.writing
      /\ row' = [row EXCEPT ![d] = rows]
      /\ \/ Said(d, rows, doc) /\ pass' = [pass EXCEPT ![d] = Passed(p, doc)]
         \/ /\ pass' = [pass EXCEPT ![d] = [p EXCEPT !.writing = TRUE]]
            /\ UNCHANGED <<recorded, dirty, reading>>
         \/ /\ pass' = [pass EXCEPT ![d] = Passed(p, doc)]
            /\ UNCHANGED <<recorded, dirty, reading>>
      /\ UNCHANGED <<log, clock, file, arriving, left, told, died, copies, synced, cloud>>
      /\ slipped' = (slipped \/ \E n \in Nodes : Before(rows[n].stamp, told[d][n]))
  BY DEF ExportLook, transport
<1>2. p \in Pass
  BY UnderTyped
<1> HIDE DEF p
<1>3. doc \in Docs
  BY <1>1, <1>2, PassParts, TurnInTodo
<1> HIDE DEF doc
<1>4. rows \in [Nodes -> Line]
  BY <1>3, ExportParts DEF TypeOK
<1> HIDE DEF rows
<1>5. Passed(p, doc) \in Pass \cup {Idle} /\ [p EXCEPT !.writing = TRUE] \in Pass
  <2>1. p.todo \ {doc} \in SUBSET Docs
    BY <1>2, PassParts
  <2>2. QED
    BY <2>1, <1>2, PassParts DEF Passed
<1>6. pass' \in [Devices -> Pass \cup {Idle}]
  BY <1>1, <1>5 DEF TypeOK
<1>7. /\ recorded' \in [Devices -> [Docs -> File]]
      /\ dirty' \in [Devices -> SUBSET (Nodes \cup {PageMark})]
      /\ reading' \in [Devices -> [Nodes -> Line]]
  <2>1. CASE Said(d, rows, doc)
    BY <2>1, <1>3, <1>4, SaidTypes
  <2>2. CASE UNCHANGED <<recorded, dirty, reading>>
    BY <2>2 DEF TypeOK
  <2>3. QED
    BY <2>1, <2>2, <1>1
<1>8. row' \in [Devices -> [Nodes -> Line]]
  BY <1>1, <1>4 DEF TypeOK
<1>9. slipped' \in BOOLEAN
  BY <1>1 DEF TypeOK
<1>10. QED
  BY <1>1, <1>6, <1>7, <1>8, <1>9 DEF TypeOK

\* The write itself.
LEMMA RenameTypes ==
    ASSUME TypeOK, InHand, NEW d \in Devices, ExportRename(d)
    PROVE  /\ TypeOK'
           /\ Turn(pass[d]) \in Docs /\ Turn(pass[d]) \in pass[d].todo
<1> DEFINE doc == Turn(pass[d])
           mine == Render(row[d], doc)
           rest == pass[d].todo \ {doc}
           newest == [n \in Nodes |-> Latest({told[d][n], mine.lines[n].stamp})]
<1>1. /\ pass[d].busy /\ pass[d].writing
      /\ file' = [file EXCEPT ![d][doc] = mine]
      /\ Said(d, row[d], doc)
      /\ told' = [told EXCEPT ![d] = newest]
      /\ pass' = [pass EXCEPT ![d] = [pass[d] EXCEPT !.todo = rest, !.writing = FALSE]]
      /\ UNCHANGED <<row, log, clock, arriving, left, slipped, died, copies, synced, cloud>>
  BY DEF ExportRename, transport, TypeOK
<1>2. pass[d] \in Pass /\ row[d] \in [Nodes -> Line]
  BY <1>1, PassParts DEF TypeOK
<1>3. doc \in Docs /\ doc \in pass[d].todo
  BY <1>1, <1>2, PassParts, TurnInTodo DEF InHand
<1>4. mine \in File
  BY <1>2, RenderTyped
<1> HIDE DEF doc
<1>5. newest \in [Nodes -> Stamp]
  <2>1. ASSUME NEW n \in Nodes PROVE Latest({told[d][n], mine.lines[n].stamp}) \in Stamp
    <3>1. told[d][n] \in Stamp
      BY DEF TypeOK
    <3>2. mine.lines[n].stamp \in Stamp
      <4> HIDE DEF mine
      <4>1. mine.lines[n] \in Line
        BY <1>4 DEF File
      <4>2. QED
        BY <4>1, LineParts
    <3> HIDE DEF mine
    <3>3. QED
      BY <3>1, <3>2, LatestOfTwo
  <2> HIDE DEF mine
  <2>2. QED
    BY <2>1
<1>6. [pass[d] EXCEPT !.todo = rest, !.writing = FALSE] \in Pass
  <2>1. rest \in SUBSET Docs
    BY <1>2, PassParts
  <2> HIDE DEF rest
  <2>2. QED
    BY <2>1, <1>2 DEF Pass
<1>7. /\ recorded' \in [Devices -> [Docs -> File]]
      /\ dirty' \in [Devices -> SUBSET (Nodes \cup {PageMark})]
      /\ reading' \in [Devices -> [Nodes -> Line]]
  BY <1>1, <1>2, <1>3, SaidTypes
<1> HIDE DEF mine, newest, rest
<1>8. file' \in [Devices -> [Docs -> File]]
  BY <1>1, <1>4 DEF TypeOK
<1>9. told' \in [Devices -> [Nodes -> Stamp]]
  BY <1>1, <1>5 DEF TypeOK
<1>10. pass' \in [Devices -> Pass \cup {Idle}]
  BY <1>1, <1>6 DEF TypeOK
<1>11. TypeOK'
  BY <1>1, <1>7, <1>8, <1>9, <1>10 DEF TypeOK
<1>12. QED
  BY <1>3, <1>11 DEF doc

\* The commit.
LEMMA CommitTypes ==
    ASSUME TypeOK, NEW d \in Devices, ExportCommit(d)
    PROVE  TypeOK'
BY DEF ExportCommit, database, transport, history, TypeOK

\* What the watcher takes in hand.
LEMMA WatchTypes ==
    ASSUME TypeOK, NEW d \in Devices, Watch(d)
    PROVE  TypeOK'
<1>1. UNCHANGED <<row, dirty, recorded, reading, log, copies, synced, cloud, clock, file,
                  pass, left, told, slipped, died>>
  BY DEF Watch, Consider, ConsiderCopy, database, transport, history
<1>2. PICK a \in Arrival : arriving' = [arriving EXCEPT ![d] = a]
  <2>1. ASSUME NEW doc \in Docs, Consider(d, doc)
        PROVE  \E a \in Arrival : arriving' = [arriving EXCEPT ![d] = a]
    <3> DEFINE a == [busy |-> TRUE, doc |-> doc, file |-> file[d][doc], copy |-> FALSE]
    <3>1. a \in Arrival
      BY DEF Arrival, TypeOK
    <3>2. QED
      BY <3>1, <2>1 DEF Consider
  <2>2. ASSUME ConsiderCopy(d)
        PROVE  \E a \in Arrival : arriving' = [arriving EXCEPT ![d] = a]
    <3>1. PICK copy \in copies[d] : arriving' = [arriving EXCEPT ![d] =
               [busy |-> TRUE, doc |-> copy[1], file |-> copy[2], copy |-> TRUE]]
      BY <2>2 DEF ConsiderCopy
    <3>2. [busy |-> TRUE, doc |-> copy[1], file |-> copy[2], copy |-> TRUE] \in Arrival
      BY DEF Arrival, TypeOK
    <3>3. QED
      BY <3>1, <3>2
  <2>3. QED
    BY <2>1, <2>2 DEF Watch
<1>3. arriving' \in [Devices -> Arrival \cup {Idle}]
  BY <1>2 DEF TypeOK
<1>4. QED
  BY <1>1, <1>3 DEF TypeOK

\* A death of the app.
LEMMA CrashTypes ==
    ASSUME TypeOK, NEW d \in Devices, Crash(d)
    PROVE  TypeOK'
<1>1. /\ row' \in [Devices -> [Nodes -> Line]]
      /\ dirty' \in [Devices -> SUBSET (Nodes \cup {PageMark})]
      /\ recorded' \in [Devices -> [Docs -> File]]
      /\ reading' \in [Devices -> [Nodes -> Line]]
  <2>1. CASE pass[d].busy
    <3>1. pass[d] \in Pass
      BY <2>1, PassParts DEF TypeOK
    <3>2. /\ row' = [row EXCEPT ![d] = pass[d].row]
          /\ dirty' = [dirty EXCEPT ![d] = pass[d].dirty]
          /\ recorded' = [recorded EXCEPT ![d] = pass[d].recorded]
          /\ reading' = [reading EXCEPT ![d] = pass[d].reading]
      BY <2>1 DEF Crash
    <3>3. QED
      BY <3>1, <3>2, PassParts DEF TypeOK
  <2>2. CASE ~pass[d].busy
    BY <2>2 DEF Crash, TypeOK
  <2>3. QED
    BY <2>1, <2>2
<1>2. clock' \in [Devices -> Reading]
  <2> DEFINE newest == Latest({row'[d][n].stamp : n \in Nodes})
  <2>1. {row'[d][n].stamp : n \in Nodes} \subseteq Stamp
    BY <1>1, LineParts
  <2>2. newest \in Stamp
    BY <2>1, LatestTyped
  <2>3. clock' = [clock EXCEPT ![d] = ReadingOf(newest)]
    BY DEF Crash
  <2> HIDE DEF newest
  <2>4. QED
    BY <2>2, <2>3, ReadingTyped DEF TypeOK
<1>3. left' \in Left
  BY LeftTyped DEF Crash
<1>4. /\ arriving' = [arriving EXCEPT ![d] = Idle] /\ pass' = [pass EXCEPT ![d] = Idle]
      /\ died' = TRUE
      /\ UNCHANGED <<log, file, told, slipped, copies, synced, cloud>>
  BY DEF Crash, transport
<1>5. QED
  BY <1>1, <1>2, <1>3, <1>4 DEF TypeOK, Left

\* The transport.
LEMMA TransportTypes ==
    ASSUME TypeOK, NEW d \in Devices, Transport(d)
    PROVE  TypeOK'
<1>1. PICK doc \in Docs : Upload(d, doc) \/ Download(d, doc)
  BY DEF Transport
<1>2. CASE Upload(d, doc)
  BY <1>2 DEF Upload, database, history, TypeOK
<1>3. CASE Download(d, doc)
  <2>1. file' \in [Devices -> [Docs -> File]] /\ synced' \in [Devices -> [Docs -> File]]
    BY <1>3 DEF Download, TypeOK
  <2>2. copies' \in [Devices -> SUBSET (Docs \X File)]
    <3>1. <<doc, file[d][doc]>> \in Docs \X File
      BY DEF TypeOK
    <3> DEFINE kept == IF doc = Trash /\ file[d][doc] = Empty THEN {} ELSE {<<doc, file[d][doc]>>}
    <3>2. kept \in SUBSET (Docs \X File)
      BY <3>1
    <3>3. copies' = copies \/ copies' = [copies EXCEPT ![d] = @ \cup kept]
      BY <1>3 DEF Download
    <3>4. copies \in [Devices -> SUBSET (Docs \X File)]
      BY DEF TypeOK
    <3> HIDE DEF kept
    <3>5. copies[d] \cup kept \in SUBSET (Docs \X File)
      BY <3>2, <3>4
    <3>6. QED
      BY <3>3, <3>4, <3>5
  <2>3. UNCHANGED <<row, dirty, recorded, reading, log, clock, arriving, pass, cloud, left,
                    told, slipped, died>>
    BY <1>3 DEF Download, database, history
  <2>4. QED
    BY <2>1, <2>2, <2>3 DEF TypeOK
<1>4. QED
  BY <1>1, <1>2, <1>3

\* A merge: the row of each line, the readings and marks it takes away, and a
\* clock that has heard the lines it believed and issued what it minted.
LEMMA MergeTypes ==
    ASSUME TypeOK, NEW d \in Devices, NEW wall \in Nat, Merge(d, wall)
    PROVE  TypeOK'
<1> DEFINE a == arriving[d]
           here == Stated(a.file)
           lines == [n \in Nodes |-> Incoming(a.file, a.doc, n)]
           drifted == [n \in Nodes |-> BeyondDrift(lines[n].stamp, wall)]
           Mints(n) == n \in here /\ Issues(row[d][n], lines[n], FALSE, drifted[n], d)
           top == [n \in Nodes |->
                     Latest({lines[m].stamp : m \in {k \in here : k <= n /\ ~drifted[k]}})]
           heard == [n \in Nodes |-> Observe(clock[d], top[n])]
           fresh == [n \in Nodes |-> NowAt(heard[n], wall)]
           After(n) == Merged(row[d][n], lines[n], FALSE, drifted[n], d, StampBy(d, fresh[n]))
           after == [n \in Nodes |-> IF n \in here THEN After(n) ELSE row[d][n]]
           written == {n \in here : Writes(row[d][n], lines[n], FALSE, drifted[n], d)}
           behind == \E n \in here : WritesBack(row[d][n], lines[n], FALSE, drifted[n], d)
           minted == {StampBy(d, fresh[n]) : n \in {k \in Nodes : Mints(k)}}
           tops == {top[n] : n \in Nodes}
           next == Observe(Observe(clock[d], Latest(tops)), Latest(minted))
           owed == (IF a.doc = Page /\ (behind \/ Missing(after, a.file) \/ a.copy)
                    THEN {PageMark} ELSE {})
                   \cup (IF a.doc = Trash /\ a.copy THEN here ELSE {})
           lost == {<<n, row[d][n]>> : n \in {k \in here :
                       RowDefeated(row[d][k], lines[k], k \in dirty[d], FALSE, drifted[k], d)}}
           turned == {<<n, lines[n]>> : n \in {k \in here :
                       LineDefeated(row[d][k], lines[k], FALSE, drifted[k], d)}}
           said == [n \in Nodes |-> IF n \in written THEN NoReading ELSE reading[d][n]]
           newest == [n \in Nodes |->
                        IF n \in here /\ ~drifted[n] THEN Latest({told[d][n], lines[n].stamp})
                        ELSE told[d][n]]
<1>1. a.busy
  BY DEF Merge
<1>2. \A n \in Nodes : Mints(n) => Encodable(fresh[n])
  BY DEF Merge
<1>3. row' = [row EXCEPT ![d] = after]
  BY DEF Merge
<1>4. clock' = [clock EXCEPT ![d] = next]
  BY DEF Merge
<1>5. dirty' = [dirty EXCEPT ![d] = (dirty[d] \ written) \cup owed]
  BY DEF Merge
<1>6. /\ recorded' = recorded \/ recorded' = [recorded EXCEPT ![d][a.doc] = a.file]
      /\ copies' = copies \/ copies' = [copies EXCEPT ![d] = @ \ {<<a.doc, a.file>>}]
      /\ arriving' = [arriving EXCEPT ![d] = Idle]
      /\ UNCHANGED <<file, pass, synced, cloud, left, slipped, died>>
  BY DEF Merge
<1>7. reading' = [reading EXCEPT ![d] = said]
  BY DEF Merge
<1>8. log' = [log EXCEPT ![d] = log[d] \cup lost \cup turned]
  BY DEF Merge
<1>9. told' = [told EXCEPT ![d] = newest]
  BY DEF Merge
<1>10. /\ row[d] \in [Nodes -> Line] /\ reading[d] \in [Nodes -> Line]
       /\ clock[d] \in Reading /\ told[d] \in [Nodes -> Stamp]
       /\ log[d] \subseteq Nodes \X Version /\ dirty[d] \subseteq Nodes \cup {PageMark}
  BY DEF TypeOK
<1>11. /\ a.file \in File /\ a.doc \in Docs /\ here \subseteq Nodes
       /\ \A n \in here : lines[n] \in Version /\ lines[n].stamp \in Stamp
  <2>1. /\ a.file \in File /\ a.doc \in Docs /\ here \subseteq Nodes
        /\ \A n \in here : Taken(d, n) \in Version
    BY <1>1, ArrivalParts
  <2>2. \A n \in here : lines[n] = Taken(d, n)
    BY <2>1 DEF Taken
  <2> HIDE DEF lines, here
  <2>3. QED
    BY <2>1, <2>2, LineParts
<1> HIDE DEF lines, here, drifted, a
<1>12. \A n \in Nodes : top[n] \in Stamp
  <2>1. ASSUME NEW n \in Nodes
        PROVE  Latest({lines[m].stamp : m \in {k \in here : k <= n /\ ~drifted[k]}}) \in Stamp
    <3>1. {lines[m].stamp : m \in {k \in here : k <= n /\ ~drifted[k]}} \subseteq Stamp
      BY <1>11
    <3>2. QED
      BY <3>1, LatestTyped
  <2>2. QED
    BY <2>1
<1> HIDE DEF top
<1>13. \A n \in Nodes : heard[n] \in Reading
  BY <1>10, <1>12, ObserveCovers
<1> HIDE DEF heard
<1>14. \A n \in Nodes : fresh[n] \in Reading
  BY <1>13, NowAtAdvances
<1> HIDE DEF fresh
<1>15. \A n \in Nodes : Mints(n) => StampBy(d, fresh[n]) \in Stamp
  BY <1>2, <1>14, StampTyped
<1>16. after \in [Nodes -> Line]
  <2>1. ASSUME NEW n \in here PROVE After(n) \in Line
    <3>1. Issues(row[d][n], lines[n], FALSE, drifted[n], d) => StampBy(d, fresh[n]) \in Stamp
      BY <1>11, <1>15
    <3>2. n \in Nodes /\ row[d][n] \in Line /\ lines[n] \in Version
      BY <1>10, <1>11
    <3>3. QED
      BY <3>1, <3>2, MergedTyped
  <2> HIDE DEF After
  <2>2. QED
    BY <1>10, <2>1
<1>17. next \in Reading
  <2>1. tops \subseteq Stamp
    BY <1>12
  <2>2. minted \subseteq Stamp
    BY <1>15
  <2> HIDE DEF tops, minted
  <2>3. Latest(tops) \in Stamp /\ Latest(minted) \in Stamp
    BY <2>1, <2>2, LatestTyped
  <2>4. Observe(clock[d], Latest(tops)) \in Reading
    BY <1>10, <2>3, ObserveCovers
  <2>5. QED
    BY <2>3, <2>4, ObserveCovers
<1>18. owed \subseteq Nodes \cup {PageMark}
  BY <1>11
<1>19. lost \subseteq Nodes \X Version
  <2>1. ASSUME NEW n \in here,
               RowDefeated(row[d][n], lines[n], n \in dirty[d], FALSE, drifted[n], d)
        PROVE  <<n, row[d][n]>> \in Nodes \X Version
    <3>1. Known(row[d][n])
      BY <2>1 DEF RowDefeated
    <3>2. QED
      BY <1>10, <1>11, <3>1, LineParts
  <2>2. QED
    BY <2>1
<1>20. turned \subseteq Nodes \X Version
  <2>1. ASSUME NEW n \in here PROVE <<n, lines[n]>> \in Nodes \X Version
    BY <1>11
  <2>2. QED
    BY <2>1
<1>21. said \in [Nodes -> Line]
  BY <1>10, LineParts
<1>22. newest \in [Nodes -> Stamp]
  <2>1. ASSUME NEW n \in Nodes
        PROVE  (IF n \in here /\ ~drifted[n] THEN Latest({told[d][n], lines[n].stamp})
                ELSE told[d][n]) \in Stamp
    BY <1>10, <1>11, LatestOfTwo
  <2>2. QED
    BY <2>1
<1> HIDE DEF after, next, owed, lost, turned, said, newest, written
<1>23. /\ row' \in [Devices -> [Nodes -> Line]]
       /\ clock' \in [Devices -> Reading]
  BY <1>3, <1>4, <1>16, <1>17 DEF TypeOK
<1>24. dirty' \in [Devices -> SUBSET (Nodes \cup {PageMark})]
  <2>1. (dirty[d] \ written) \cup owed \in SUBSET (Nodes \cup {PageMark})
    BY <1>10, <1>18
  <2>2. QED
    BY <1>5, <2>1 DEF TypeOK
<1>25. reading' \in [Devices -> [Nodes -> Line]] /\ told' \in [Devices -> [Nodes -> Stamp]]
  BY <1>7, <1>9, <1>21, <1>22 DEF TypeOK
<1>26. log' \in [Devices -> SUBSET (Nodes \X Version)]
  <2>1. log[d] \cup lost \cup turned \in SUBSET (Nodes \X Version)
    BY <1>10, <1>19, <1>20
  <2>2. log \in [Devices -> SUBSET (Nodes \X Version)]
    BY DEF TypeOK
  <2>3. QED
    BY <1>8, <2>1, <2>2
<1>27. recorded' \in [Devices -> [Docs -> File]]
  <2>1. recorded \in [Devices -> [Docs -> File]]
    BY DEF TypeOK
  <2>2. QED
    BY <1>6, <1>11, <2>1
<1>28. copies' \in [Devices -> SUBSET (Docs \X File)]
  <2>1. copies \in [Devices -> SUBSET (Docs \X File)]
    BY DEF TypeOK
  <2>2. QED
    BY <1>6, <2>1
<1>29. arriving' \in [Devices -> Arrival \cup {Idle}]
  BY <1>6 DEF TypeOK
<1>30. QED
  BY <1>6, <1>23, <1>24, <1>25, <1>26, <1>27, <1>28, <1>29 DEF TypeOK

\* A device's step is one of its actions.
LEMMA TypeStep == TypeOK /\ InHand /\ [Next]_vars => TypeOK'
<1> SUFFICES ASSUME TypeOK, InHand, [Next]_vars PROVE TypeOK'
  OBVIOUS
<1>1. CASE UNCHANGED vars
  BY <1>1 DEF vars, TypeOK
<1>2. ASSUME NEW d \in Devices, Use(d) PROVE TypeOK'
  <2>1. PICK n \in left.nodes, wall \in 0 .. MaxWall :
            \/ \E c \in left.contents : Edit(d, n, c, wall)
            \/ Delete(d, n, wall) \/ Restore(d, n, wall)
    BY <1>2 DEF Use
  <2>2. n \in Nodes /\ wall \in Nat /\ left.contents \subseteq Contents
    BY VaultAssumption DEF TypeOK
  <2>3. row[d][n] \in Line
    BY <2>2 DEF TypeOK
  <2>4. \E c \in Contents, b \in BOOLEAN : Write(d, n, c, b, wall)
    BY <2>1, <2>2, <2>3, LineParts DEF Edit, Delete, Restore
  <2>5. QED
    BY <2>2, <2>4, WriteTypes
<1>3. ASSUME NEW d \in Devices, ByHand(d) PROVE TypeOK'
  <2>1. left.nodes \subseteq Nodes /\ left.contents \subseteq Contents
    BY DEF TypeOK
  <2>2. QED
    BY <1>3, <2>1, HandTypes DEF ByHand
<1>4. ASSUME NEW d \in Devices, Export(d) PROVE TypeOK'
  BY <1>4, LookTypes, RenameTypes, CommitTypes DEF Export
<1>5. ASSUME NEW d \in Devices, MergeStep(d) PROVE TypeOK'
  BY <1>5, MergeTypes, VaultAssumption DEF MergeStep
<1>6. QED
  BY <1>1, <1>2, <1>3, <1>4, <1>5, WatchTypes, CrashTypes, TransportTypes DEF Next

\* A pass starts writing only with a document in hand.
LEMMA InHandStep == TypeOK /\ InHand /\ [Next]_vars => InHand'
<1> SUFFICES ASSUME TypeOK, InHand, [Next]_vars PROVE InHand'
  OBVIOUS
<1>1. CASE pass' = pass
  BY <1>1 DEF InHand
<1>2. ASSUME NEW d \in Devices, ExportLook(d) PROVE InHand'
  <2> DEFINE p == Under(d)
             doc == Turn(p)
  <2>1. /\ p.todo # {} /\ ~p.writing
        /\ \/ pass' = [pass EXCEPT ![d] = Passed(p, doc)]
           \/ pass' = [pass EXCEPT ![d] = [p EXCEPT !.writing = TRUE]]
    BY <1>2 DEF ExportLook
  <2>2. p \in Pass
    BY UnderTyped
  <2> HIDE DEF p, doc
  <2>3. [p EXCEPT !.writing = TRUE].todo # {}
    BY <2>1, <2>2 DEF Pass
  <2>4. Passed(p, doc).busy => ~Passed(p, doc).writing
    BY <2>1, <2>2, PassParts DEF Passed, Pass
  <2>5. pass \in [Devices -> Pass \cup {Idle}]
    BY DEF TypeOK
  <2> DEFINE looked == Passed(p, doc)
             begun == [p EXCEPT !.writing = TRUE]
  <2> HIDE DEF looked, begun
  <2>6. QED
    BY <2>1, <2>3, <2>4, <2>5 DEF InHand, looked, begun
<1>3. ASSUME NEW d \in Devices, ExportRename(d) PROVE InHand'
  <2> DEFINE rest == pass[d].todo \ {Turn(pass[d])}
             p == [pass[d] EXCEPT !.todo = rest, !.writing = FALSE]
  <2>1. pass' = [pass EXCEPT ![d] = p] /\ pass[d].busy
    BY <1>3 DEF ExportRename
  <2>2. pass[d] \in Pass /\ pass \in [Devices -> Pass \cup {Idle}]
    BY <2>1, PassParts DEF TypeOK
  <2>3. p.writing = FALSE
    BY <2>2 DEF Pass
  <2> HIDE DEF p
  <2>4. QED
    BY <2>1, <2>2, <2>3 DEF InHand
<1>4. ASSUME NEW d \in Devices, pass' = [pass EXCEPT ![d] = Idle] PROVE InHand'
  BY <1>4, PassParts DEF InHand, TypeOK
<1>5. QED
  <2>1. ASSUME NEW d \in Devices, Use(d) \/ ByHand(d) \/ Watch(d) \/ MergeStep(d) \/ Transport(d)
        PROVE  pass' = pass
    BY <2>1 DEF Use, Edit, Delete, Restore, Write, ByHand, HandEdit, HandErase, Watch, Consider,
                ConsiderCopy, MergeStep, Merge, Transport, Upload, Download
  <2>2. ASSUME NEW d \in Devices, ExportCommit(d) \/ Crash(d)
        PROVE  pass' = [pass EXCEPT ![d] = Idle]
    BY <2>2 DEF ExportCommit, Crash
  <2>3. CASE UNCHANGED vars
    BY <1>1, <2>3 DEF vars
  <2>4. QED
    BY <1>1, <1>2, <1>3, <1>4, <2>1, <2>2, <2>3 DEF Next, Export

\* The start.
LEMMA TypeAtFirst == Init => TypeOK /\ InHand
<1> SUFFICES ASSUME Init PROVE TypeOK /\ InHand
  OBVIOUS
<1>1. /\ First \in Version /\ First.stamp \in Stamp /\ AtFirst \in [Nodes -> Line]
      /\ FilesAtFirst \in [Docs -> File]
      /\ \A n \in Nodes : AtFirst[n].stamp \in Stamp
  BY FirstTyped, LineParts
<1>2. ReadingOf(First.stamp) \in Reading
  BY <1>1, ReadingTyped
<1>3. NoReading \in Line
  BY LineParts
<1>4. left \in Left
  BY VaultAssumption DEF Init, Left
<1>5. TypeOK
  BY <1>1, <1>2, <1>3, <1>4 DEF Init, TypeOK, Left
<1>6. InHand
  BY PassParts DEF Init, InHand
<1>7. QED
  BY <1>5, <1>6

\* Type correctness: no step of any device stores a stamp the encoding cannot
\* carry, records what is not a file, or logs what is not a version.
THEOREM TypeCorrect == Spec => []TypeOK
<1>1. Spec => [](TypeOK /\ InHand)
  BY TypeAtFirst, TypeStep, InHandStep, PTL DEF Spec
<1>2. QED
  BY <1>1, PTL

-----------------------------------------------------------------------------
(* What an export replaces.                                                *)

\* Where the folder stands still between a pass's look at a file and its rename,
\* the file the pass has in hand is one it has dealt with: what it wrote itself,
\* what has been merged, or no trash at all.
Undisturbed ==
    \A d \in Devices :
        pass[d].busy /\ pass[d].writing =>
            \/ file[d][Turn(pass[d])] = recorded[d][Turn(pass[d])]
            \/ Turn(pass[d]) = Trash /\ file[d][Turn(pass[d])] = Empty

UnreadIInv == TypeOK /\ InHand /\ Undisturbed

\* Only a look, a rename, an end of the pass, a merge or a move of the folder
\* can touch it; and a move waits, as a merge does, for the rename.
LEMMA UndisturbedStep ==
    ASSUME WindowOpen = FALSE
    PROVE  UnreadIInv /\ [Next]_vars => Undisturbed'
<1> SUFFICES ASSUME UnreadIInv, [Next]_vars PROVE Undisturbed'
  OBVIOUS
<1>1. /\ pass \in [Devices -> Pass \cup {Idle}]
      /\ file \in [Devices -> [Docs -> File]] /\ recorded \in [Devices -> [Docs -> File]]
  BY DEF UnreadIInv, TypeOK
<1>2. CASE UNCHANGED <<file, recorded, pass>>
  BY <1>2 DEF UnreadIInv, Undisturbed
<1>3. ASSUME NEW d \in Devices, ExportLook(d) PROVE Undisturbed'
  <2> DEFINE p == Under(d)
             doc == Turn(p)
             begun == [p EXCEPT !.writing = TRUE]
             looked == Passed(p, doc)
  <2>1. /\ p.todo # {} /\ ~p.writing /\ file' = file
        /\ \/ pass' = [pass EXCEPT ![d] = looked] /\ recorded' = [recorded EXCEPT ![d] = recorded'[d]]
           \/ /\ Ours(d, doc)
              /\ pass' = [pass EXCEPT ![d] = begun]
              /\ recorded' = recorded
    <3>1. /\ p.todo # {} /\ ~p.writing /\ file' = file
          /\ \/ /\ pass' = [pass EXCEPT ![d] = looked]
                /\ \/ Said(d, IF doc = Page THEN Settled(d) ELSE row[d], doc)
                   \/ recorded' = recorded
             \/ /\ Ours(d, doc)
                /\ pass' = [pass EXCEPT ![d] = begun]
                /\ recorded' = recorded
      BY <1>3 DEF ExportLook
    <3>2. ASSUME NEW rows, Said(d, rows, doc)
          PROVE  recorded' = [recorded EXCEPT ![d] = recorded'[d]]
      <4> DEFINE mine == Render(rows, doc)
      <4>1. recorded' = [recorded EXCEPT ![d][doc] = mine]
        BY <3>2 DEF Said
      <4> HIDE DEF mine, doc
      <4>2. QED
        BY <4>1, <1>1
    <3>3. recorded' = recorded => recorded' = [recorded EXCEPT ![d] = recorded'[d]]
      BY <1>1
    <3> HIDE DEF doc, p
    <3>4. QED
      BY <3>1, <3>2, <3>3
  <2>2. p \in Pass
    BY UnderTyped DEF UnreadIInv
  <2> HIDE DEF p
  <2>3. begun.todo = p.todo
    BY <2>2 DEF Pass
  <2>4. Turn(begun) = doc
    BY <2>3 DEF Turn
  <2>5. looked.busy => ~looked.writing
    BY <2>1, <2>2, PassParts DEF Passed, Pass
  <2> HIDE DEF begun, looked, doc
  <2>6. ASSUME NEW e \in Devices, pass'[e].busy, pass'[e].writing
        PROVE  \/ file'[e][Turn(pass'[e])] = recorded'[e][Turn(pass'[e])]
               \/ Turn(pass'[e]) = Trash /\ file'[e][Turn(pass'[e])] = Empty
    <3>1. CASE e # d
      <4>1. pass'[e] = pass[e] /\ recorded'[e] = recorded[e] /\ file'[e] = file[e]
        BY <1>1, <2>1, <3>1
      <4>2. QED
        BY <2>6, <4>1 DEF UnreadIInv, Undisturbed
    <3>2. CASE e = d
      <4>1. pass'[d] = begun /\ Ours(d, doc) /\ recorded' = recorded
        BY <1>1, <2>1, <2>5, <2>6, <3>2
      <4>2. QED
        BY <2>1, <2>4, <3>2, <4>1 DEF Ours
    <3>3. QED
      BY <3>1, <3>2
  <2>7. QED
    BY <2>6 DEF Undisturbed
<1>4. ASSUME NEW d \in Devices, ExportRename(d) PROVE Undisturbed'
  <2> DEFINE doc == Turn(pass[d])
             rest == pass[d].todo \ {doc}
             p == [pass[d] EXCEPT !.todo = rest, !.writing = FALSE]
             mine == Render(row[d], doc)
  <2>1. /\ pass[d].busy /\ pass' = [pass EXCEPT ![d] = p]
        /\ file' = [file EXCEPT ![d][doc] = mine]
        /\ recorded' = [recorded EXCEPT ![d][doc] = mine]
    BY <1>4 DEF ExportRename, Said
  <2>2. pass[d] \in Pass
    BY <1>1, <2>1, PassParts
  <2>3. p.writing = FALSE
    BY <2>2 DEF Pass
  <2> HIDE DEF doc, p, mine
  <2>4. \A e \in Devices : e # d => /\ pass'[e] = pass[e]
                                    /\ file'[e] = file[e] /\ recorded'[e] = recorded[e]
    BY <1>1, <2>1
  <2>5. ~pass'[d].writing
    BY <1>1, <2>1, <2>3
  <2>6. QED
    BY <2>4, <2>5 DEF UnreadIInv, Undisturbed
<1>5. ASSUME NEW d \in Devices, ExportCommit(d) \/ Crash(d) PROVE Undisturbed'
  <2>1. /\ pass' = [pass EXCEPT ![d] = Idle] /\ file' = file
        /\ \A e \in Devices : e # d => recorded'[e] = recorded[e]
    BY <1>1, <1>5 DEF ExportCommit, Crash, database
  <2>2. \A e \in Devices : e # d => pass'[e] = pass[e]
    BY <1>1, <2>1
  <2>3. ~pass'[d].busy
    BY <1>1, <2>1, PassParts
  <2>4. QED
    BY <2>1, <2>2, <2>3 DEF UnreadIInv, Undisturbed
<1>6. ASSUME NEW d \in Devices, MergeStep(d) PROVE Undisturbed'
  <2>1. PICK wall \in 0 .. MaxWall : Merge(d, wall)
    BY <1>6 DEF MergeStep
  <2>2. /\ ~pass[d].busy /\ pass' = pass /\ file' = file
        /\ \/ recorded' = recorded
           \/ recorded' = [recorded EXCEPT ![d][arriving[d].doc] = arriving[d].file]
    BY <2>1 DEF Merge
  <2>3. \A e \in Devices : e # d => recorded'[e] = recorded[e]
    BY <1>1, <2>2
  <2>4. QED
    BY <2>2, <2>3 DEF UnreadIInv, Undisturbed
<1>7. ASSUME NEW d \in Devices, ByHand(d) \/ (\E doc \in Docs : Download(d, doc))
      PROVE  Undisturbed'
  <2>1. /\ FolderMoves(d) /\ pass' = pass /\ recorded' = recorded
    BY <1>7 DEF ByHand, HandEdit, HandErase, Download, database
  <2>2. ~(pass[d].busy /\ pass[d].writing)
    BY <2>1 DEF FolderMoves
  <2>3. \A e \in Devices : e # d => file'[e] = file[e]
    BY <1>7, <1>1 DEF ByHand, HandEdit, HandErase, Download
  <2>4. QED
    BY <2>1, <2>2, <2>3 DEF UnreadIInv, Undisturbed
<1>8. ASSUME NEW d \in Devices, Use(d) \/ Watch(d) \/ (\E doc \in Docs : Upload(d, doc))
      PROVE  UNCHANGED <<file, recorded, pass>>
  BY <1>8 DEF Use, Edit, Delete, Restore, Write, Watch, Consider, ConsiderCopy, Upload, database
<1>9. CASE UNCHANGED vars
  BY <1>2, <1>9 DEF vars
<1>10. QED
  BY <1>2, <1>3, <1>4, <1>5, <1>6, <1>7, <1>8, <1>9 DEF Next, Export, Transport

\* Where nothing moves in the folder between an export's look at a file and its
\* rename, an export never replaces a file that was not dealt with: in every
\* vault, whatever is edited, merged, carried or cut short around the pass.
THEOREM UnreadNeverReplaced ==
    ASSUME WindowOpen = FALSE
    PROVE  Spec => NeverReplacesUnread
<1>1. Init => UnreadIInv
  <2>1. Init => Undisturbed
    BY PassParts DEF Init, Undisturbed
  <2>2. QED
    BY <2>1, TypeAtFirst DEF UnreadIInv
<1>2. UnreadIInv /\ [Next]_vars => UnreadIInv'
  BY UndisturbedStep, TypeStep, InHandStep DEF UnreadIInv
<1> DEFINE Dealt == \A d \in Devices : ExportRename(d) =>
                       \A doc \in Docs :
                           \/ file'[d][doc] = file[d][doc]
                           \/ file[d][doc] = recorded[d][doc]
                           \/ doc = Trash /\ file[d][doc] = Empty
<1>3. UnreadIInv => Dealt
  <2> SUFFICES ASSUME UnreadIInv, NEW d \in Devices, ExportRename(d), NEW doc \in Docs
               PROVE  \/ file'[d][doc] = file[d][doc]
                      \/ file[d][doc] = recorded[d][doc]
                      \/ doc = Trash /\ file[d][doc] = Empty
    OBVIOUS
  <2>1. CASE doc = Turn(pass[d])
    BY <2>1 DEF UnreadIInv, Undisturbed, ExportRename
  <2>2. CASE doc # Turn(pass[d])
    <3> DEFINE mine == Render(row[d], Turn(pass[d]))
    <3>1. file' = [file EXCEPT ![d][Turn(pass[d])] = mine]
      BY DEF ExportRename
    <3> HIDE DEF mine
    <3>2. QED
      BY <2>2, <3>1 DEF UnreadIInv, TypeOK
  <2>3. QED
    BY <2>1, <2>2
<1>4. UnreadIInv => [Dealt]_vars
  BY <1>3
<1> HIDE DEF Dealt
<1>5. Spec => [][Dealt]_vars
  BY <1>1, <1>2, <1>4, PTL DEF Spec
<1>6. QED
  BY <1>5 DEF NeverReplacesUnread, Dealt

-----------------------------------------------------------------------------
(* What a file carries has been told.                                      *)

\* A stamp that one of these devices issued for n is no newer than what the
\* device was told of n, in a file it wrote or read.
HeardBy(devices, t, stamp, n) ==
    \A e \in devices : stamp # Blank /\ stamp.device = e => AtMost(stamp, t[e][n])

LinesHeard(devices, t, lines) == \A n \in Nodes : HeardBy(devices, t, lines[n].stamp, n)

\* A file in a folder, in the transport's hands or in the watcher's.
InPlay(f) ==
    \/ \E doc \in Docs : f = cloud[doc]
    \/ \E d \in Devices, doc \in Docs : f \in {file[d][doc], synced[d][doc]}
    \/ \E d \in Devices : \E copy \in copies[d] : f = copy[2]
    \/ \E d \in Devices : arriving[d].busy /\ f = arriving[d].file

\* Every line of every file was told to the device that issued its stamp; so was
\* every row that the stamp of another device is on, those a rollback would
\* bring back included.  Only an edit of a device's own is ahead of its files.
FilesHeard == \A f \in File : InPlay(f) => LinesHeard(Devices, told, f.lines)

RowsHeard ==
    \A d \in Devices :
        /\ LinesHeard(Devices \ {d}, told, row[d])
        /\ LinesHeard(Devices \ {d}, told, reading[d])
        /\ pass[d].busy => /\ LinesHeard(Devices \ {d}, told, pass[d].row)
                           /\ LinesHeard(Devices \ {d}, told, pass[d].reading)

Carried == FilesHeard /\ RowsHeard

\* What was told stays told when a device is told more.
LEMMA HeardMore ==
    ASSUME NEW t \in [Devices -> [Nodes -> Stamp]], NEW u \in [Devices -> [Nodes -> Stamp]],
           \A e \in Devices, n \in Nodes : AtMost(t[e][n], u[e][n]),
           NEW devices \in SUBSET Devices
    PROVE  /\ \A s \in Stamp, n \in Nodes : HeardBy(devices, t, s, n) => HeardBy(devices, u, s, n)
           /\ \A lines \in [Nodes -> Line] :
                LinesHeard(devices, t, lines) => LinesHeard(devices, u, lines)
<1>1. ASSUME NEW s \in Stamp, NEW n \in Nodes, HeardBy(devices, t, s, n)
      PROVE  HeardBy(devices, u, s, n)
  <2>1. ASSUME NEW e \in devices, s # Blank, s.device = e PROVE AtMost(s, u[e][n])
    <3>1. AtMost(s, t[e][n]) /\ AtMost(t[e][n], u[e][n])
      BY <1>1, <2>1 DEF HeardBy
    <3>2. e \in Devices /\ t[e][n] \in Stamp /\ u[e][n] \in Stamp
      OBVIOUS
    <3>3. QED
      BY <3>1, <3>2, AtMostTransitive
  <2>2. QED
    BY <2>1 DEF HeardBy
<1>2. ASSUME NEW lines \in [Nodes -> Line], LinesHeard(devices, t, lines), NEW n \in Nodes
      PROVE  HeardBy(devices, u, lines[n].stamp, n)
  <2>1. lines[n].stamp \in Stamp
    BY LineParts
  <2>2. QED
    BY <1>1, <1>2, <2>1 DEF LinesHeard
<1>3. QED
  BY <1>1, <1>2 DEF LinesHeard

\* No stamp is told to everybody, and what everybody was told the others were.
LEMMA HeardOfNone ==
    /\ \A devices, t, n : HeardBy(devices, t, Blank, n)
    /\ \A t, s, n, d : HeardBy(Devices, t, s, n) => HeardBy(Devices \ {d}, t, s, n)
BY DEF HeardBy

\* The parts of a merge.
LEMMA MergeParts ==
    ASSUME TypeOK, NEW d \in Devices, NEW wall \in Nat, Merge(d, wall)
    PROVE  /\ arriving[d].busy
           /\ \A n \in Nodes :
                /\ \E fresh :
                     /\ row'[d][n] = IF n \in Stated(arriving[d].file)
                                     THEN Merged(row[d][n], Taken(d, n), FALSE,
                                                 Runaway(d, n, wall), d, fresh)
                                     ELSE row[d][n]
                     /\ n \in Stated(arriving[d].file)
                        /\ Issues(row[d][n], Taken(d, n), FALSE, Runaway(d, n, wall), d)
                        => fresh \in Stamp /\ fresh.device = d
                /\ reading'[d][n] \in {NoReading, reading[d][n]}
                /\ told'[d][n] = IF n \in Stated(arriving[d].file) /\ ~Runaway(d, n, wall)
                                 THEN Latest({told[d][n], Taken(d, n).stamp})
                                 ELSE told[d][n]
                /\ n \in Stated(arriving[d].file)
                   /\ RowDefeated(row[d][n], Taken(d, n), n \in dirty[d], FALSE,
                                  Runaway(d, n, wall), d)
                   => <<n, row[d][n]>> \in log'[d]
           /\ \A e \in Devices : e # d => /\ row'[e] = row[e] /\ reading'[e] = reading[e]
                                          /\ told'[e] = told[e]
<1> DEFINE a == arriving[d]
           here == Stated(a.file)
           lines == [n \in Nodes |-> Incoming(a.file, a.doc, n)]
           drifted == [n \in Nodes |-> BeyondDrift(lines[n].stamp, wall)]
           Mints(n) == n \in here /\ Issues(row[d][n], lines[n], FALSE, drifted[n], d)
           top == [n \in Nodes |->
                     Latest({lines[m].stamp : m \in {k \in here : k <= n /\ ~drifted[k]}})]
           heard == [n \in Nodes |-> Observe(clock[d], top[n])]
           fresh == [n \in Nodes |-> NowAt(heard[n], wall)]
           After(n) == Merged(row[d][n], lines[n], FALSE, drifted[n], d, StampBy(d, fresh[n]))
           after == [n \in Nodes |-> IF n \in here THEN After(n) ELSE row[d][n]]
           written == {n \in here : Writes(row[d][n], lines[n], FALSE, drifted[n], d)}
           lost == {<<n, row[d][n]>> : n \in {k \in here :
                       RowDefeated(row[d][k], lines[k], k \in dirty[d], FALSE, drifted[k], d)}}
           turned == {<<n, lines[n]>> : n \in {k \in here :
                       LineDefeated(row[d][k], lines[k], FALSE, drifted[k], d)}}
           said == [n \in Nodes |-> IF n \in written THEN NoReading ELSE reading[d][n]]
           newest == [n \in Nodes |->
                        IF n \in here /\ ~drifted[n] THEN Latest({told[d][n], lines[n].stamp})
                        ELSE told[d][n]]
<1>1. a.busy
  BY DEF Merge
<1>2. \A n \in Nodes : Mints(n) => Encodable(fresh[n])
  BY DEF Merge
<1>3. row' = [row EXCEPT ![d] = after]
  BY DEF Merge
<1>4. reading' = [reading EXCEPT ![d] = said]
  BY DEF Merge
<1>5. log' = [log EXCEPT ![d] = log[d] \cup lost \cup turned]
  BY DEF Merge
<1>6. told' = [told EXCEPT ![d] = newest]
  BY DEF Merge
<1>7. \A n \in Nodes : lines[n] = Taken(d, n) /\ drifted[n] = Runaway(d, n, wall)
  BY DEF Taken, Runaway
<1>8. /\ here \subseteq Nodes /\ \A n \in here : lines[n].stamp \in Stamp
  <2>1. here \subseteq Nodes /\ \A n \in here : Taken(d, n) \in Version
    BY <1>1, ArrivalParts
  <2> HIDE DEF lines, here
  <2>2. QED
    BY <1>7, <2>1, LineParts
<1>9. /\ row \in [Devices -> [Nodes -> Line]] /\ reading \in [Devices -> [Nodes -> Line]]
      /\ told \in [Devices -> [Nodes -> Stamp]] /\ clock[d] \in Reading
      /\ log \in [Devices -> SUBSET (Nodes \X Version)]
  BY DEF TypeOK
<1> HIDE DEF lines, here, drifted, a
<1>10. \A n \in Nodes : Mints(n) => StampBy(d, fresh[n]) \in Stamp /\ StampBy(d, fresh[n]).device = d
  <2>1. ASSUME NEW n \in Nodes
        PROVE  Latest({lines[m].stamp : m \in {k \in here : k <= n /\ ~drifted[k]}}) \in Stamp
    <3>1. {lines[m].stamp : m \in {k \in here : k <= n /\ ~drifted[k]}} \subseteq Stamp
      BY <1>8
    <3>2. QED
      BY <3>1, LatestTyped
  <2>2. \A n \in Nodes : top[n] \in Stamp
    BY <2>1
  <2> HIDE DEF top
  <2>3. \A n \in Nodes : heard[n] \in Reading
    BY <1>9, <2>2, ObserveCovers
  <2> HIDE DEF heard
  <2>4. \A n \in Nodes : fresh[n] \in Reading
    BY <2>3, NowAtAdvances
  <2> HIDE DEF fresh
  <2>5. QED
    BY <1>2, <2>4, StampTyped
<1> HIDE DEF fresh
<1>11. row'[d] = after /\ reading'[d] = said /\ told'[d] = newest
       /\ log'[d] = log[d] \cup lost \cup turned
  BY <1>3, <1>4, <1>5, <1>6, <1>9
<1>12. \A e \in Devices : e # d => row'[e] = row[e] /\ reading'[e] = reading[e] /\ told'[e] = told[e]
  BY <1>3, <1>4, <1>6, <1>9
<1>13. ASSUME NEW n \in Nodes
       PROVE  /\ row'[d][n] = IF n \in here
                              THEN Merged(row[d][n], Taken(d, n), FALSE, Runaway(d, n, wall), d,
                                          StampBy(d, fresh[n]))
                              ELSE row[d][n]
              /\ reading'[d][n] \in {NoReading, reading[d][n]}
              /\ told'[d][n] = IF n \in here /\ ~Runaway(d, n, wall)
                               THEN Latest({told[d][n], Taken(d, n).stamp}) ELSE told[d][n]
              /\ n \in here /\ RowDefeated(row[d][n], Taken(d, n), n \in dirty[d], FALSE,
                                           Runaway(d, n, wall), d)
                 => <<n, row[d][n]>> \in log'[d]
              /\ n \in here /\ Issues(row[d][n], Taken(d, n), FALSE, Runaway(d, n, wall), d)
                 => StampBy(d, fresh[n]) \in Stamp /\ StampBy(d, fresh[n]).device = d
  <2>1. after[n] = IF n \in here THEN Merged(row[d][n], Taken(d, n), FALSE, Runaway(d, n, wall), d,
                                             StampBy(d, fresh[n]))
                   ELSE row[d][n]
    BY <1>7
  <2>2. said[n] \in {NoReading, reading[d][n]}
    OBVIOUS
  <2>3. newest[n] = IF n \in here /\ ~Runaway(d, n, wall)
                    THEN Latest({told[d][n], Taken(d, n).stamp}) ELSE told[d][n]
    BY <1>7
  <2>4. n \in here /\ RowDefeated(row[d][n], Taken(d, n), n \in dirty[d], FALSE,
                                  Runaway(d, n, wall), d)
        => <<n, row[d][n]>> \in lost
    BY <1>7
  <2>5. n \in here /\ Issues(row[d][n], Taken(d, n), FALSE, Runaway(d, n, wall), d) => Mints(n)
    BY <1>7
  <2> HIDE DEF after, said, newest, lost, turned
  <2>6. QED
    BY <1>10, <1>11, <2>1, <2>2, <2>3, <2>4, <2>5
<1>14. QED
  BY <1>1, <1>12, <1>13 DEF here, a

\* Nothing told is untold.
LEMMA ToldGrows ==
    ASSUME TypeOK, InHand, [Next]_vars
    PROVE  \A e \in Devices, n \in Nodes : AtMost(told[e][n], told'[e][n])
<1>1. told \in [Devices -> [Nodes -> Stamp]]
  BY DEF TypeOK
<1>2. ASSUME NEW d \in Devices, ExportRename(d), NEW e \in Devices, NEW n \in Nodes
      PROVE  AtMost(told[e][n], told'[e][n])
  <2> DEFINE mine == Render(row[d], Turn(pass[d]))
             newest == [m \in Nodes |-> Latest({told[d][m], mine.lines[m].stamp})]
  <2>1. told' = [told EXCEPT ![d] = newest] /\ row[d] \in [Nodes -> Line]
    BY <1>2 DEF ExportRename, TypeOK
  <2>2. mine \in File
    BY <2>1, RenderTyped
  <2> HIDE DEF mine
  <2>3. mine.lines[n].stamp \in Stamp
    BY <2>2, LineParts DEF File
  <2>4. newest[n] = Latest({told[d][n], mine.lines[n].stamp})
    OBVIOUS
  <2>5. AtMost(told[d][n], newest[n])
    <3>1. told[d][n] \in Stamp
      BY <1>1
    <3> HIDE DEF newest
    <3>2. QED
      BY <2>3, <2>4, <3>1, LatestOfTwo
  <2> HIDE DEF newest
  <2>6. CASE e = d
    BY <1>1, <2>1, <2>5, <2>6
  <2>7. CASE e # d
    BY <1>1, <2>1, <2>7 DEF AtMost
  <2>8. QED
    BY <2>6, <2>7
<1>3. ASSUME NEW d \in Devices, MergeStep(d), NEW e \in Devices, NEW n \in Nodes
      PROVE  AtMost(told[e][n], told'[e][n])
  <2>1. PICK wall \in Nat : Merge(d, wall)
    BY <1>3, VaultAssumption DEF MergeStep
  <2>2. CASE e # d
    <3>1. told'[e] = told[e]
      BY <2>1, <2>2, MergeParts
    <3>2. QED
      BY <3>1 DEF AtMost
  <2>3. CASE e = d
    <3>1. arriving[d].busy /\
          told'[d][n] = IF n \in Stated(arriving[d].file) /\ ~Runaway(d, n, wall)
                        THEN Latest({told[d][n], Taken(d, n).stamp})
                        ELSE told[d][n]
      BY <2>1, MergeParts
    <3>2. n \in Stated(arriving[d].file) => Taken(d, n).stamp \in Stamp
      BY <3>1, ArrivalParts, LineParts
    <3>3. told[d][n] \in Stamp
      BY <1>1
    <3>4. QED
      BY <2>3, <3>1, <3>2, <3>3, LatestOfTwo DEF AtMost
  <2>4. QED
    BY <2>2, <2>3
<1>4. ASSUME NEW d \in Devices,
             Use(d) \/ ByHand(d) \/ ExportLook(d) \/ ExportCommit(d) \/ Watch(d) \/ Crash(d)
             \/ Transport(d)
      PROVE  told' = told
  BY <1>4 DEF Use, Edit, Delete, Restore, Write, ByHand, HandEdit, HandErase, ExportLook,
              ExportCommit, Watch, Consider, ConsiderCopy, Crash, Transport, Upload, Download, history
<1>5. told' = told => \A e \in Devices, n \in Nodes : AtMost(told[e][n], told'[e][n])
  BY DEF AtMost
<1>6. CASE UNCHANGED vars
  BY <1>5, <1>6 DEF vars
<1>7. QED
  BY <1>2, <1>3, <1>4, <1>5, <1>6 DEF Next, Export

\* Files: what comes into play is a copy of what was in play, a hand's work that
\* leaves the stamps alone, or rows that are told as they are written.
LEMMA FilesHeardStep ==
    ASSUME TypeOK, TypeOK', InHand, Carried, [Next]_vars
    PROVE  FilesHeard'
<1> SUFFICES ASSUME NEW f \in File, InPlay(f)' PROVE LinesHeard(Devices, told', f.lines)
  BY DEF FilesHeard
<1>1. told \in [Devices -> [Nodes -> Stamp]] /\ told' \in [Devices -> [Nodes -> Stamp]]
  BY DEF TypeOK
<1>2. \A e \in Devices, n \in Nodes : AtMost(told[e][n], told'[e][n])
  BY ToldGrows
<1>3. InPlay(f) => LinesHeard(Devices, told', f.lines)
  <2>1. f.lines \in [Nodes -> Line]
    BY DEF File
  <2>2. LinesHeard(Devices, told, f.lines) => LinesHeard(Devices, told', f.lines)
    BY <1>1, <1>2, <2>1, HeardMore
  <2>3. QED
    BY <2>2 DEF Carried, FilesHeard
<1>4. /\ file \in [Devices -> [Docs -> File]] /\ synced \in [Devices -> [Docs -> File]]
      /\ cloud \in [Docs -> File] /\ copies \in [Devices -> SUBSET (Docs \X File)]
      /\ arriving \in [Devices -> Arrival \cup {Idle}]
  BY DEF TypeOK
<1>5. CASE UNCHANGED <<file, synced, cloud, copies, arriving>>
  BY <1>3, <1>5 DEF InPlay
<1>6. ASSUME NEW d \in Devices, Watch(d) PROVE InPlay(f)
  <2>1. UNCHANGED <<file, synced, cloud, copies>>
    BY <1>6 DEF Watch, Consider, ConsiderCopy, transport
  <2>2. PICK a : /\ arriving' = [arriving EXCEPT ![d] = a]
                 /\ \/ \E doc \in Docs : a.file = file[d][doc]
                    \/ \E copy \in copies[d] : a.file = copy[2]
    <3>1. ASSUME NEW doc \in Docs, Consider(d, doc)
          PROVE  \E a : arriving' = [arriving EXCEPT ![d] = a] /\ a.file = file[d][doc]
      <4> DEFINE a == [busy |-> TRUE, doc |-> doc, file |-> file[d][doc], copy |-> FALSE]
      <4>1. arriving' = [arriving EXCEPT ![d] = a] /\ a.file = file[d][doc]
        BY <3>1 DEF Consider
      <4> HIDE DEF a
      <4>2. QED
        BY <4>1
    <3>2. ASSUME ConsiderCopy(d)
          PROVE  \E a : /\ arriving' = [arriving EXCEPT ![d] = a]
                        /\ \E copy \in copies[d] : a.file = copy[2]
      <4>1. PICK copy \in copies[d] : arriving' = [arriving EXCEPT ![d] =
                 [busy |-> TRUE, doc |-> copy[1], file |-> copy[2], copy |-> TRUE]]
        BY <3>2 DEF ConsiderCopy
      <4> DEFINE a == [busy |-> TRUE, doc |-> copy[1], file |-> copy[2], copy |-> TRUE]
      <4>2. arriving' = [arriving EXCEPT ![d] = a] /\ a.file = copy[2]
        BY <4>1
      <4> HIDE DEF a
      <4>3. QED
        BY <4>2
    <3>3. QED
      BY <1>6, <3>1, <3>2 DEF Watch
  <2>3. QED
    BY <1>4, <2>1, <2>2 DEF InPlay
<1>7. ASSUME NEW d \in Devices, MergeStep(d) \/ Crash(d) PROVE InPlay(f)
  <2>1. /\ UNCHANGED <<file, synced, cloud>>
        /\ arriving' = [arriving EXCEPT ![d] = Idle]
        /\ \/ copies' = copies
           \/ copies' = [copies EXCEPT ![d] = @ \ {<<arriving[d].doc, arriving[d].file>>}]
    BY <1>7 DEF MergeStep, Merge, Crash, transport
  <2>2. \A e \in Devices : copies'[e] \subseteq copies[e]
    BY <1>4, <2>1
  <2>3. \A e \in Devices : arriving'[e].busy => arriving'[e] = arriving[e]
    BY <1>4, <2>1, PassParts
  <2>4. QED
    BY <2>1, <2>2, <2>3 DEF InPlay
<1>8. ASSUME NEW d \in Devices, Transport(d) PROVE InPlay(f)
  <2>1. PICK doc \in Docs : Upload(d, doc) \/ Download(d, doc)
    BY <1>8 DEF Transport
  <2>2. CASE Upload(d, doc)
    <3>1. /\ UNCHANGED <<file, copies, arriving>>
          /\ cloud' = [cloud EXCEPT ![doc] = file[d][doc]]
          /\ synced' = [synced EXCEPT ![d][doc] = file[d][doc]]
      BY <2>2 DEF Upload
    <3>2. QED
      BY <1>4, <3>1 DEF InPlay
  <2>3. CASE Download(d, doc)
    <3>1. /\ UNCHANGED <<cloud, arriving>>
          /\ file' = [file EXCEPT ![d][doc] = cloud[doc]]
          /\ synced' = [synced EXCEPT ![d][doc] = cloud[doc]]
      BY <2>3 DEF Download
    <3>2. \A e \in Devices : \A copy \in copies'[e] :
              copy \in copies[e] \/ (e = d /\ copy = <<doc, file[d][doc]>>)
      <4> DEFINE kept == IF doc = Trash /\ file[d][doc] = Empty THEN {} ELSE {<<doc, file[d][doc]>>}
      <4>1. copies' = copies \/ copies' = [copies EXCEPT ![d] = @ \cup kept]
        BY <2>3 DEF Download
      <4>2. kept \subseteq {<<doc, file[d][doc]>>}
        OBVIOUS
      <4> HIDE DEF kept
      <4>3. /\ \A e \in Devices : e # d => copies'[e] = copies[e]
            /\ copies'[d] \in {copies[d], copies[d] \cup kept}
        BY <1>4, <4>1
      <4>4. ASSUME NEW e \in Devices, NEW copy \in copies'[e]
            PROVE  copy \in copies[e] \/ (e = d /\ copy = <<doc, file[d][doc]>>)
        <5>1. CASE e # d
          BY <4>3, <4>4, <5>1
        <5>2. CASE e = d
          BY <4>2, <4>3, <4>4, <5>2
        <5>3. QED
          BY <5>1, <5>2
      <4>5. QED
        BY <4>4
    <3>3. QED
      BY <1>4, <3>1, <3>2 DEF InPlay
  <2>4. QED
    BY <2>1, <2>2, <2>3
<1>9. ASSUME NEW d \in Devices, ByHand(d) PROVE LinesHeard(Devices, told', f.lines)
  <2>1. PICK n \in Nodes, doc \in Docs : \E v :
            /\ n \in Stated(file[d][doc])
            /\ file' = [file EXCEPT ![d][doc].lines[n] = v]
            /\ v.stamp \in {Blank, file[d][doc].lines[n].stamp}
    <3>1. PICK n \in left.nodes : \/ \E doc \in Docs, c \in left.contents : HandEdit(d, doc, n, c)
                                  \/ HandErase(d, n)
      BY <1>9 DEF ByHand
    <3>2. n \in Nodes
      BY DEF TypeOK
    <3>3. ASSUME NEW doc \in Docs, NEW c \in left.contents, HandEdit(d, doc, n, c)
          PROVE  \E e \in Docs : \E v : /\ n \in Stated(file[d][e])
                                          /\ file' = [file EXCEPT ![d][e].lines[n] = v]
                                          /\ v.stamp \in {Blank, file[d][e].lines[n].stamp}
      <4> DEFINE w == [file[d][doc].lines[n] EXCEPT !.content = c]
      <4>1. file[d][doc].lines[n] \in Version
        BY <1>4, <3>3, LineParts DEF HandEdit, Stated, File
      <4>2. c \in Contents
        BY DEF TypeOK
      <4>3. w.stamp = file[d][doc].lines[n].stamp
        BY <4>1, <4>2, VersionWith
      <4>4. /\ n \in Stated(file[d][doc])
            /\ file' = [file EXCEPT ![d][doc].lines[n] = w]
        BY <3>3 DEF HandEdit
      <4> HIDE DEF w
      <4>5. QED
        BY <4>3, <4>4
    <3>4. ASSUME HandErase(d, n)
          PROVE  \E e \in Docs : \E v : /\ n \in Stated(file[d][e])
                                          /\ file' = [file EXCEPT ![d][e].lines[n] = v]
                                          /\ v.stamp \in {Blank, file[d][e].lines[n].stamp}
      BY <3>4, LineParts DEF HandErase, Docs
    <3>5. QED
      BY <3>1, <3>2, <3>3, <3>4
  <2>v. PICK v : /\ file' = [file EXCEPT ![d][doc].lines[n] = v]
                  /\ v.stamp \in {Blank, file[d][doc].lines[n].stamp}
    BY <2>1
  <2> DEFINE g == file[d][doc]
             changed == [g EXCEPT !.lines[n] = v]
  <2>2. file' = [file EXCEPT ![d][doc] = changed]
    BY <2>v
  <2>3. UNCHANGED <<synced, cloud, copies, arriving>>
    BY <1>9 DEF ByHand, HandEdit, HandErase, transport
  <2>4. g \in File /\ InPlay(g)
    BY <1>4 DEF InPlay
  <2>5. g.lines \in [Nodes -> Line] /\ changed.lines = [g.lines EXCEPT ![n] = v]
    BY <2>4 DEF File
  <2>6. LinesHeard(Devices, told', g.lines)
    <3>1. LinesHeard(Devices, told, g.lines)
      BY <2>4 DEF Carried, FilesHeard
    <3>2. QED
      BY <1>1, <1>2, <2>5, <3>1, HeardMore
  <2>7. LinesHeard(Devices, told', changed.lines)
    <3>1. ASSUME NEW m \in Nodes PROVE HeardBy(Devices, told', changed.lines[m].stamp, m)
      <4>1. changed.lines[m].stamp \in {Blank, g.lines[m].stamp}
        BY <2>v, <2>5
      <4> HIDE DEF changed, g
      <4>2. QED
        BY <2>6, <4>1, HeardOfNone DEF LinesHeard
    <3>2. QED
      BY <3>1 DEF LinesHeard
  <2> HIDE DEF changed
  <2>8. InPlay(f) \/ f = changed
    BY <1>4, <2>2, <2>3 DEF InPlay
  <2>9. QED
    BY <1>3, <2>7, <2>8
<1>10. ASSUME NEW d \in Devices, ExportRename(d) PROVE LinesHeard(Devices, told', f.lines)
  <2> DEFINE doc == Turn(pass[d])
             mine == Render(row[d], doc)
             newest == [n \in Nodes |-> Latest({told[d][n], mine.lines[n].stamp})]
  <2>1. /\ file' = [file EXCEPT ![d][doc] = mine]
        /\ told' = [told EXCEPT ![d] = newest]
        /\ UNCHANGED <<synced, cloud, copies, arriving>>
    BY <1>10 DEF ExportRename, transport
  <2>2. /\ row[d] \in [Nodes -> Line] /\ mine \in File
        /\ \A n \in Nodes : mine.lines[n] \in {row[d][n], None}
    BY RenderTyped DEF TypeOK
  <2> HIDE DEF mine
  <2>3. LinesHeard(Devices, told', mine.lines)
    <3>1. LinesHeard(Devices \ {d}, told', row[d])
      <4>1. LinesHeard(Devices \ {d}, told, row[d])
        BY DEF Carried, RowsHeard
      <4>2. QED
        BY <1>1, <1>2, <2>2, <4>1, HeardMore
    <3>2. ASSUME NEW n \in Nodes, NEW e \in Devices,
                 mine.lines[n].stamp # Blank, mine.lines[n].stamp.device = e
          PROVE  AtMost(mine.lines[n].stamp, told'[e][n])
      <4>1. CASE e = d
        <5>1. told'[d][n] = Latest({told[d][n], mine.lines[n].stamp})
          BY <1>1, <2>1
        <5>2. mine.lines[n].stamp \in Stamp /\ told[d][n] \in Stamp
          BY <1>1, <2>2, LineParts
        <5>3. QED
          BY <4>1, <5>1, <5>2, LatestOfTwo
      <4>2. CASE e # d
        <5>1. mine.lines[n] = row[d][n]
          BY <2>2, <3>2, LineParts
        <5>2. QED
          BY <3>1, <3>2, <4>2, <5>1 DEF LinesHeard, HeardBy
      <4>3. QED
        BY <4>1, <4>2
    <3>3. QED
      BY <3>2 DEF LinesHeard, HeardBy
  <2>4. InPlay(f) \/ f = mine
    <3> HIDE DEF doc
    <3>1. QED
      BY <1>4, <2>1 DEF InPlay
  <2>5. QED
    BY <1>3, <2>3, <2>4
<1>11. ASSUME NEW d \in Devices, Use(d) \/ ExportLook(d) \/ ExportCommit(d)
       PROVE  UNCHANGED <<file, synced, cloud, copies, arriving>>
  BY <1>11 DEF Use, Edit, Delete, Restore, Write, ExportLook, ExportCommit, transport
<1>12. CASE UNCHANGED vars
  BY <1>5, <1>12 DEF vars
<1>13. QED
  BY <1>3, <1>5, <1>6, <1>7, <1>8, <1>9, <1>10, <1>11, <1>12 DEF Next, Export

\* Rows: what a device makes of a row is its own stamp, a line it has read, or a
\* row, a reading or a rollback's row that it had.
LEMMA RowsHeardStep ==
    ASSUME TypeOK, TypeOK', InHand, Carried, [Next]_vars
    PROVE  RowsHeard'
<1>1. /\ told \in [Devices -> [Nodes -> Stamp]] /\ told' \in [Devices -> [Nodes -> Stamp]]
      /\ row \in [Devices -> [Nodes -> Line]] /\ reading \in [Devices -> [Nodes -> Line]]
      /\ pass \in [Devices -> Pass \cup {Idle}]
  BY DEF TypeOK
<1>2. \A e \in Devices, n \in Nodes : AtMost(told[e][n], told'[e][n])
  BY ToldGrows
<1>3. \A d \in Devices : \A lines \in [Nodes -> Line] :
          LinesHeard(Devices \ {d}, told, lines) => LinesHeard(Devices \ {d}, told', lines)
  BY <1>1, <1>2, HeardMore
<1> DEFINE Heard(d, lines) == LinesHeard(Devices \ {d}, told', lines)
           PassHeard(d, p) == p.busy => Heard(d, p.row) /\ Heard(d, p.reading)
<1>4. \A d \in Devices : Heard(d, row[d]) /\ Heard(d, reading[d]) /\ PassHeard(d, pass[d])
  <2> SUFFICES ASSUME NEW d \in Devices
               PROVE  Heard(d, row[d]) /\ Heard(d, reading[d]) /\ PassHeard(d, pass[d])
    OBVIOUS
  <2>1. row[d] \in [Nodes -> Line] /\ reading[d] \in [Nodes -> Line]
    BY <1>1
  <2>2. pass[d].busy => pass[d].row \in [Nodes -> Line] /\ pass[d].reading \in [Nodes -> Line]
    BY <1>1, PassParts
  <2>3. QED
    BY <1>3, <2>1, <2>2 DEF Carried, RowsHeard
<1> HIDE DEF Heard, PassHeard
\* It is enough to look at the device that moves.
<1>5. ASSUME NEW d \in Devices,
             \A e \in Devices : e # d => /\ row'[e] = row[e] /\ reading'[e] = reading[e]
                                         /\ pass'[e] = pass[e],
             Heard(d, row'[d]), Heard(d, reading'[d]), PassHeard(d, pass'[d])
      PROVE  RowsHeard'
  <2>1. ASSUME NEW e \in Devices
        PROVE  Heard(e, row'[e]) /\ Heard(e, reading'[e]) /\ PassHeard(e, pass'[e])
    BY <1>4, <1>5
  <2>2. QED
    BY <2>1 DEF RowsHeard, Heard, PassHeard
<1>6. CASE UNCHANGED <<row, reading, pass>>
  <2>1. \A e \in Devices : Heard(e, row'[e]) /\ Heard(e, reading'[e]) /\ PassHeard(e, pass'[e])
    BY <1>4, <1>6
  <2>2. QED
    BY <2>1 DEF RowsHeard, Heard, PassHeard
<1>7. ASSUME NEW d \in Devices, Use(d) PROVE RowsHeard'
  <2>1. PICK n \in Nodes : \E v :
            /\ row' = [row EXCEPT ![d][n] = v] /\ v.stamp.device = d
            /\ UNCHANGED <<reading, pass>>
    <3>1. PICK n \in Nodes : \E content, deleted, wall : Write(d, n, content, deleted, wall)
      BY <1>7 DEF Use, Edit, Delete, Restore, TypeOK
    <3>w. PICK content, deleted, wall : Write(d, n, content, deleted, wall)
      BY <3>1
    <3> DEFINE next == NowAt(clock[d], wall)
               v == [content |-> content, deleted |-> deleted, stamp |-> StampBy(d, next)]
    <3>2. row' = [row EXCEPT ![d][n] = v] /\ UNCHANGED <<reading, pass>>
      BY <3>w DEF Write
    <3>3. v.stamp.device = d
      BY DEF StampBy
    <3> HIDE DEF v
    <3>4. QED
      BY <3>2, <3>3
  <2>2. \A m \in Nodes : row'[d][m] = row[d][m] \/ row'[d][m].stamp.device = d
    BY <1>1, <2>1
  <2>3. Heard(d, row'[d])
    BY <1>4, <2>2 DEF Heard, LinesHeard, HeardBy
  <2>4. \A e \in Devices : e # d => row'[e] = row[e]
    BY <1>1, <2>1
  <2>5. QED
    BY <1>4, <1>5, <2>1, <2>3, <2>4
<1>8. ASSUME NEW d \in Devices, NEW doc \in Docs, NEW rows \in [Nodes -> Line],
             Said(d, rows, doc), Heard(d, rows)
      PROVE  /\ Heard(d, reading'[d])
             /\ \A e \in Devices : e # d => reading'[e] = reading[e]
  <2>1. \A n \in Nodes : Recorded(rows, reading[d])[n] \in {rows[n], reading[d][n]}
    BY DEF Recorded
  <2> DEFINE said == Recorded(rows, reading[d])
  <2>2. Heard(d, said)
    <3> HIDE DEF said
    <3>1. \A n \in Nodes : said[n] \in {rows[n], reading[d][n]}
      BY <2>1 DEF said
    <3>2. QED
      BY <1>4, <1>8, <3>1 DEF Heard, LinesHeard
  <2>3. reading' = [reading EXCEPT ![d] = said] \/ reading' = reading
    BY <1>8 DEF Said
  <2> HIDE DEF said
  <2>4. QED
    BY <1>1, <1>4, <2>2, <2>3
<1>9. ASSUME NEW d \in Devices, ExportLook(d) PROVE RowsHeard'
  <2> DEFINE p == Under(d)
             doc == Turn(p)
             rows == IF doc = Page THEN Settled(d) ELSE row[d]
             looked == Passed(p, doc)
             begun == [p EXCEPT !.writing = TRUE]
  <2>1. /\ p.todo # {}
        /\ row' = [row EXCEPT ![d] = rows]
        /\ pass' = [pass EXCEPT ![d] = looked] \/ pass' = [pass EXCEPT ![d] = begun]
        /\ Said(d, rows, doc) \/ reading' = reading
    BY <1>9 DEF ExportLook
  <2>2. p \in Pass
    BY UnderTyped
  <2>3. Heard(d, p.row) /\ Heard(d, p.reading)
    <3>1. CASE pass[d].busy
      <4>1. p = pass[d]
        BY <3>1 DEF Under
      <4>2. PassHeard(d, pass[d])
        BY <1>4
      <4> HIDE DEF p
      <4>3. QED
        BY <3>1, <4>1, <4>2 DEF PassHeard
    <3>2. CASE ~pass[d].busy
      <4>1. p.row = row[d] /\ p.reading = reading[d]
        BY <3>2 DEF Under
      <4> HIDE DEF p
      <4>2. QED
        BY <1>4, <4>1
    <3>3. QED
      BY <3>1, <3>2
  <2> HIDE DEF p
  <2>4. doc \in Docs
    BY <2>1, <2>2, PassParts, TurnInTodo
  <2>5. PassHeard(d, looked) /\ PassHeard(d, begun)
    <3>1. /\ looked = Idle \/ (looked.row = p.row /\ looked.reading = p.reading)
          /\ begun.row = p.row /\ begun.reading = p.reading
      <4> DEFINE later == p.todo \ {doc}
                 next == [p EXCEPT !.todo = later]
      <4>1. looked = Idle \/ looked = next
        BY DEF Passed
      <4>2. next.row = p.row /\ next.reading = p.reading
        <5> HIDE DEF later
        <5>1. QED
          BY <2>2 DEF Pass
      <4>3. begun.row = p.row /\ begun.reading = p.reading
        BY <2>2 DEF Pass
      <4> HIDE DEF looked, begun, next
      <4>4. QED
        BY <4>1, <4>2, <4>3
    <3> HIDE DEF looked, begun
    <3>2. QED
      BY <2>3, <3>1, PassParts DEF PassHeard
  <2> HIDE DEF doc
  <2>6. rows \in [Nodes -> Line] /\ \A n \in Nodes : rows[n] \in {row[d][n], reading[d][n]}
    BY <1>1, <2>4, ExportParts DEF Settled
  <2> HIDE DEF rows
  <2>7. Heard(d, rows)
    BY <1>4, <2>6 DEF Heard, LinesHeard
  <2>8. /\ Heard(d, reading'[d])
        /\ \A e \in Devices : e # d => reading'[e] = reading[e]
    BY <1>4, <1>8, <2>1, <2>4, <2>6, <2>7
  <2> HIDE DEF looked, begun
  <2>9. /\ row'[d] = rows /\ pass'[d] \in {looked, begun}
        /\ \A e \in Devices : e # d => row'[e] = row[e] /\ pass'[e] = pass[e]
    BY <1>1, <2>1
  <2>10. QED
    BY <1>5, <2>5, <2>7, <2>8, <2>9
<1>10. ASSUME NEW d \in Devices, ExportRename(d) PROVE RowsHeard'
  <2> DEFINE doc == Turn(pass[d])
             rest == pass[d].todo \ {doc}
             p == [pass[d] EXCEPT !.todo = rest, !.writing = FALSE]
  <2>1. /\ pass[d].busy /\ pass[d].writing /\ row' = row
        /\ pass' = [pass EXCEPT ![d] = p]
        /\ Said(d, row[d], doc)
    BY <1>10 DEF ExportRename
  <2>2. pass[d] \in Pass /\ row[d] \in [Nodes -> Line]
    BY <1>1, <2>1, PassParts
  <2>3. doc \in Docs
    BY <2>1, <2>2, PassParts, TurnInTodo DEF InHand
  <2>4. p.row = pass[d].row /\ p.reading = pass[d].reading
    BY <2>2 DEF Pass
  <2> HIDE DEF doc, p
  <2>5. PassHeard(d, p)
    BY <1>4, <2>1, <2>4 DEF PassHeard
  <2>6. /\ Heard(d, reading'[d])
        /\ \A e \in Devices : e # d => reading'[e] = reading[e]
    BY <1>4, <1>8, <2>1, <2>2, <2>3
  <2>7. pass'[d] = p /\ \A e \in Devices : e # d => pass'[e] = pass[e]
    BY <1>1, <2>1
  <2>8. QED
    BY <1>4, <1>5, <2>1, <2>5, <2>6, <2>7
<1>11. ASSUME NEW d \in Devices, ExportCommit(d) PROVE RowsHeard'
  <2>1. UNCHANGED <<row, reading>> /\ pass' = [pass EXCEPT ![d] = Idle]
    BY <1>11 DEF ExportCommit, database
  <2>2. PassHeard(d, pass'[d]) /\ \A e \in Devices : e # d => pass'[e] = pass[e]
    BY <1>1, <2>1, PassParts DEF PassHeard
  <2>3. QED
    BY <1>4, <1>5, <2>1, <2>2
<1>12. ASSUME NEW d \in Devices, Crash(d) PROVE RowsHeard'
  <2>1. /\ pass' = [pass EXCEPT ![d] = Idle]
        /\ IF pass[d].busy
           THEN /\ row' = [row EXCEPT ![d] = pass[d].row]
                /\ reading' = [reading EXCEPT ![d] = pass[d].reading]
           ELSE UNCHANGED <<row, reading>>
    BY <1>12 DEF Crash
  <2>2. PassHeard(d, pass'[d]) /\ \A e \in Devices : e # d => pass'[e] = pass[e]
    BY <1>1, <2>1, PassParts DEF PassHeard
  <2>3. CASE pass[d].busy
    <3>1. /\ row'[d] = pass[d].row /\ reading'[d] = pass[d].reading
          /\ \A e \in Devices : e # d => row'[e] = row[e] /\ reading'[e] = reading[e]
      BY <1>1, <2>1, <2>3
    <3>2. Heard(d, pass[d].row) /\ Heard(d, pass[d].reading)
      BY <1>4, <2>3 DEF PassHeard
    <3>3. QED
      BY <1>5, <2>2, <3>1, <3>2
  <2>4. CASE ~pass[d].busy
    BY <1>4, <1>5, <2>1, <2>2, <2>4
  <2>5. QED
    BY <2>3, <2>4
<1>13. ASSUME NEW d \in Devices, MergeStep(d) PROVE RowsHeard'
  <2>1. PICK wall \in Nat : Merge(d, wall)
    BY <1>13, VaultAssumption DEF MergeStep
  <2>2. /\ arriving[d].busy /\ pass' = pass
        /\ \A e \in Devices : e # d => row'[e] = row[e] /\ reading'[e] = reading[e]
    BY <2>1, MergeParts DEF Merge
  <2>3. LinesHeard(Devices, told', arriving[d].file.lines)
    <3>1. arriving[d].file \in File /\ InPlay(arriving[d].file)
      BY <2>2, ArrivalParts DEF InPlay
    <3>2. LinesHeard(Devices, told, arriving[d].file.lines)
      BY <3>1 DEF Carried, FilesHeard
    <3>3. arriving[d].file.lines \in [Nodes -> Line]
      BY <3>1 DEF File
    <3>4. QED
      BY <1>1, <1>2, <3>2, <3>3, HeardMore
  <2>4. ASSUME NEW n \in Nodes
        PROVE  /\ HeardBy(Devices \ {d}, told', row'[d][n].stamp, n)
               /\ HeardBy(Devices \ {d}, told', reading'[d][n].stamp, n)
    <3>1. PICK fresh :
             /\ row'[d][n] = IF n \in Stated(arriving[d].file)
                             THEN Merged(row[d][n], Taken(d, n), FALSE, Runaway(d, n, wall), d, fresh)
                             ELSE row[d][n]
             /\ n \in Stated(arriving[d].file)
                /\ Issues(row[d][n], Taken(d, n), FALSE, Runaway(d, n, wall), d)
                => fresh \in Stamp /\ fresh.device = d
      BY <2>1, MergeParts
    <3>2. reading'[d][n] \in {NoReading, reading[d][n]}
      BY <2>1, MergeParts
    <3>3. HeardBy(Devices \ {d}, told', reading'[d][n].stamp, n)
      BY <1>4, <3>2, LineParts, HeardOfNone DEF Heard, LinesHeard
    <3>4. HeardBy(Devices \ {d}, told', row[d][n].stamp, n)
      BY <1>4 DEF Heard, LinesHeard
    <3>5. CASE n \in Stated(arriving[d].file)
      <4>1. Taken(d, n) \in Version /\ Taken(d, n).stamp = arriving[d].file.lines[n].stamp
        BY <2>2, <3>5, ArrivalParts
      <4>2. HeardBy(Devices \ {d}, told', Taken(d, n).stamp, n)
        BY <2>3, <4>1, HeardOfNone DEF LinesHeard
      <4>3. \/ row'[d][n].stamp \in {Taken(d, n).stamp, row[d][n].stamp}
            \/ row'[d][n].stamp.device = d
        <5>1. row[d][n] \in Line
          BY <1>1
        <5> DEFINE v == row[d][n]
                   line == Taken(d, n)
                   drifted == Runaway(d, n, wall)
                   issues == Issues(v, line, FALSE, drifted, d)
                   after == Merged(v, line, FALSE, drifted, d, fresh)
        <5>2. /\ row'[d][n] = after /\ line \in Version /\ v \in Line
              /\ issues => fresh \in Stamp /\ fresh.device = d
          BY <3>1, <3>5, <4>1, <5>1
        <5>3. after.stamp \in {line.stamp, v.stamp} \/ (issues /\ after.stamp = fresh)
          <6> HIDE DEF drifted, v, line
          <6>1. QED
            BY <5>2, VersionWith DEF Merged, Line
        <5> HIDE DEF after, issues
        <5>4. QED
          BY <5>2, <5>3
      <4>4. row'[d][n].stamp.device = d => HeardBy(Devices \ {d}, told', row'[d][n].stamp, n)
        BY DEF HeardBy
      <4>5. QED
        BY <3>3, <3>4, <4>2, <4>3, <4>4
    <3>6. CASE n \notin Stated(arriving[d].file)
      BY <3>1, <3>3, <3>4, <3>6
    <3>7. QED
      BY <3>5, <3>6
  <2>5. Heard(d, row'[d]) /\ Heard(d, reading'[d])
    BY <2>4 DEF Heard, LinesHeard
  <2>6. QED
    BY <1>4, <1>5, <2>2, <2>5
<1>14. ASSUME NEW d \in Devices, ByHand(d) \/ Watch(d) \/ Transport(d)
       PROVE  UNCHANGED <<row, reading, pass>>
  BY <1>14 DEF ByHand, HandEdit, HandErase, Watch, Consider, ConsiderCopy, Transport, Upload,
               Download, database
<1>15. CASE UNCHANGED vars
  BY <1>6, <1>15 DEF vars
<1>16. QED
  BY <1>6, <1>7, <1>9, <1>10, <1>11, <1>12, <1>13, <1>14, <1>15 DEF Next, Export

\* What every run has told, and what it carries.
CarriedIInv == TypeOK /\ InHand /\ Carried

\* At the start every device was told what is written.
LEMMA CarriedAtFirst == Init => Carried
<1> SUFFICES ASSUME Init PROVE Carried
  OBVIOUS
<1>1. /\ AtFirst \in [Nodes -> Line]
      /\ \A doc \in Docs, n \in Nodes : FilesAtFirst[doc].lines[n] \in {AtFirst[n], None}
  BY FirstTyped
<1>2. /\ told = [d \in Devices |-> [n \in Nodes |-> AtFirst[n].stamp]]
      /\ \A d \in Devices : /\ row[d] = AtFirst
                            /\ reading[d] = AtFirst \/ reading[d] = [n \in Nodes |-> NoReading]
                            /\ copies[d] = {} /\ ~arriving[d].busy /\ ~pass[d].busy
                            /\ file[d] = FilesAtFirst /\ synced[d] = FilesAtFirst
      /\ cloud = FilesAtFirst
  BY PassParts DEF Init
<1>3. \A e \in Devices, n \in Nodes : told[e][n] = AtFirst[n].stamp
  BY <1>2
<1>4. \A devices \in SUBSET Devices, n \in Nodes : HeardBy(devices, told, AtFirst[n].stamp, n)
  BY <1>3 DEF HeardBy, AtMost
<1>5. \A doc \in Docs : LinesHeard(Devices, told, FilesAtFirst[doc].lines)
  BY <1>1, <1>4, LineParts, HeardOfNone DEF LinesHeard
<1>6. FilesHeard
  BY <1>2, <1>5 DEF FilesHeard, InPlay
<1>7. \A d \in Devices : /\ LinesHeard(Devices \ {d}, told, row[d])
                         /\ LinesHeard(Devices \ {d}, told, reading[d])
  BY <1>2, <1>4, LineParts, HeardOfNone DEF LinesHeard
<1>8. QED
  BY <1>2, <1>6, <1>7 DEF Carried, RowsHeard

\* And every step keeps it.
LEMMA CarriedStep == CarriedIInv /\ [Next]_vars => CarriedIInv'
BY TypeStep, InHandStep, FilesHeardStep, RowsHeardStep DEF CarriedIInv, Carried

\* A merge that takes a row away: the edit was told already, or the line says
\* the same, or the log keeps it.  A row goes without a word in the log only in a
\* clash under the device's own stamp, and then its line was told to the device.
LEMMA OverwrittenIsLogged ==
    ASSUME CarriedIInv, NEW d \in Devices, NEW wall \in Nat, Merge(d, wall),
           NEW n \in Nodes, n \in dirty[d]
    PROVE  \/ AtMost(row[d][n].stamp, told[d][n])
           \/ Same(row'[d][n], row[d][n])
           \/ <<n, row[d][n]>> \in log'[d]
<1> DEFINE here == Stated(arriving[d].file)
           v == row[d][n]
           line == Taken(d, n)
           drifted == Runaway(d, n, wall)
<1>1. TypeOK /\ v \in Line /\ told[d][n] \in Stamp
  BY DEF CarriedIInv, TypeOK
<1>2. PICK fresh : row'[d][n] = IF n \in here THEN Merged(v, line, FALSE, drifted, d, fresh) ELSE v
  <2>1. PICK fresh :
           /\ row'[d][n] = IF n \in Stated(arriving[d].file)
                           THEN Merged(row[d][n], Taken(d, n), FALSE, Runaway(d, n, wall), d, fresh)
                           ELSE row[d][n]
           /\ n \in Stated(arriving[d].file)
              /\ Issues(row[d][n], Taken(d, n), FALSE, Runaway(d, n, wall), d)
              => fresh \in Stamp /\ fresh.device = d
    BY <1>1, MergeParts
  <2>2. QED
    BY <2>1
<1>3. arriving[d].busy /\ (n \in here /\ RowDefeated(v, line, n \in dirty[d], FALSE, drifted, d)
                           => <<n, v>> \in log'[d])
  BY <1>1, MergeParts
<1>4. CASE n \notin here
  BY <1>2, <1>4 DEF Same
<1>5. CASE v.stamp = Blank
  BY <1>1, <1>5, BlankLeast
<1>6. CASE n \in here /\ v.stamp # Blank
  <2>1. v \in Version /\ Known(v)
    BY <1>1, <1>6, LineParts
  <2>2. line \in Version /\ line.stamp = arriving[d].file.lines[n].stamp
    BY <1>1, <1>3, <1>6, ArrivalParts
  <2>3. HeardBy(Devices, told, line.stamp, n)
    <3>1. arriving[d].file \in File /\ InPlay(arriving[d].file)
      BY <1>1, <1>3, ArrivalParts DEF InPlay
    <3>2. LinesHeard(Devices, told, arriving[d].file.lines)
      BY <3>1 DEF CarriedIInv, Carried, FilesHeard
    <3>3. QED
      BY <2>2, <3>2 DEF LinesHeard
  <2> HIDE DEF v, line, drifted, here
  <2>4. CASE Issues(v, line, FALSE, drifted, d)
    <3>1. CASE drifted
      <4>1. ~Same(v, line)
        BY <2>1, <2>4, <3>1 DEF Issues
      <4>2. RowDefeated(v, line, n \in dirty[d], FALSE, drifted, d)
        BY <2>1, <3>1, <4>1 DEF RowDefeated
      <4>3. QED
        BY <1>3, <1>6, <4>2 DEF v
    <3>2. CASE ~drifted
      <4>1. Clash(v, line) /\ Mine(line, d)
        BY <2>1, <2>4, <3>2 DEF Issues
      <4>2. AtMost(v.stamp, told[d][n])
        BY <2>3, <4>1 DEF Clash, Mine, HeardBy
      <4>3. QED
        BY <4>2 DEF v
    <3>3. QED
      BY <3>1, <3>2
  <2>5. CASE Adopts(v, line, FALSE, drifted) /\ ~Issues(v, line, FALSE, drifted, d)
    <3>1. ~drifted /\ Before(v.stamp, line.stamp)
      BY <2>1, <2>5 DEF Adopts
    <3>2. row'[d][n] = line
      BY <1>2, <1>6, <2>5 DEF Merged, Writes
    <3>3. CASE Same(v, line)
      BY <3>2, <3>3 DEF Same, v
    <3>4. CASE ~Same(v, line)
      <4>1. RowDefeated(v, line, n \in dirty[d], FALSE, drifted, d)
        BY <1>6, <2>1, <3>1, <3>4 DEF RowDefeated
      <4>2. QED
        BY <1>3, <1>6, <4>1 DEF v
    <3>5. QED
      BY <3>3, <3>4
  <2>6. CASE Overrules(v, line, FALSE, drifted, d)
    <3>1. RowDefeated(v, line, n \in dirty[d], FALSE, drifted, d)
      BY <2>1, <2>6 DEF RowDefeated
    <3>2. QED
      BY <1>3, <1>6, <3>1 DEF v
  <2>7. CASE ~Writes(v, line, FALSE, drifted, d)
    <3>1. row'[d][n] = v
      BY <1>2, <1>6, <2>7 DEF Merged, Writes
    <3>2. QED
      BY <3>1 DEF Same, v
  <2>8. QED
    BY <2>4, <2>5, <2>6, <2>7 DEF Writes
<1>7. QED
  BY <1>4, <1>5, <1>6

\* No edit is lost without a trace: in every vault, whatever the devices write,
\* merge and put back, however the folder moves and whenever the app dies, a
\* merge that takes away an edit no file carried has it in the log.
THEOREM OverwrittenAlwaysLogged == Spec => OverwrittenEditIsLogged
<1>1. Init => CarriedIInv
  BY TypeAtFirst, CarriedAtFirst DEF CarriedIInv
<1> DEFINE Kept == \A d \in Devices : MergeStep(d) =>
                      \A n \in dirty[d] \cap Nodes :
                          \/ AtMost(row[d][n].stamp, told[d][n])
                          \/ Same(row'[d][n], row[d][n])
                          \/ <<n, row[d][n]>> \in log'[d]
<1>2. CarriedIInv => Kept
  <2> SUFFICES ASSUME CarriedIInv, NEW d \in Devices, MergeStep(d), NEW n \in dirty[d] \cap Nodes
               PROVE  \/ AtMost(row[d][n].stamp, told[d][n])
                      \/ Same(row'[d][n], row[d][n])
                      \/ <<n, row[d][n]>> \in log'[d]
    OBVIOUS
  <2>1. PICK wall \in Nat : Merge(d, wall)
    BY VaultAssumption DEF MergeStep
  <2>2. QED
    BY <2>1, OverwrittenIsLogged
<1>3. CarriedIInv => [Kept]_vars
  BY <1>2
<1> HIDE DEF Kept
<1>4. Spec => [][Kept]_vars
  BY <1>1, <1>3, CarriedStep, PTL DEF Spec
<1>5. QED
  BY <1>4 DEF OverwrittenEditIsLogged, Kept

=============================================================================
