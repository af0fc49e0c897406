------------------------- MODULE SyncRuntimeProofs -------------------------
(***************************************************************************)
(* For any paths, ages, situations and order of the two threads: the types *)
(* of what they keep, and what an answered flush means.                    *)
(*                                                                         *)
(* An answer is given at the end of the pass that the flush began.  That   *)
(* pass begins with every document owed, nothing is edited or merged while *)
(* it runs, and nothing leaves its list but by being written or turned     *)
(* away.  That the pass is the flush's own needs a flush to be asked for   *)
(* once, after which nobody edits.                                         *)
(***************************************************************************)
EXTENDS SyncRuntime, SequenceTheorems, WellFoundedInduction, TLAPS

Ids == 0 .. made
Files == [id : Ids, shape : Shapes, stat : Ids]
Signals == {"touched", "flush"}

\* The folder, and what is recorded of it.
FilesTyped ==
    /\ made \in Nat
    /\ folder \in [Paths -> Files]
    /\ recorded \in [Paths -> [id : Ids, stat : Ids]]
    /\ refused \in [Paths -> Ids]

\* A path is either reported or waits to be verified, never both.
Queues ==
    {q \in [pending : [Paths -> 0 .. Quiet \cup {None}], verifying : SUBSET Paths] :
        \A p \in q.verifying : q.pending[p] = None}

\* The watch thread.
WatchTyped ==
    /\ inbox \in Seq(Paths) /\ queue \in Queues
    /\ swept \in 0 .. Sweep /\ sweeps \in 0 .. 3 /\ rested \in BOOLEAN
    /\ watch \in [phase : Phases, path : Nat, known : Ids, held : Files]
    /\ watch.phase \in {"look", "merge", "refuse"} => watch.path \in Paths

Windows == [first : 0 .. Ceiling \cup {None}, last : 0 .. Idle]
Writers == [phase : Passes, todo : SUBSET Paths, wrote : Ids, answer : BOOLEAN, last : BOOLEAN]

\* The export thread, and what a pass of it has left to do.
WriterTyped ==
    /\ owed \subseteq Paths /\ turned \subseteq owed /\ asked \subseteq Paths
    /\ signals \in Seq(Signals) /\ bounce \in Windows /\ writer \in Writers
    /\ {unpoked, reachable, badge} \subseteq BOOLEAN
    /\ closing \in {"open", "flush", "watch", "sync"}
    /\ Free => writer.todo = {}
    /\ ~ Free => writer.todo # {} /\ writer.todo \subseteq owed

\* A pass that somebody waits for is the flush's, and has seen to whatever was
\* owed when it was asked for, or has it before it.
Answering ==
    /\ \A i \in DOMAIN signals : signals[i] = "flush" => closing # "open"
    /\ writer.answer => /\ closing # "open" /\ ~ Free
                        /\ asked \cap owed \subseteq writer.todo \cup turned

RuntimeIInv == FilesTyped /\ WatchTyped /\ WriterTyped /\ Answering

-----------------------------------------------------------------------------
(* Queues, windows and the least of some paths.                            *)

\* Some paths have a least one.
LEMMA LeastIsOne ==
    ASSUME NEW S, S \subseteq Nat, S # {}
    PROVE  Least(S) \in S
<1>1. PICK m \in S : \A k \in S : ~(<<k, m>> \in OpToRel(<, Nat))
  BY NatLessThanWellFounded, WFMin, Zenon
<1>2. \A k \in S : ~(k < m)
  BY <1>1 DEF OpToRel
<1>3. \A k \in S : m <= k
  BY <1>2
<1>4. QED
  BY <1>3 DEF Least

\* An age goes no further than its limit.
LEMMA OlderTyped ==
    ASSUME NEW limit \in Nat, NEW age \in 0 .. limit \cup {None}
    PROVE  /\ Older(age, limit) \in 0 .. limit \cup {None}
           /\ age \in 0 .. limit => Older(age, limit) \in 0 .. limit \cup {None}
           /\ age = None => Older(age, limit) = None
BY DEF Older, None

\* The operations on a queue leave a queue, and one with something waiting names
\* a path.
LEMMA QueueTyped ==
    ASSUME NEW q \in Queues, NEW S \in SUBSET Paths
    PROVE  /\ EmptyQueue \in Queues
           /\ Saw(q, S) \in Queues
           /\ Verify(q, S) \in Queues
           /\ QueueAged(q) \in Queues
           /\ \A p \in Paths : Without(q, p) \in Queues
           /\ Waiting(q) # {} => NextInFlight(q) \in Paths
<1>1. /\ q.pending \in [Paths -> 0 .. Quiet \cup {None}] /\ q.verifying \in SUBSET Paths
      /\ \A p \in q.verifying : q.pending[p] = None
      /\ q = [pending |-> q.pending, verifying |-> q.verifying]
  BY DEF Queues
<1>2. Quiet \in Nat
  BY QueueAssumption
<1>3. EmptyQueue \in Queues
  BY DEF EmptyQueue, Queues
<1>4. Saw(q, S) \in Queues
  <2>1. [p \in Paths |-> IF p \in S THEN 0 ELSE q.pending[p]]
            \in [Paths -> 0 .. Quiet \cup {None}]
    BY <1>1, <1>2
  <2>2. QED
    BY <1>1, <2>1 DEF Saw, Queues
<1>5. Verify(q, S) \in Queues
  BY <1>1 DEF Verify, Queues
<1>6. QueueAged(q) \in Queues
  <2> DEFINE f == [p \in Paths |-> Older(q.pending[p], Quiet)]
  <2>1. f \in [Paths -> 0 .. Quiet \cup {None}]
    BY <1>1, <1>2, OlderTyped
  <2>2. \A p \in q.verifying : f[p] = None
    BY <1>1, <1>2, OlderTyped
  <2>3. QueueAged(q) = [pending |-> f, verifying |-> q.verifying]
    BY <1>1 DEF QueueAged
  <2> HIDE DEF f
  <2>4. QED
    BY <1>1, <2>1, <2>2, <2>3 DEF Queues
<1>7. ASSUME NEW p \in Paths
      PROVE  Without(q, p) \in Queues
  <2>1. [q.pending EXCEPT ![p] = None] \in [Paths -> 0 .. Quiet \cup {None}]
    BY <1>1
  <2>2. [q EXCEPT !.pending[p] = None]
            = [pending |-> [q.pending EXCEPT ![p] = None], verifying |-> q.verifying]
    BY <1>1
  <2>3. [q EXCEPT !.verifying = @ \ {p}]
            = [pending |-> q.pending, verifying |-> q.verifying \ {p}]
    BY <1>1
  <2>4. \A o \in q.verifying : [q.pending EXCEPT ![p] = None][o] = None
    BY <1>1
  <2>5. QED
    BY <1>1, <2>1, <2>2, <2>3, <2>4 DEF Without, Queues
<1>8. ASSUME Waiting(q) # {}
      PROVE  NextInFlight(q) \in Paths
  <2>1. Waiting(q) \subseteq Paths
    BY <1>1 DEF Waiting
  <2>2. QED
    BY <1>8, <2>1, LeastIsOne, QueueAssumption DEF NextInFlight
<1>9. QED
  BY <1>3, <1>4, <1>5, <1>6, <1>7, <1>8

\* debounce.rs: the ages of the first and of the last change.
LEMMA WindowTyped ==
    ASSUME NEW b \in Windows
    PROVE  Untouched \in Windows /\ Touched(b) \in Windows /\ BounceAged(b) \in Windows
<1>1. b.first \in 0 .. Ceiling \cup {None} /\ b.last \in 0 .. Idle
  BY DEF Windows
<1>2. Ceiling \in Nat /\ Idle \in Nat
  BY QueueAssumption
<1>3. Older(b.first, Ceiling) \in 0 .. Ceiling \cup {None}
  BY <1>1, <1>2, OlderTyped
<1>4. Older(b.last, Idle) \in 0 .. Idle
  BY <1>1, <1>2 DEF Older
<1>5. QED
  BY <1>1, <1>2, <1>3, <1>4 DEF Windows, Untouched, Touched, BounceAged

-----------------------------------------------------------------------------
(* The watch thread's part.                                                *)

\* More bytes to number leave what is numbered.
LEMMA IdsGrow ==
    ASSUME made \in Nat, made' = made \/ made' = made + 1
    PROVE  /\ made' \in Nat /\ made' \in Ids' /\ Ids \subseteq Ids' /\ Files \subseteq Files'
<1>1. made' \in Nat /\ made' \in Ids' /\ Ids \subseteq Ids'
  BY DEF Ids
<1>2. Files \subseteq Files'
  BY <1>1 DEF Files
<1>3. QED
  BY <1>1, <1>2

\* No file at all has a type too.
LEMMA NoFileTyped ==
    ASSUME made \in Nat
    PROVE  0 \in Ids /\ NoFile \in Files
BY DEF Ids, NoFile, Files, Shapes

\* An event is sent once.
LEMMA SentTyped ==
    ASSUME NEW S, NEW box \in Seq(S), NEW x \in S
    PROVE  /\ Sent(box, x) \in Seq(S)
           /\ \A i \in DOMAIN Sent(box, x) : Sent(box, x)[i] = x \/ \E j \in DOMAIN box : Sent(box, x)[i] = box[j]
<1>1. /\ Append(box, x) \in Seq(S) /\ Len(Append(box, x)) = Len(box) + 1
      /\ \A i \in 1 .. Len(box) : Append(box, x)[i] = box[i]
      /\ Append(box, x)[Len(box) + 1] = x
  BY AppendProperties
<1>2. DOMAIN Append(box, x) = 1 .. Len(box) + 1 /\ DOMAIN box = 1 .. Len(box) /\ Len(box) \in Nat
  BY <1>1, LenProperties
<1>3. QED
  BY <1>1, <1>2 DEF Sent

\* What is taken off a box was in it.
LEMMA TakenOff ==
    ASSUME NEW S, NEW box \in Seq(S), box # <<>>
    PROVE  /\ Tail(box) \in Seq(S)
           /\ \A i \in DOMAIN Tail(box) : \E j \in DOMAIN box : Tail(box)[i] = box[j]
<1>1. /\ Tail(box) \in Seq(S) /\ Len(Tail(box)) = Len(box) - 1
      /\ \A i \in 1 .. Len(Tail(box)) : Tail(box)[i] = box[i + 1]
  BY HeadTailProperties
<1>2. DOMAIN box = 1 .. Len(box) /\ Len(box) \in Nat /\ DOMAIN Tail(box) = 1 .. Len(Tail(box))
  BY <1>1, LenProperties
<1>3. \A i \in DOMAIN Tail(box) : i + 1 \in DOMAIN box
  BY <1>1, <1>2
<1>4. QED
  BY <1>1, <1>2, <1>3

\* What the watch thread keeps stays as it is when only the folder grows.
LEMMA WatchKept ==
    ASSUME RuntimeIInv, made' = made \/ made' = made + 1,
           UNCHANGED <<queue, swept, sweeps, rested, watch>>, inbox' \in Seq(Paths)
    PROVE  WatchTyped'
<1>1. Ids \subseteq Ids' /\ Files \subseteq Files'
  BY IdsGrow DEF RuntimeIInv, FilesTyped
<1>2. watch' \in [phase : Phases, path : Nat, known : Ids', held : Files']
  BY <1>1 DEF RuntimeIInv, WatchTyped
<1>3. QED
  BY <1>2 DEF RuntimeIInv, WatchTyped, Queues

\* What is recorded stays as it is when only the folder grows.
LEMMA FilesKept ==
    ASSUME RuntimeIInv, made' = made \/ made' = made + 1,
           folder' \in [Paths -> Files'], UNCHANGED <<recorded, refused>>
    PROVE  FilesTyped'
<1>1. Ids \subseteq Ids' /\ made' \in Nat
  BY IdsGrow DEF RuntimeIInv, FilesTyped
<1>2. recorded' \in [Paths -> [id : Ids', stat : Ids']] /\ refused' \in [Paths -> Ids']
  BY <1>1 DEF RuntimeIInv, FilesTyped
<1>3. QED
  BY <1>1, <1>2 DEF FilesTyped

\* The export thread's part stays as it is when only the folder grows.
LEMMA WriterKept ==
    ASSUME RuntimeIInv, made' = made \/ made' = made + 1,
           UNCHANGED <<owed, turned, writing, unpoked, closing>>
    PROVE  WriterTyped' /\ Answering'
<1>1. Ids \subseteq Ids'
  BY IdsGrow DEF RuntimeIInv, FilesTyped
<1>2. writer' \in Writers'
  BY <1>1 DEF RuntimeIInv, WriterTyped, Writers, writing
<1>3. WriterTyped'
  BY <1>2 DEF RuntimeIInv, WriterTyped, Writers, Windows, Free, writing
<1>4. Answering'
  BY DEF RuntimeIInv, Answering, Free, writing
<1>5. QED
  BY <1>3, <1>4

\* Where the watch thread is between two files.
LEMMA AtRest ==
    ASSUME FilesTyped
    PROVE  /\ {Listening, Working} \subseteq [phase : Phases, path : Nat, known : Ids, held : Files]
           /\ Listening.phase = "listen" /\ Working.phase = "work"
           /\ [Listening EXCEPT !.phase = "tell"] \in [phase : Phases, path : Nat, known : Ids, held : Files]
           /\ [Listening EXCEPT !.phase = "tell"].phase = "tell"
<1>1. NoFile \in Files /\ 0 \in Ids
  BY NoFileTyped DEF FilesTyped
<1>2. QED
  BY <1>1 DEF Listening, Working, Phases

-----------------------------------------------------------------------------
(* The folder, the user and the clock.                                     *)

\* Somebody else's bytes, or none.
LEMMA ChangeStep ==
    ASSUME RuntimeIInv, NEW p \in Paths, Change(p)
    PROVE  RuntimeIInv'
<1>1. /\ made' = made + 1 /\ inbox' \in {inbox, Sent(inbox, p)}
      /\ UNCHANGED <<recorded, refused, owed, turned, writing, queue, swept, sweeps, rested,
                     watch, unpoked, closing>>
  BY DEF Change, rows
<1>2. Files \subseteq Files' /\ made' \in Ids' /\ Ids \subseteq Ids' /\ NoFile \in Files'
  BY <1>1, IdsGrow, NoFileTyped DEF RuntimeIInv, FilesTyped
<1>3. folder' \in [Paths -> Files']
  <2>1. PICK shape \in {"none", "hollow", "page", "junk"}, kept \in BOOLEAN :
           folder' = [folder EXCEPT ![p] =
                IF shape = "none" THEN NoFile
                ELSE [id |-> made + 1, shape |-> shape,
                      stat |-> IF kept THEN folder[p].stat ELSE made + 1]]
    BY DEF Change
  <2>2. folder \in [Paths -> Files] /\ folder[p].stat \in Ids
    BY DEF RuntimeIInv, FilesTyped, Files
  <2> DEFINE new == IF shape = "none" THEN NoFile
                    ELSE [id |-> made + 1, shape |-> shape,
                          stat |-> IF kept THEN folder[p].stat ELSE made + 1]
  <2>3. new \in Files'
    <3> DEFINE stat == IF kept THEN folder[p].stat ELSE made + 1
    <3>1. stat \in Ids'
      BY <1>1, <1>2, <2>2
    <3> HIDE DEF stat
    <3>2. [id |-> made + 1, shape |-> shape, stat |-> stat] \in Files'
      BY <1>1, <1>2, <3>1 DEF Files, Shapes
    <3>3. QED
      BY <1>2, <3>2 DEF stat
  <2>4. folder' = [folder EXCEPT ![p] = new]
    BY <2>1
  <2> HIDE DEF new
  <2>5. QED
    BY <1>2, <2>2, <2>3, <2>4
<1>4. inbox' \in Seq(Paths)
  BY <1>1, SentTyped DEF RuntimeIInv, WatchTyped
<1>5. FilesTyped'
  BY <1>1, <1>3, FilesKept
<1>6. WatchTyped'
  BY <1>1, <1>4, WatchKept
<1>7. WriterTyped' /\ Answering'
  BY <1>1, WriterKept
<1>8. QED
  BY <1>5, <1>6, <1>7 DEF RuntimeIInv

\* The folder and what is recorded of it stay as they are.
LEMMA DiskKept ==
    ASSUME RuntimeIInv, UNCHANGED <<disk, recorded, refused>>
    PROVE  FilesTyped'
BY FilesKept DEF disk, RuntimeIInv, FilesTyped, Files, Ids

\* So with the watch thread.
LEMMA LookingKept ==
    ASSUME RuntimeIInv, UNCHANGED disk, UNCHANGED looking
    PROVE  WatchTyped'
BY WatchKept DEF disk, looking, RuntimeIInv, WatchTyped

\* And so with the export thread.
LEMMA WritingKept ==
    ASSUME RuntimeIInv, UNCHANGED disk, UNCHANGED <<owed, turned, writing, unpoked, closing>>
    PROVE  WriterTyped' /\ Answering'
BY WriterKept DEF disk

\* An event that nothing has come of.
LEMMA TouchStep ==
    ASSUME RuntimeIInv, NEW p \in Paths, Touch(p)
    PROVE  RuntimeIInv'
<1>1. /\ inbox' = Sent(inbox, p) /\ UNCHANGED disk
      /\ UNCHANGED <<recorded, refused, owed, turned, writing, queue, swept, sweeps, rested,
                     watch, unpoked, closing>>
  BY DEF Touch, rows
<1>2. inbox' \in Seq(Paths)
  BY <1>1, SentTyped DEF RuntimeIInv, WatchTyped
<1>3. FilesTyped' /\ WriterTyped' /\ Answering'
  BY <1>1, DiskKept, WritingKept
<1>4. WatchTyped'
  BY <1>1, <1>2, WatchKept DEF disk
<1>5. QED
  BY <1>3, <1>4 DEF RuntimeIInv

\* mutations.rs:10: a command changes rows while no pass runs and no flush waits.
LEMMA EditStep ==
    ASSUME RuntimeIInv, NEW p \in Paths, Edit(p)
    PROVE  RuntimeIInv'
<1>1. /\ closing = "open" /\ Free /\ owed' = owed \cup {p} /\ turned' = turned \ {p}
      /\ unpoked' = TRUE /\ UNCHANGED disk /\ UNCHANGED looking
      /\ UNCHANGED <<signals, bounce, writer, asked, reachable, badge, recorded, refused, closing>>
  BY DEF Edit, writing
<1>2. FilesTyped' /\ WatchTyped'
  BY <1>1, DiskKept, LookingKept
<1>3. writer' \in Writers'
  BY <1>1 DEF disk, RuntimeIInv, WriterTyped, Writers, Ids
<1>4. WriterTyped'
  BY <1>1, <1>3 DEF RuntimeIInv, WriterTyped, Windows, Free
<1>5. Answering'
  BY <1>1 DEF RuntimeIInv, Answering, Free
<1>6. QED
  BY <1>2, <1>4, <1>5 DEF RuntimeIInv

\* The export thread is poked; an outage begins and ends.
LEMMA PokeStep ==
    ASSUME RuntimeIInv, Poke \/ Outage \/ Return \/ Tell
    PROVE  RuntimeIInv'
<1>1. /\ UNCHANGED disk
      /\ UNCHANGED <<recorded, refused, owed, turned, writer, asked, badge, closing, bounce>>
      /\ signals' = signals \/ signals' = Sent(signals, "touched")
      /\ unpoked' \in BOOLEAN /\ reachable' \in BOOLEAN
  BY DEF Poke, Outage, Return, Tell, rows, RuntimeIInv, WriterTyped
<1>2. FilesTyped'
  BY <1>1, DiskKept
<1>3. WatchTyped'
  <2>1. CASE UNCHANGED looking
    BY <1>1, <2>1, LookingKept
  <2>2. CASE Tell
    <3>1. UNCHANGED <<inbox, queue, swept, sweeps, rested>> /\ watch' = Working
      BY <2>2 DEF Tell
    <3>2. watch' \in [phase : Phases, path : Nat, known : Ids', held : Files'] /\ watch'.phase = "work"
      BY <1>1, <1>2, <3>1, AtRest DEF RuntimeIInv, disk, Files, Ids
    <3>3. QED
      BY <3>1, <3>2 DEF RuntimeIInv, WatchTyped, Queues
  <2>3. QED
    BY <2>1, <2>2 DEF Poke, Outage, Return
<1>4. signals' \in Seq(Signals)
  BY <1>1, SentTyped DEF RuntimeIInv, WriterTyped, Signals
<1>5. \A i \in DOMAIN signals' : signals'[i] = "flush" => closing' # "open"
  <2>1. \A i \in DOMAIN signals' : signals'[i] = "touched" \/ \E j \in DOMAIN signals : signals'[i] = signals[j]
    BY <1>1, SentTyped DEF RuntimeIInv, WriterTyped, Signals
  <2>2. QED
    BY <1>1, <2>1 DEF RuntimeIInv, Answering
<1>6. writer' \in Writers'
  BY <1>1 DEF disk, RuntimeIInv, WriterTyped, Writers, Ids
<1>7. WriterTyped'
  BY <1>1, <1>4, <1>6 DEF RuntimeIInv, WriterTyped, Windows, Free
<1>8. Answering'
  BY <1>1, <1>5 DEF RuntimeIInv, Answering, Free
<1>9. QED
  BY <1>2, <1>3, <1>7, <1>8 DEF RuntimeIInv

\* Everything is one older.
LEMMA TickStep ==
    ASSUME RuntimeIInv, Tick
    PROVE  RuntimeIInv'
<1>1. /\ rested' = FALSE /\ queue' = QueueAged(queue) /\ swept' = Older(swept, Sweep)
      /\ bounce' = BounceAged(bounce) /\ UNCHANGED disk
      /\ UNCHANGED <<recorded, refused, owed, turned, inbox, sweeps, watch, unpoked, signals,
                     writer, asked, reachable, badge, closing>>
  BY DEF Tick, rows
<1>2. FilesTyped'
  BY <1>1, DiskKept
<1>3. queue' \in Queues
  BY <1>1, QueueTyped DEF RuntimeIInv, WatchTyped
<1>4. swept' \in 0 .. Sweep
  BY <1>1, RuntimeAssumption DEF RuntimeIInv, WatchTyped, Older
<1>5. bounce' \in Windows
  BY <1>1, WindowTyped DEF RuntimeIInv, WriterTyped
<1>6. WatchTyped'
  BY <1>1, <1>3, <1>4 DEF disk, RuntimeIInv, WatchTyped, Files, Ids, Queues
<1>7. writer' \in Writers'
  BY <1>1 DEF disk, RuntimeIInv, WriterTyped, Writers, Ids
<1>8. WriterTyped'
  BY <1>1, <1>5, <1>7 DEF RuntimeIInv, WriterTyped, Windows, Free
<1>9. Answering'
  BY <1>1 DEF RuntimeIInv, Answering, Free
<1>10. QED
  BY <1>2, <1>6, <1>8, <1>9 DEF RuntimeIInv

-----------------------------------------------------------------------------
(* The watch thread.                                                       *)

Watches == [phase : Phases, path : Nat, known : Ids, held : Files]

\* vault_watch.rs: one event, and the sweep when it is due.
LEMMA ListenStep ==
    ASSUME RuntimeIInv, Listen
    PROVE  RuntimeIInv'
<1> DEFINE heard == IF inbox = <<>> THEN queue ELSE Saw(queue, {Head(inbox)})
           count == IF sweeps = 3 THEN 3 ELSE sweeps + 1
<1>1. /\ rested' = TRUE /\ UNCHANGED disk
      /\ UNCHANGED <<recorded, owed, turned, unpoked, closing, writing>>
      /\ inbox' = IF inbox = <<>> THEN inbox ELSE Tail(inbox)
      /\ watch' = IF Waiting(queue') = {} THEN Listening ELSE Working
  BY DEF Listen, writing
<1>2. \/ /\ swept' = 0 /\ sweeps' = count /\ queue' = Swept(heard, count)
         /\ refused' = [p \in Paths |-> IF p \in Present THEN refused[p] ELSE 0]
      \/ queue' = heard /\ UNCHANGED <<swept, sweeps, refused>>
  BY DEF Listen
<1>3. inbox \in Seq(Paths) /\ queue \in Queues
  BY DEF RuntimeIInv, WatchTyped
<1>4. inbox' \in Seq(Paths)
  BY <1>1, <1>3, HeadTailProperties
<1>5. heard \in Queues
  BY <1>3, HeadTailProperties, QueueTyped
<1>6. count \in 0 .. 3
  BY DEF RuntimeIInv, WatchTyped
<1> HIDE DEF heard, count
<1>7. Swept(heard, count) \in Queues
  BY <1>5, QueueTyped DEF Swept, Present
<1>8. queue' \in Queues /\ swept' \in 0 .. Sweep /\ sweeps' \in 0 .. 3
  BY <1>2, <1>5, <1>6, <1>7, RuntimeAssumption DEF RuntimeIInv, WatchTyped
<1>9. refused' \in [Paths -> Ids]
  BY <1>2, NoFileTyped DEF RuntimeIInv, FilesTyped
<1>10. FilesTyped'
  BY <1>1, <1>9 DEF disk, RuntimeIInv, FilesTyped, Files, Ids
<1>11. watch' \in Watches /\ watch'.phase \in {"listen", "work"}
  BY <1>1, AtRest DEF RuntimeIInv, Watches
<1>12. WatchTyped'
  BY <1>1, <1>4, <1>8, <1>11 DEF disk, WatchTyped, Watches, Files, Ids
<1>13. QED
  BY <1>1, <1>10, <1>12, WritingKept DEF RuntimeIInv

\* The next file of the queue.
LEMMA TakeStep ==
    ASSUME RuntimeIInv, Take
    PROVE  RuntimeIInv'
<1>1. /\ UNCHANGED disk
      /\ UNCHANGED <<recorded, refused, owed, turned, writing, inbox, swept, sweeps, rested,
                     unpoked, closing>>
  BY DEF Take, rows
<1>2. FilesTyped' /\ WriterTyped' /\ Answering'
  BY <1>1, DiskKept, WritingKept
<1>3. CASE Waiting(queue) = {}
  <2>1. watch' = Listening /\ queue' = queue
    BY <1>3 DEF Take
  <2>2. watch' \in Watches /\ watch'.phase = "listen"
    BY <2>1, AtRest DEF RuntimeIInv, Watches
  <2>3. WatchTyped'
    BY <1>1, <2>1, <2>2 DEF disk, RuntimeIInv, WatchTyped, Watches, Files, Ids
  <2>4. QED
    BY <1>2, <2>3 DEF RuntimeIInv
<1>4. CASE Waiting(queue) # {}
  <2> DEFINE p == NextInFlight(queue)
  <2>1. /\ queue' = Without(queue, p)
        /\ watch' = [phase |-> "look", path |-> p, known |-> FileHash(p), held |-> NoFile]
    BY <1>4 DEF Take
  <2>2. p \in Paths /\ p \in Nat /\ Without(queue, p) \in Queues
    BY <1>4, QueueTyped, QueueAssumption DEF RuntimeIInv, WatchTyped
  <2> HIDE DEF p
  <2>3. FileHash(p) \in Ids
    BY <2>2 DEF FileHash, RuntimeIInv, FilesTyped
  <2>4. watch' \in Watches /\ watch'.path = p
    BY <2>1, <2>2, <2>3, NoFileTyped DEF RuntimeIInv, FilesTyped, Watches, Phases
  <2>5. WatchTyped'
    BY <1>1, <2>1, <2>2, <2>4 DEF disk, RuntimeIInv, WatchTyped, Watches, Files, Ids
  <2>6. QED
    BY <1>2, <2>5 DEF RuntimeIInv
<1>5. QED
  BY <1>3, <1>4

\* What stands there now.
LEMMA LookStep ==
    ASSUME RuntimeIInv, Look
    PROVE  RuntimeIInv'
<1>1. /\ UNCHANGED disk /\ watch.phase = "look"
      /\ UNCHANGED <<recorded, refused, owed, turned, writing, inbox, queue, swept, sweeps, rested,
                     unpoked, closing>>
  BY DEF Look, rows
<1>2. FilesTyped' /\ WriterTyped' /\ Answering'
  BY <1>1, DiskKept, WritingKept
<1>3. watch \in Watches /\ watch.path \in Paths /\ folder[watch.path] \in Files
  BY <1>1 DEF RuntimeIInv, WatchTyped, FilesTyped, Watches
<1>4. \/ watch' = Working
      \/ watch' = [watch EXCEPT !.phase = "refuse", !.held = folder[watch.path]]
      \/ watch' = [watch EXCEPT !.phase = "merge", !.held = folder[watch.path]]
  <2> DEFINE f == folder[watch.path]
             verdict == CASE f.shape \in {"none", "hollow"} \/ f.id = watch.known -> "work"
                          [] f.shape = "junk" /\ f.id # watch.known -> "refuse"
                          [] OTHER -> "merge"
  <2>1. verdict \in {"work", "refuse", "merge"}
    OBVIOUS
  <2>2. watch' = IF verdict = "work" THEN Working ELSE [watch EXCEPT !.phase = verdict, !.held = f]
    BY DEF Look
  <2> HIDE DEF verdict
  <2>3. QED
    BY <2>1, <2>2
<1>5. watch' \in Watches /\ (watch'.phase = "work" \/ watch'.path = watch.path)
  <2>1. Working \in Watches /\ Working.phase = "work"
    BY AtRest DEF RuntimeIInv, Watches
  <2>2. QED
    BY <1>3, <1>4, <2>1 DEF Watches, Phases
<1>6. WatchTyped'
  BY <1>1, <1>3, <1>5 DEF disk, RuntimeIInv, WatchTyped, Watches, Files, Ids
<1>7. QED
  BY <1>2, <1>6 DEF RuntimeIInv

\* The worker merges what was read, which it does not do during a pass.
LEMMA MergeStep ==
    ASSUME RuntimeIInv, Merge
    PROVE  RuntimeIInv'
<1>1. /\ Free /\ watch.phase = "merge" /\ UNCHANGED disk
      /\ UNCHANGED <<writing, inbox, queue, swept, sweeps, rested, unpoked, closing>>
      /\ recorded' = [recorded EXCEPT ![watch.path] = [id |-> watch.held.id, stat |-> watch.held.stat]]
      /\ refused' = [refused EXCEPT ![watch.path] = 0]
  BY DEF Merge
<1>2. \/ watch' = Working /\ UNCHANGED <<owed, turned>>
      \/ /\ watch' = [Listening EXCEPT !.phase = "tell"]
         /\ owed' \in {owed, owed \cup {watch.path}} /\ turned' = turned \ {watch.path}
  BY DEF Merge
<1>3. watch \in Watches /\ watch.path \in Paths /\ watch.held \in Files
  BY <1>1 DEF RuntimeIInv, WatchTyped, Watches
<1>4. FilesTyped'
  <2>1. [id |-> watch.held.id, stat |-> watch.held.stat] \in [id : Ids, stat : Ids]
    BY <1>3 DEF Files
  <2>2. recorded' \in [Paths -> [id : Ids, stat : Ids]] /\ refused' \in [Paths -> Ids]
    BY <1>1, <2>1, NoFileTyped DEF RuntimeIInv, FilesTyped
  <2>3. QED
    BY <1>1, <2>2 DEF disk, RuntimeIInv, FilesTyped, Files, Ids
<1>5. watch' \in Watches /\ watch'.phase \in {"work", "tell"}
  BY <1>2, AtRest DEF RuntimeIInv, Watches
<1>6. WatchTyped'
  BY <1>1, <1>5 DEF disk, RuntimeIInv, WatchTyped, Watches, Files, Ids
<1>7. owed' \subseteq Paths /\ turned' \subseteq owed'
  BY <1>2, <1>3 DEF RuntimeIInv, WriterTyped
<1>8. writer' \in Writers'
  BY <1>1 DEF disk, writing, RuntimeIInv, WriterTyped, Writers, Ids
<1>9. WriterTyped'
  BY <1>1, <1>7, <1>8 DEF writing, RuntimeIInv, WriterTyped, Windows, Free
<1>10. Answering'
  BY <1>1 DEF writing, RuntimeIInv, Answering, Free
<1>11. QED
  BY <1>4, <1>6, <1>9, <1>10 DEF RuntimeIInv

\* What could not be read is written down.
LEMMA RefuseStep ==
    ASSUME RuntimeIInv, Refuse
    PROVE  RuntimeIInv'
<1>1. /\ watch.phase = "refuse" /\ watch' = Working /\ UNCHANGED disk
      /\ UNCHANGED <<recorded, owed, turned, writing, inbox, queue, swept, sweeps, rested,
                     unpoked, closing>>
      /\ refused' = IF FileAt(watch.path)
                    THEN [refused EXCEPT ![watch.path] = folder[watch.path].id] ELSE refused
  BY DEF Refuse
<1>2. folder[watch.path].id \in Ids
  BY <1>1 DEF RuntimeIInv, WatchTyped, FilesTyped, Files
<1>3. refused' \in [Paths -> Ids]
  BY <1>1, <1>2 DEF RuntimeIInv, FilesTyped
<1>4. FilesTyped'
  BY <1>1, <1>3 DEF disk, RuntimeIInv, FilesTyped, Files, Ids
<1>5. watch' \in Watches /\ watch'.phase = "work"
  BY <1>1, AtRest DEF RuntimeIInv, Watches
<1>6. WatchTyped'
  BY <1>1, <1>5 DEF disk, RuntimeIInv, WatchTyped, Watches, Files, Ids
<1>7. QED
  BY <1>1, <1>4, <1>6, WritingKept DEF RuntimeIInv

\* A watch that is put in the place of this one, and one that is let go of.
LEMMA RestartStep ==
    ASSUME RuntimeIInv, Restart \/ Stop
    PROVE  RuntimeIInv'
<1>1. /\ UNCHANGED disk
      /\ UNCHANGED <<recorded, refused, owed, turned, writing, unpoked, closing>>
  BY DEF Restart, Stop, rows
<1>2. FilesTyped' /\ WriterTyped' /\ Answering'
  BY <1>1, DiskKept, WritingKept
<1>3. WatchTyped'
  <2>1. CASE Restart
    <3>1. watch' \in Watches /\ watch'.phase = "listen"
      BY <2>1, AtRest DEF Restart, RuntimeIInv, Watches
    <3>2. inbox' \in Seq(Paths) /\ queue' \in Queues
      <4>1. queue \in Queues /\ {} \in SUBSET Paths
        BY DEF RuntimeIInv, WatchTyped
      <4>2. EmptyQueue \in Queues
        BY <4>1, QueueTyped
      <4>3. QED
        BY <2>1, <4>2 DEF Restart
    <3>3. swept' = Sweep /\ sweeps' = 0 /\ rested' = TRUE /\ Sweep \in 0 .. Sweep
      BY <2>1, RuntimeAssumption DEF Restart
    <3>4. QED
      BY <1>1, <3>1, <3>2, <3>3 DEF disk, WatchTyped, Watches, Files, Ids
  <2>2. CASE Stop
    <3>1. /\ watch' = [watch EXCEPT !.phase = "gone"]
          /\ UNCHANGED <<inbox, queue, swept, sweeps, rested>>
      BY <2>2 DEF Stop
    <3>2. watch' \in Watches /\ watch'.phase = "gone"
      BY <3>1 DEF RuntimeIInv, WatchTyped, Watches, Phases
    <3>3. QED
      BY <1>1, <3>1, <3>2 DEF disk, RuntimeIInv, WatchTyped, Watches, Files, Ids
  <2>3. QED
    BY <2>1, <2>2
<1>4. QED
  BY <1>2, <1>3 DEF RuntimeIInv

-----------------------------------------------------------------------------
(* The export thread.                                                      *)

\* What the answer to a flush has to mean, when a step gives it.
AnswerMeansTried ==
    closing = "flush" /\ closing' # "flush" => asked \cap owed' \subseteq turned'

\* The end of a pass leaves the thread idle.
LEMMA ExportedTyped ==
    ASSUME RuntimeIInv, NEW w \in Writers, Exported(w)
    PROVE  /\ writer' \in Writers /\ writer'.phase \in {"wait", "ended"} /\ writer'.todo = {}
           /\ writer'.answer = FALSE /\ bounce' \in Windows
           /\ closing' = closing \/ (w.answer /\ closing' = "watch")
<1>1. Idling \in Writers
  BY NoFileTyped DEF Idling, Writers, Passes, RuntimeIInv, FilesTyped
<1>2. writer' \in Writers /\ writer'.phase \in {"wait", "ended"} /\ writer'.todo = {} /\ writer'.answer = FALSE
  <2>1. \/ writer' = [Idling EXCEPT !.phase = "wait"]
        \/ writer' = [Idling EXCEPT !.phase = "ended"]
    BY DEF Exported
  <2>2. QED
    BY <1>1, <2>1 DEF Idling, Writers, Passes
<1>3. bounce \in Windows
  BY DEF RuntimeIInv, WriterTyped
<1>4. bounce' \in Windows
  BY <1>3, WindowTyped DEF Exported
<1>5. closing' = closing \/ (w.answer /\ closing' = "watch")
  BY DEF Exported, AfterFlush
<1>6. QED
  BY <1>2, <1>4, <1>5

\* sync_merge.rs:289: a pass begins with every document owed, ends at once when there is
\* none, and turns them all away when the folder cannot be reached.
LEMMA PassBeginsStep ==
    ASSUME RuntimeIInv, NEW w \in Writers, w.phase = "wait", w.todo = {},
           PassBegins(w), Free, w.answer => closing # "open",
           UNCHANGED disk, UNCHANGED looking,
           UNCHANGED <<recorded, refused, owed, unpoked, asked, reachable>>,
           \/ signals' = signals
           \/ signals # <<>> /\ signals' = Tail(signals)
    PROVE  RuntimeIInv' /\ AnswerMeansTried
<1>1. FilesTyped' /\ WatchTyped'
  BY DiskKept, LookingKept
<1>2. /\ signals' \in Seq(Signals)
      /\ \A i \in DOMAIN signals' : signals'[i] = "flush" => closing # "open"
  <2>1. CASE signals' = signals
    BY <2>1 DEF RuntimeIInv, WriterTyped, Answering
  <2>2. CASE signals # <<>> /\ signals' = Tail(signals)
    <3>1. signals \in Seq(Signals)
      BY DEF RuntimeIInv, WriterTyped
    <3>2. /\ Tail(signals) \in Seq(Signals)
          /\ \A i \in DOMAIN Tail(signals) : \E j \in DOMAIN signals : Tail(signals)[i] = signals[j]
      BY <2>2, <3>1, TakenOff
    <3>3. QED
      BY <2>2, <3>2 DEF RuntimeIInv, Answering
  <2>3. QED
    BY <2>1, <2>2
<1>3. writer' \in Writers => writer' \in Writers'
  BY DEF disk, Writers, Ids
<1>4. unpoked' \in BOOLEAN /\ reachable' \in BOOLEAN /\ owed' \subseteq Paths /\ asked' \subseteq Paths
  BY DEF RuntimeIInv, WriterTyped
<1>5. CASE reachable /\ owed # {} /\ writer' = [w EXCEPT !.phase = "write", !.todo = owed]
           /\ UNCHANGED <<bounce, badge, turned, closing>>
  <2>1. writer' = [phase |-> "write", todo |-> owed, wrote |-> w.wrote, answer |-> w.answer, last |-> w.last]
    BY <1>5 DEF Writers
  <2>2. writer' \in Writers
    BY <2>1 DEF Writers, Passes, RuntimeIInv, WriterTyped
  <2>3. WriterTyped'
    BY <1>2, <1>3, <1>4, <1>5, <2>1, <2>2 DEF RuntimeIInv, WriterTyped, Windows, Free
  <2>4. Answering'
    BY <1>2, <1>5, <2>1 DEF Answering, Free
  <2>5. QED
    BY <1>1, <1>5, <2>3, <2>4 DEF RuntimeIInv, AnswerMeansTried
<1>6. CASE Exported(w) /\ badge' \in BOOLEAN /\ turned' \subseteq owed /\ owed \subseteq turned'
  <2>1. /\ writer' \in Writers /\ writer'.phase \in {"wait", "ended"} /\ writer'.todo = {}
        /\ writer'.answer = FALSE /\ bounce' \in Windows
        /\ closing' = closing \/ (w.answer /\ closing' = "watch")
    BY <1>6, ExportedTyped
  <2>2. closing' \in {"open", "flush", "watch", "sync"}
    BY <2>1 DEF RuntimeIInv, WriterTyped
  <2>3. WriterTyped'
    BY <1>2, <1>3, <1>4, <1>6, <2>1, <2>2 DEF WriterTyped, Windows, Free
  <2>4. Answering'
    BY <1>2, <2>1 DEF Answering, Free
  <2>5. QED
    BY <1>1, <1>6, <2>3, <2>4 DEF RuntimeIInv, AnswerMeansTried
<1>7. CASE reachable /\ owed = {} /\ badge' = FALSE /\ Exported(w) /\ turned' = turned
  BY <1>6, <1>7 DEF RuntimeIInv, WriterTyped
<1>8. CASE badge' = TRUE /\ turned' = owed /\ Exported(w)
  BY <1>6, <1>8
<1>9. QED
  BY <1>5, <1>7, <1>8 DEF PassBegins

\* The thread between two passes.
LEMMA Waits ==
    ASSUME RuntimeIInv, writer.phase = "wait"
    PROVE  Free /\ writer \in Writers /\ writer.todo = {} /\ writer.answer = FALSE
BY DEF RuntimeIInv, WriterTyped, Answering, Free, Writers

\* sync_runtime.rs: the thread hears of a change, or of somebody who waits.
LEMMA ReceiveStep ==
    ASSUME RuntimeIInv, Receive
    PROVE  RuntimeIInv' /\ AnswerMeansTried
<1>1. /\ writer.phase = "wait" /\ signals # <<>> /\ signals' = Tail(signals)
      /\ UNCHANGED disk /\ UNCHANGED looking
      /\ UNCHANGED <<recorded, refused, owed, unpoked, asked, reachable>>
  BY DEF Receive
<1>2. Free /\ writer \in Writers /\ writer.todo = {} /\ writer.answer = FALSE
  BY <1>1, Waits
<1>3. CASE bounce' = Touched(bounce) /\ UNCHANGED <<writer, badge, turned, closing>>
  <2>1. FilesTyped' /\ WatchTyped'
    BY <1>1, DiskKept, LookingKept DEF rows
  <2>2. signals \in Seq(Signals) /\ bounce \in Windows
    BY DEF RuntimeIInv, WriterTyped
  <2>3. bounce' \in Windows
    BY <1>3, <2>2, WindowTyped
  <2>4. /\ Tail(signals) \in Seq(Signals)
        /\ \A i \in DOMAIN Tail(signals) : \E j \in DOMAIN signals : Tail(signals)[i] = signals[j]
    BY <1>1, <2>2, TakenOff
  <2>5. writer' \in Writers'
    BY <1>1, <1>2, <1>3 DEF disk, Writers, Ids
  <2>6. WriterTyped'
    BY <1>1, <1>3, <2>3, <2>4, <2>5 DEF RuntimeIInv, WriterTyped, Windows, Free
  <2>7. Answering'
    BY <1>1, <1>2, <1>3, <2>4 DEF RuntimeIInv, Answering, Free
  <2>8. QED
    BY <1>3, <2>1, <2>6, <2>7 DEF RuntimeIInv, AnswerMeansTried
<1>4. CASE Head(signals) = "flush" /\ Flushed([writer EXCEPT !.answer = TRUE])
  <2> DEFINE w == [writer EXCEPT !.answer = TRUE]
  <2>1. w \in Writers /\ w.phase = "wait" /\ w.todo = {}
    BY <1>1, <1>2 DEF Writers
  <2>2. closing # "open"
    <3>1. signals \in Seq(Signals) /\ Len(signals) > 0 /\ Head(signals) = signals[1] /\ 1 \in DOMAIN signals
      BY <1>1 DEF RuntimeIInv, WriterTyped
    <3>2. QED
      BY <1>4, <3>1 DEF RuntimeIInv, Answering
  <2>3. PassBegins(w)
    BY <1>4 DEF Flushed
  <2> HIDE DEF w
  <2>4. QED
    BY <1>1, <1>2, <2>1, <2>2, <2>3, PassBeginsStep
<1>5. QED
  BY <1>3, <1>4 DEF Receive

\* The window of a change closes; and the last pass.
LEMMA TimeOutStep ==
    ASSUME RuntimeIInv, TimeOut \/ Disconnected
    PROVE  RuntimeIInv' /\ AnswerMeansTried
<1>1. /\ writer.phase = "wait" /\ UNCHANGED disk /\ UNCHANGED looking
      /\ UNCHANGED <<recorded, refused, owed, unpoked, signals, asked, reachable>>
  BY DEF TimeOut, Disconnected
<1>2. Free /\ writer \in Writers /\ writer.todo = {} /\ writer.answer = FALSE
  BY <1>1, Waits
<1>3. CASE PassBegins(writer)
  BY <1>1, <1>2, <1>3, PassBeginsStep
<1>4. CASE PassBegins([writer EXCEPT !.last = TRUE])
  <2> DEFINE w == [writer EXCEPT !.last = TRUE]
  <2>1. w \in Writers /\ w.phase = "wait" /\ w.todo = {} /\ w.answer = FALSE
    BY <1>1, <1>2 DEF Writers
  <2> HIDE DEF w
  <2>2. PassBegins(w)
    BY <1>4 DEF w
  <2>3. QED
    BY <1>1, <1>2, <2>1, <2>2, PassBeginsStep
<1>5. QED
  BY <1>3, <1>4 DEF TimeOut, Disconnected

\* sync_merge.rs:289: the pass goes on to the next document, or is over.
LEMMA OnwardStep ==
    ASSUME RuntimeIInv, FilesTyped', WatchTyped', Onward(writer.todo \ {Least(writer.todo)}),
           ~ Free, made' = made \/ made' = made + 1,
           UNCHANGED <<unpoked, signals, asked, reachable>>,
           owed' \subseteq owed, owed \ {Least(writer.todo)} \subseteq owed',
           turned \ {Least(writer.todo)} \subseteq turned', turned' \subseteq owed',
           Least(writer.todo) \in owed' => Least(writer.todo) \in turned'
    PROVE  RuntimeIInv' /\ AnswerMeansTried
<1> DEFINE p == Least(writer.todo)
           rest == writer.todo \ {p}
<1>1. writer \in Writers /\ writer.todo \subseteq owed /\ owed \subseteq Paths /\ p \in writer.todo
  <2>1. writer \in Writers /\ writer.todo \subseteq owed /\ owed \subseteq Paths /\ writer.todo # {}
    BY DEF RuntimeIInv, WriterTyped
  <2>2. QED
    BY <2>1, LeastIsOne, QueueAssumption
<1>2. Ids \subseteq Ids'
  BY IdsGrow DEF RuntimeIInv, FilesTyped
<1>3. \A w : w \in Writers => w \in Writers'
  BY <1>2 DEF Writers
<1>4. /\ writer.answer => closing # "open" /\ asked \cap owed' \subseteq rest \cup turned'
      /\ \A i \in DOMAIN signals' : signals'[i] = "flush" => closing # "open"
  BY <1>1 DEF RuntimeIInv, Answering
<1>5. /\ owed' \subseteq Paths /\ asked' \subseteq Paths /\ signals' \in Seq(Signals)
      /\ unpoked' \in BOOLEAN /\ reachable' \in BOOLEAN
  BY <1>1 DEF RuntimeIInv, WriterTyped
<1> HIDE DEF p
<1>6. CASE rest = {}
  <2>1. badge' = FALSE /\ Exported(writer)
    BY <1>6 DEF Onward, p
  <2>2. /\ writer' \in Writers /\ writer'.phase \in {"wait", "ended"} /\ writer'.todo = {}
        /\ writer'.answer = FALSE /\ bounce' \in Windows
        /\ closing' = closing \/ (writer.answer /\ closing' = "watch")
    BY <1>1, <2>1, ExportedTyped
  <2>3. closing' \in {"open", "flush", "watch", "sync"}
    BY <2>2 DEF RuntimeIInv, WriterTyped
  <2>4. WriterTyped'
    BY <1>3, <1>5, <2>1, <2>2, <2>3 DEF WriterTyped, Windows, Free
  <2>5. Answering'
    BY <1>4, <2>2 DEF Answering, Free
  <2>6. AnswerMeansTried
    BY <1>4, <1>6, <2>2 DEF AnswerMeansTried
  <2>7. QED
    BY <2>4, <2>5, <2>6 DEF RuntimeIInv
<1>7. CASE rest # {}
  <2>1. /\ writer' = [writer EXCEPT !.phase = "write", !.todo = rest, !.wrote = 0]
        /\ UNCHANGED <<bounce, badge, closing>>
    BY <1>7 DEF Onward, p
  <2> HIDE DEF rest
  <2>2. writer' = [phase |-> "write", todo |-> rest, wrote |-> 0, answer |-> writer.answer, last |-> writer.last]
    BY <1>1, <2>1 DEF Writers
  <2>3. rest \subseteq Paths /\ rest \subseteq owed'
    BY <1>1 DEF rest, p
  <2>4. writer' \in Writers
    BY <1>1, <2>2, <2>3, NoFileTyped DEF Writers, Passes, RuntimeIInv, FilesTyped
  <2>5. WriterTyped'
    BY <1>3, <1>5, <1>7, <2>1, <2>2, <2>3, <2>4 DEF RuntimeIInv, WriterTyped, Windows, Free
  <2>6. Answering'
    BY <1>4, <2>1, <2>2 DEF Answering, Free, rest
  <2>7. QED
    BY <2>1, <2>5, <2>6 DEF RuntimeIInv, AnswerMeansTried
<1>8. QED
  BY <1>6, <1>7

\* A document is written or found written, or left to the merge.
LEMMA WriteDocumentStep ==
    ASSUME RuntimeIInv, WriteDocument
    PROVE  RuntimeIInv' /\ AnswerMeansTried
<1> DEFINE p == Least(writer.todo)
<1>1. /\ writer.phase = "write" /\ ~ Free
      /\ UNCHANGED <<recorded, refused, owed, queue, swept, sweeps, rested, watch, unpoked,
                     signals, asked, reachable>>
  BY DEF WriteDocument, Free
<1>2. writer \in Writers /\ p \in Paths /\ p \in writer.todo /\ p \in owed
  <2>1. writer \in Writers /\ writer.todo \subseteq owed /\ owed \subseteq Paths /\ writer.todo # {}
    BY <1>1 DEF RuntimeIInv, WriterTyped
  <2>2. QED
    BY <2>1, LeastIsOne, QueueAssumption
<1>3. ASSUME made' = made \/ made' = made + 1, folder' \in [Paths -> Files'],
             inbox' \in Seq(Paths), NEW id \in Ids', UNCHANGED <<turned, bounce, badge, closing>>,
             writer' = [writer EXCEPT !.phase = "record", !.wrote = id]
      PROVE  RuntimeIInv' /\ AnswerMeansTried
  <2>1. FilesTyped' /\ WatchTyped'
    BY <1>1, <1>3, FilesKept, WatchKept
  <2>2. Ids \subseteq Ids'
    BY <1>3, IdsGrow DEF RuntimeIInv, FilesTyped
  <2>3. writer' = [phase |-> "record", todo |-> writer.todo, wrote |-> id,
                   answer |-> writer.answer, last |-> writer.last]
    BY <1>2, <1>3 DEF Writers
  <2>4. writer' \in Writers'
    BY <1>2, <1>3, <2>3 DEF Writers, Passes
  <2>5. WriterTyped'
    BY <1>1, <1>3, <2>3, <2>4 DEF RuntimeIInv, WriterTyped, Windows, Free
  <2>6. Answering'
    BY <1>1, <1>3, <2>3 DEF RuntimeIInv, Answering, Free
  <2>7. QED
    BY <1>3, <2>1, <2>5, <2>6 DEF RuntimeIInv, AnswerMeansTried
<1> HIDE DEF p
<1>4. CASE /\ folder' = [folder EXCEPT ![p] = [id |-> made + 1, shape |-> "own", stat |-> made + 1]]
           /\ made' = made + 1 /\ inbox' \in {inbox, Sent(inbox, p)}
           /\ writer' = [writer EXCEPT !.phase = "record", !.wrote = made + 1]
           /\ UNCHANGED <<turned, bounce, badge, closing>>
  <2>1. made' \in Ids' /\ Files \subseteq Files' /\ folder \in [Paths -> Files]
    BY <1>4, IdsGrow DEF RuntimeIInv, FilesTyped
  <2>2. [id |-> made + 1, shape |-> "own", stat |-> made + 1] \in Files'
    BY <1>4, <2>1 DEF Files, Shapes
  <2>3. folder' \in [Paths -> Files']
    BY <1>4, <2>1, <2>2
  <2>4. inbox' \in Seq(Paths)
    BY <1>2, <1>4, SentTyped DEF RuntimeIInv, WatchTyped
  <2>5. QED
    BY <1>3, <1>4, <2>1, <2>3, <2>4
<1>5. CASE /\ writer' = [writer EXCEPT !.phase = "record", !.wrote = folder[p].id]
           /\ UNCHANGED <<disk, inbox, turned, bounce, badge, closing>>
  <2>1. folder[p].id \in Ids' /\ folder' \in [Paths -> Files'] /\ made' = made
    BY <1>2, <1>5 DEF disk, RuntimeIInv, FilesTyped, Files, Ids
  <2>2. inbox' \in Seq(Paths)
    BY <1>5 DEF RuntimeIInv, WatchTyped
  <2>3. QED
    BY <1>3, <1>5, <2>1, <2>2
<1>6. CASE turned' = turned \cup {p} /\ Onward(writer.todo \ {p}) /\ UNCHANGED <<disk, inbox>>
  <2>1. FilesTyped' /\ WatchTyped'
    BY <1>1, <1>6, DiskKept, LookingKept DEF looking
  <2>2. turned' \subseteq owed'
    BY <1>1, <1>2, <1>6 DEF RuntimeIInv, WriterTyped
  <2>3. QED
    BY <1>1, <1>2, <1>6, <2>1, <2>2, OnwardStep DEF p, disk
<1>7. QED
  BY <1>4, <1>5, <1>6 DEF WriteDocument, p

\* What was written is recorded, and owed no more.
LEMMA RecordDocumentStep ==
    ASSUME RuntimeIInv, RecordDocument
    PROVE  RuntimeIInv' /\ AnswerMeansTried
<1> DEFINE p == Least(writer.todo)
<1>1. /\ writer.phase = "record" /\ ~ Free /\ UNCHANGED disk /\ UNCHANGED looking
      /\ UNCHANGED <<refused, unpoked, signals, asked, reachable>>
      /\ recorded' = [recorded EXCEPT ![p] = [id |-> writer.wrote, stat |-> folder[p].stat]]
      /\ owed' = owed \ {p} /\ turned' = turned \ {p} /\ Onward(writer.todo \ {p})
  BY DEF RecordDocument, Free
<1>2. writer \in Writers /\ p \in Paths
  <2>1. writer \in Writers /\ writer.todo \subseteq Paths /\ writer.todo # {}
    BY <1>1 DEF RuntimeIInv, WriterTyped
  <2>2. QED
    BY <2>1, LeastIsOne, QueueAssumption
<1>3. FilesTyped'
  <2> HIDE DEF p
  <2>1. [id |-> writer.wrote, stat |-> folder[p].stat] \in [id : Ids, stat : Ids]
    BY <1>2 DEF RuntimeIInv, FilesTyped, Files, Writers
  <2>2. recorded' \in [Paths -> [id : Ids, stat : Ids]]
    BY <1>1, <2>1 DEF RuntimeIInv, FilesTyped
  <2>3. QED
    BY <1>1, <2>2 DEF disk, RuntimeIInv, FilesTyped, Files, Ids
<1>4. WatchTyped'
  BY <1>1, LookingKept
<1>5. turned \subseteq owed
  BY DEF RuntimeIInv, WriterTyped
<1>6. QED
  BY <1>1, <1>3, <1>4, <1>5, OnwardStep DEF disk

\* lib.rs:184: a flush is asked for once, and the watch is let go of after it.
LEMMA ClosingStep ==
    ASSUME RuntimeIInv, AskFlush \/ DropSync
    PROVE  RuntimeIInv' /\ AnswerMeansTried
<1>1. /\ UNCHANGED disk /\ UNCHANGED looking
      /\ UNCHANGED <<recorded, refused, owed, turned, unpoked, bounce, writer, reachable, badge>>
  BY DEF AskFlush, DropSync, rows, writing
<1>2. FilesTyped' /\ WatchTyped'
  BY <1>1, DiskKept, LookingKept
<1>3. writer' \in Writers'
  BY <1>1 DEF disk, RuntimeIInv, WriterTyped, Writers, Ids
<1>4. CASE AskFlush
  <2>1. /\ closing = "open" /\ closing' = "flush" /\ asked' = owed
        /\ signals' = Sent(signals, "flush")
    BY <1>4 DEF AskFlush
  <2>2. signals' \in Seq(Signals)
    BY <2>1, SentTyped DEF RuntimeIInv, WriterTyped, Signals
  <2>3. WriterTyped'
    BY <1>1, <1>3, <2>1, <2>2 DEF RuntimeIInv, WriterTyped, Windows, Free
  <2>4. Answering'
    BY <1>1, <2>1 DEF RuntimeIInv, Answering
  <2>5. QED
    BY <1>2, <2>1, <2>3, <2>4 DEF RuntimeIInv, AnswerMeansTried
<1>5. CASE DropSync
  <2>1. closing = "watch" /\ closing' = "sync" /\ UNCHANGED <<signals, asked>>
    BY <1>5 DEF DropSync, writing
  <2>2. WriterTyped'
    BY <1>1, <1>3, <2>1 DEF RuntimeIInv, WriterTyped, Windows, Free
  <2>3. Answering'
    BY <1>1, <2>1 DEF RuntimeIInv, Answering, Free
  <2>4. QED
    BY <1>2, <2>1, <2>2, <2>3 DEF RuntimeIInv, AnswerMeansTried
<1>6. QED
  BY <1>4, <1>5

-----------------------------------------------------------------------------
(* Every step, and what follows.                                           *)

\* Every file has been dealt with and nothing is owed.
LEMMA RuntimeInitially == Init => RuntimeIInv
<1> SUFFICES ASSUME Init PROVE RuntimeIInv
  OBVIOUS
<1>1. made = 1 /\ 0 \in Ids /\ 1 \in Ids /\ NoFile \in Files
  BY NoFileTyped DEF Init, Ids
<1>2. FilesTyped
  BY <1>1 DEF Init, FilesTyped, Files, Shapes
<1>3. WatchTyped
  <2>1. queue = EmptyQueue /\ EmptyQueue \in Queues
    BY DEF Init, EmptyQueue, Queues
  <2>2. inbox \in Seq(Paths)
    BY DEF Init
  <2>3. watch \in [phase : Phases, path : Nat, known : Ids, held : Files] /\ watch.phase = "listen"
    BY <1>2, AtRest DEF Init
  <2>4. swept \in 0 .. Sweep /\ sweeps \in 0 .. 3 /\ rested \in BOOLEAN
    BY RuntimeAssumption DEF Init
  <2>5. QED
    BY <2>1, <2>2, <2>3, <2>4 DEF WatchTyped
<1>4. writer \in Writers /\ Free /\ writer.todo = {} /\ writer.answer = FALSE
  BY <1>1 DEF Init, Idling, Writers, Passes, Free
<1>5. bounce \in Windows
  BY QueueAssumption DEF Init, Untouched, Windows
<1>6. WriterTyped
  <2>1. signals \in Seq(Signals)
    BY DEF Init
  <2>2. /\ owed = {} /\ turned = {} /\ asked = {} /\ closing = "open"
        /\ unpoked = FALSE /\ reachable = TRUE /\ badge = FALSE
    BY DEF Init
  <2>3. QED
    BY <1>4, <1>5, <2>1, <2>2 DEF WriterTyped
<1>7. Answering
  BY <1>4 DEF Init, Answering
<1>8. QED
  BY <1>2, <1>3, <1>6, <1>7 DEF RuntimeIInv

\* One case an action.
LEMMA RuntimeStep ==
    ASSUME RuntimeIInv, [Next]_vars
    PROVE  RuntimeIInv' /\ AnswerMeansTried
<1>1. ASSUME NEW p \in Paths, Change(p) \/ Touch(p) \/ Edit(p)
      PROVE  RuntimeIInv' /\ closing' = closing
  BY <1>1, ChangeStep, TouchStep, EditStep DEF Change, Touch, Edit
<1>2. CASE Poke \/ Outage \/ Return \/ Tell
  BY <1>2, PokeStep DEF Poke, Outage, Return, Tell, AnswerMeansTried
<1>3. CASE Tick \/ Listen \/ Take \/ Look \/ Merge \/ Refuse
  <2>1. closing' = closing
    BY <1>3 DEF Tick, Listen, Take, Look, Merge, Refuse
  <2>2. QED
    BY <1>3, <2>1, TickStep, ListenStep, TakeStep, LookStep, MergeStep, RefuseStep
       DEF AnswerMeansTried
<1>4. CASE Restart \/ Stop
  BY <1>4, RestartStep DEF Restart, Stop, AnswerMeansTried
<1>5. CASE Receive \/ TimeOut \/ Disconnected
  BY <1>5, ReceiveStep, TimeOutStep
<1>6. CASE WriteDocument \/ RecordDocument
  BY <1>6, WriteDocumentStep, RecordDocumentStep
<1>7. CASE AskFlush \/ DropSync
  BY <1>7, ClosingStep
<1>8. CASE UNCHANGED vars
  <2>1. UNCHANGED disk /\ UNCHANGED looking
        /\ UNCHANGED <<recorded, refused, owed, turned, writing, unpoked, closing>>
    BY <1>8 DEF vars, disk, looking, writing
  <2>2. QED
    BY <2>1, DiskKept, LookingKept, WritingKept DEF RuntimeIInv, AnswerMeansTried
<1>9. QED
  BY <1>1, <1>2, <1>3, <1>4, <1>5, <1>6, <1>7, <1>8 DEF Next, AnswerMeansTried

\* It holds at the start and so always.
LEMMA RuntimeInvariant == Spec => []RuntimeIInv
BY RuntimeInitially, RuntimeStep, PTL DEF Spec

\* The types of what the two threads keep.
THEOREM TypeCorrect == Spec => []TypeOK
<1>1. RuntimeIInv => TypeOK
  <2> SUFFICES ASSUME RuntimeIInv PROVE TypeOK
    OBVIOUS
  <2>1. /\ folder \in [Paths -> [id : 0 .. made, shape : Shapes, stat : 0 .. made]]
        /\ recorded \in [Paths -> [id : 0 .. made, stat : 0 .. made]]
        /\ refused \in [Paths -> 0 .. made]
    BY DEF RuntimeIInv, FilesTyped, Files, Ids
  <2>2. \A i \in DOMAIN inbox : inbox[i] \in Paths
    BY LenProperties, ElementOfSeq DEF RuntimeIInv, WatchTyped
  <2>3. /\ queue.verifying \subseteq {p \in Paths : queue.pending[p] = None}
        /\ \A p \in Paths : queue.pending[p] \in 0 .. Quiet \cup {None}
    BY DEF RuntimeIInv, WatchTyped, Queues
  <2>4. watch.phase \in Phases /\ writer.phase \in Passes
    BY DEF RuntimeIInv, WatchTyped, WriterTyped, Writers
  <2>5. bounce.first \in 0 .. Ceiling \cup {None} /\ bounce.last \in 0 .. Idle
    BY DEF RuntimeIInv, WriterTyped, Windows
  <2>6. QED
    BY <2>1, <2>2, <2>3, <2>4, <2>5 DEF RuntimeIInv, WatchTyped, WriterTyped, TypeOK
<1>2. QED
  BY <1>1, RuntimeInvariant, PTL

\* sync_runtime.rs:116: whoever asked for a flush hears back when every document
\* that was owed has been written, or was tried and could not be.
THEOREM FlushAlwaysMeansTried == Spec => FlushMeansTried
<1>1. RuntimeIInv /\ [Next]_vars =>
        [closing = "flush" /\ closing' # "flush" => asked \cap owed' \subseteq turned']_vars
  BY RuntimeStep DEF AnswerMeansTried
<1>2. QED
  BY <1>1, RuntimeInvariant, PTL DEF Spec, FlushMeansTried
=============================================================================
