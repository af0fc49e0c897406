---------------------------- MODULE SyncRuntime ----------------------------
(***************************************************************************)
(* The two threads between the database and the folder, and the transport  *)
(* that moves the folder under them.  The watch thread turns events and    *)
(* sweeps into one file at a time: it asks what is recorded of the path,   *)
(* reads the file, and has the worker merge it or write down that it could *)
(* not be read.  The export thread waits for the typing to stop and has    *)
(* the worker write every document that is owed.                           *)
(*                                                                         *)
(* What a merge decides of the rows, and what a pass does to one file      *)
(* while the folder moves, is VaultSync's; here the bytes of a file are    *)
(* numbers, new ones at each change.  A path is one document, home and     *)
(* the trash among them; attachments are not here.                         *)
(***************************************************************************)
EXTENDS WatchQueue, Sequences

CONSTANTS
    Sweep,       \* how often the folder is looked at
    Named,       \* files and bytes the properties speak of: <<path, bytes>>
    Situations   \* what may happen: changes in the folder and edits, by path;
                 \* paths an editor goes on touching, documents somebody goes on
                 \* typing in; outages of the folder, documents that cannot be
                 \* written, starts of a new watch, closes

ASSUME RuntimeAssumption ==
    /\ Sweep \in Nat /\ Sweep > Quiet /\ Named \subseteq Paths \X Nat
    /\ \A s \in Situations :
         /\ {s.changes, s.edits} \subseteq [Paths -> Nat]
         /\ s.hot \subseteq Paths /\ s.typing \subseteq Paths
         /\ {s.outages, s.refusals, s.restarts, s.closes} \subseteq Nat

Phases == {"listen", "work", "look", "merge", "refuse", "tell", "gone"}
Passes == {"wait", "write", "record", "ended"}
Shapes == {"none", "hollow", "page", "own", "junk"}

VARIABLES
    folder,     \* what stands at each path: its bytes, what they are, its stat
    made,       \* how many different bytes there have been
    recorded,   \* sync_documents: the bytes and the stat last dealt with
    refused,    \* sync_quarantine: the bytes that could not be read, 0 for none
    owed,       \* documents a dirty row is in
    turned,     \* history: owed ones whose last try failed or was turned away
    inbox,      \* events on their way to the watch thread
    queue,      \* WatchQueue
    swept,      \* the age of the last sweep
    sweeps,     \* how many there have been, up to three
    rested,     \* the watch thread has waited its turn since the last tick
    watch,      \* the watch thread: where it is, with which path and bytes
    unpoked,    \* a command has changed rows and not poked yet
    signals,    \* signals on their way to the export thread
    bounce,     \* Debounce
    writer,     \* the export thread: where it is, what is left of the pass,
                \* the bytes just written, whether somebody waits for it,
                \* whether it is the last pass
    asked,      \* history: what was owed when a flush was asked for
    reachable,  \* the folder can be written
    badge,      \* SyncErrors.write: the user is told it cannot
    closing,    \* "open"; "flush": somebody waits for one; "watch", "sync":
                \* what the runtime is letting go of
    left        \* what is left of the situation

disk == <<folder, made>>
rows == <<recorded, refused, owed, turned>>
looking == <<inbox, queue, swept, sweeps, rested, watch>>
writing == <<signals, bounce, writer, asked, reachable, badge>>
vars == <<folder, made, recorded, refused, owed, turned, inbox, queue, swept, sweeps, rested,
          watch, unpoked, signals, bounce, writer, asked, reachable, badge, closing, left>>

NoFile == [id |-> 0, shape |-> "none", stat |-> 0]
FileAt(p) == folder[p].shape # "none"
Free == writer.phase \notin {"write", "record"}

TypeOK ==
    /\ folder \in [Paths -> [id : 0 .. made, shape : Shapes, stat : 0 .. made]]
    /\ recorded \in [Paths -> [id : 0 .. made, stat : 0 .. made]]
    /\ refused \in [Paths -> 0 .. made]
    /\ owed \subseteq Paths /\ turned \subseteq owed /\ asked \subseteq Paths
    /\ \A i \in DOMAIN inbox : inbox[i] \in Paths
    /\ queue.verifying \subseteq {p \in Paths : queue.pending[p] = None}
    /\ \A p \in Paths : queue.pending[p] \in 0 .. Quiet \cup {None}
    /\ swept \in 0 .. Sweep /\ sweeps \in 0 .. 3
    /\ watch.phase \in Phases /\ writer.phase \in Passes
    /\ bounce.first \in 0 .. Ceiling \cup {None} /\ bounce.last \in 0 .. Idle
    /\ {unpoked, reachable, badge, rested} \subseteq BOOLEAN

-----------------------------------------------------------------------------
(* Start: every file has been dealt with and the pass at startup found       *)
(* nothing owed; the watch begins, and its first sweep is due.               *)

Listening == [phase |-> "listen", path |-> 0, known |-> 0, held |-> NoFile]
Working == [Listening EXCEPT !.phase = "work"]
Idling == [phase |-> "wait", todo |-> {}, wrote |-> 0, answer |-> FALSE, last |-> FALSE]

Init ==
    /\ folder = [p \in Paths |-> [id |-> 1, shape |-> "own", stat |-> 1]]
    /\ made = 1
    /\ recorded = [p \in Paths |-> [id |-> 1, stat |-> 1]]
    /\ refused = [p \in Paths |-> 0]
    /\ owed = {} /\ turned = {} /\ asked = {}
    /\ inbox = <<>> /\ queue = EmptyQueue
    /\ swept = Sweep /\ sweeps = 0 /\ rested = TRUE
    /\ watch = Listening
    /\ unpoked = FALSE /\ signals = <<>>
    /\ bounce = Untouched /\ writer = Idling
    /\ reachable = TRUE /\ badge = FALSE
    /\ closing = "open"
    /\ left \in Situations

-----------------------------------------------------------------------------
(* The folder, the user and the clock.                                     *)

Sent(box, x) == IF \E i \in DOMAIN box : box[i] = x THEN box ELSE Append(box, x)

\* Somebody else's bytes, or none, come to stand at a path.  A transport may
\* keep the stat, and the platform may drop the event.
Change(p) ==
    /\ left.changes[p] > 0
    /\ left' = [left EXCEPT !.changes[p] = @ - 1]
    /\ \E shape \in {"none", "hollow", "page", "junk"}, kept \in BOOLEAN :
         /\ kept => FileAt(p) /\ shape # "none"
         /\ folder' = [folder EXCEPT ![p] =
                IF shape = "none" THEN NoFile
                ELSE [id |-> made + 1, shape |-> shape, stat |-> IF kept THEN @.stat ELSE made + 1]]
    /\ made' = made + 1
    /\ inbox' \in {inbox, Sent(inbox, p)}
    /\ UNCHANGED rows
    /\ UNCHANGED writing
    /\ UNCHANGED <<queue, swept, sweeps, rested, watch, unpoked, closing>>

\* An event that nothing has come of.
Touch(p) ==
    /\ p \in left.hot
    /\ inbox' = Sent(inbox, p)
    /\ UNCHANGED disk
    /\ UNCHANGED rows
    /\ UNCHANGED writing
    /\ UNCHANGED <<queue, swept, sweeps, rested, watch, unpoked, closing, left>>

\* A command changes rows of a document, and does so again and
\* again while somebody is typing in it.
Edit(p) ==
    /\ closing = "open" /\ Free /\ ~ unpoked
    /\ \/ p \in owed \cap left.typing /\ UNCHANGED left
       \/ /\ left.edits[p] > 0
          /\ left' = [left EXCEPT !.edits[p] = @ - 1]
    /\ owed' = owed \cup {p}
    /\ turned' = turned \ {p}
    /\ unpoked' = TRUE
    /\ UNCHANGED disk
    /\ UNCHANGED looking
    /\ UNCHANGED writing
    /\ UNCHANGED <<recorded, refused, closing>>

\* changed: the command is done and the export thread is poked.
Poke ==
    /\ unpoked
    /\ unpoked' = FALSE
    /\ signals' = Sent(signals, "touched")
    /\ UNCHANGED disk
    /\ UNCHANGED rows
    /\ UNCHANGED looking
    /\ UNCHANGED <<bounce, writer, asked, reachable, badge, closing, left>>

Outage ==
    /\ reachable /\ left.outages > 0 /\ Free
    /\ reachable' = FALSE
    /\ left' = [left EXCEPT !.outages = @ - 1]
    /\ UNCHANGED disk
    /\ UNCHANGED rows
    /\ UNCHANGED looking
    /\ UNCHANGED <<unpoked, signals, bounce, writer, asked, badge, closing>>

Return ==
    /\ ~ reachable
    /\ reachable' = TRUE
    /\ UNCHANGED disk
    /\ UNCHANGED rows
    /\ UNCHANGED looking
    /\ UNCHANGED <<unpoked, signals, bounce, writer, asked, badge, closing, left>>

\* A round of the watch thread is shorter than the unit of time, but for the
\* reading of a file, which may fetch its bytes first.
Tick ==
    /\ watch.phase = "gone" \/ (rested /\ watch.phase \in {"listen", "look"})
    /\ rested' = FALSE
    /\ queue' = QueueAged(queue)
    /\ swept' = Older(swept, Sweep)
    /\ bounce' = BounceAged(bounce)
    /\ UNCHANGED disk
    /\ UNCHANGED rows
    /\ UNCHANGED <<inbox, sweeps, watch, unpoked, signals, writer, asked, reachable, badge,
                   closing, left>>

-----------------------------------------------------------------------------
(* The watch thread.                                                       *)

\* Mutant: what is recorded is not looked at again.
NewsKnown(p) == recorded[p].id = 0

\* scan_verdict, over what the worker answers: not the stat that is recorded.
News(p) == recorded[p].id = 0 \/ recorded[p].stat # folder[p].stat

Present == {p \in Paths : FileAt(p)}

\* Mutant: the second sweep takes the gate like the others.
SweptGated(q, n) == Saw(q, {p \in Present : News(p)})

\* The second sweep reads everything, the others what the gate lets through.
Swept(q, n) ==
    IF n = 2 THEN Verify(q, Present) ELSE Saw(q, {p \in Present : News(p)})

\* One event, or none in time; and the sweep when it is due.
Listen ==
    /\ watch.phase = "listen" /\ closing # "watch"
    /\ rested' = TRUE
    /\ LET heard == IF inbox = <<>> THEN queue ELSE Saw(queue, {Head(inbox)})
           count == IF sweeps = 3 THEN 3 ELSE sweeps + 1
       IN /\ inbox' = IF inbox = <<>> THEN inbox ELSE Tail(inbox)
          /\ \/ /\ swept = Sweep /\ Free
                /\ swept' = 0
                /\ sweeps' = count
                /\ queue' = Swept(heard, count)
                /\ refused' = [p \in Paths |-> IF p \in Present THEN refused[p] ELSE 0]
             \/ /\ swept # Sweep
                /\ queue' = heard
                /\ UNCHANGED <<swept, sweeps, refused>>
    /\ watch' = IF Waiting(queue') = {} THEN Listening ELSE Working
    /\ UNCHANGED disk
    /\ UNCHANGED writing
    /\ UNCHANGED <<recorded, owed, turned, unpoked, closing, left>>

\* vault_file_hash: what was refused there, or what is recorded.
FileHash(p) == IF refused[p] # 0 THEN refused[p] ELSE recorded[p].id

\* The next file, with what is known of its path; or nothing to do.
Take ==
    /\ watch.phase = "work" /\ closing # "watch"
    /\ IF Waiting(queue) = {}
       THEN /\ watch' = Listening
            /\ UNCHANGED queue
       ELSE LET p == NextInFlight(queue)
            IN /\ Free
               /\ queue' = Without(queue, p)
               /\ watch' = [phase |-> "look", path |-> p, known |-> FileHash(p), held |-> NoFile]
    /\ UNCHANGED disk
    /\ UNCHANGED rows
    /\ UNCHANGED writing
    /\ UNCHANGED <<inbox, swept, sweeps, rested, unpoked, closing, left>>

\* consider: what stands there now, against what was known.
Look ==
    /\ watch.phase = "look"
    /\ LET f == folder[watch.path]
           verdict == CASE f.shape \in {"none", "hollow"} \/ f.id = watch.known -> "work"
                        [] f.shape = "junk" /\ f.id # watch.known -> "refuse"
                        [] OTHER -> "merge"
       IN watch' = IF verdict = "work" THEN Working
                   ELSE [watch EXCEPT !.phase = verdict, !.held = f]
    /\ UNCHANGED disk
    /\ UNCHANGED rows
    /\ UNCHANGED writing
    /\ UNCHANGED <<inbox, queue, swept, sweeps, rested, unpoked, closing, left>>

\* The worker merges what was read.  Bytes of this device's own change nothing;
\* others may change rows, and may leave the file owed a write.
Merge ==
    /\ watch.phase = "merge" /\ Free
    /\ LET p == watch.path
       IN /\ recorded' = [recorded EXCEPT ![p] = [id |-> watch.held.id, stat |-> watch.held.stat]]
          /\ refused' = [refused EXCEPT ![p] = 0]
          /\ \/ /\ watch' = Working
                /\ UNCHANGED <<owed, turned>>
             \/ /\ watch.held.shape = "page"
                /\ watch' = [Listening EXCEPT !.phase = "tell"]
                /\ owed' \in {owed, owed \cup {p}}
                /\ turned' = turned \ {p}
    /\ UNCHANGED disk
    /\ UNCHANGED writing
    /\ UNCHANGED <<inbox, queue, swept, sweeps, rested, unpoked, closing, left>>

\* The callback: the folder may owe a write.
Tell ==
    /\ watch.phase = "tell"
    /\ signals' = Sent(signals, "touched")
    /\ watch' = Working
    /\ UNCHANGED disk
    /\ UNCHANGED rows
    /\ UNCHANGED <<inbox, queue, swept, sweeps, rested, unpoked, bounce, writer, asked,
                   reachable, badge, closing, left>>

\* The bytes are read once more for their hash, and written down as refused.
Refuse ==
    /\ watch.phase = "refuse" /\ Free
    /\ refused' = IF FileAt(watch.path)
                  THEN [refused EXCEPT ![watch.path] = folder[watch.path].id] ELSE refused
    /\ watch' = Working
    /\ UNCHANGED disk
    /\ UNCHANGED writing
    /\ UNCHANGED <<recorded, owed, turned, inbox, queue, swept, sweeps, rested, unpoked,
                   closing, left>>

\* A watch put in the place of this one, or the app started again: nothing that
\* was on its way is kept.
Restart ==
    /\ left.restarts > 0 /\ watch.phase \in {"listen", "work"}
    /\ closing = "open"
    /\ left' = [left EXCEPT !.restarts = @ - 1]
    /\ inbox' = <<>> /\ queue' = EmptyQueue
    /\ swept' = Sweep /\ sweeps' = 0 /\ rested' = TRUE
    /\ watch' = Listening
    /\ UNCHANGED disk
    /\ UNCHANGED rows
    /\ UNCHANGED writing
    /\ UNCHANGED <<unpoked, closing>>

\* The loop asks before every round and between two files whether to go on.
Stop ==
    /\ watch.phase \in {"listen", "work"} /\ closing = "watch"
    /\ watch' = [watch EXCEPT !.phase = "gone"]
    /\ UNCHANGED disk
    /\ UNCHANGED rows
    /\ UNCHANGED writing
    /\ UNCHANGED <<inbox, queue, swept, sweeps, rested, unpoked, closing, left>>

-----------------------------------------------------------------------------
(* The export thread.                                                      *)

\* Mutant: the export thread is let go of first.
AfterFlushSync == "sync"

\* Fields are dropped in the order they are declared in, the watch first.
AfterFlush == "watch"

\* A pass by w is over: the window is empty, and whoever waited is told.
Exported(w) ==
    /\ writer' = [Idling EXCEPT !.phase = IF w.last THEN "ended" ELSE "wait"]
    /\ bounce' = Untouched
    /\ closing' = IF w.answer THEN AfterFlush ELSE closing

\* export_pending begins with pending_documents, in the order of the ids; or
\* the folder cannot be reached, and everything is left as it is.
PassBegins(w) ==
    \/ /\ reachable /\ owed # {}
       /\ writer' = [w EXCEPT !.phase = "write", !.todo = owed]
       /\ UNCHANGED <<bounce, badge, turned, closing>>
    \/ /\ reachable /\ owed = {}
       /\ badge' = FALSE
       /\ Exported(w)
       /\ UNCHANGED turned
    \/ /\ ~ reachable
       /\ badge' = TRUE
       /\ turned' = owed
       /\ Exported(w)

\* Mutant: a flush writes only when the window thinks something is waiting.
FlushedWhenWaiting(w) ==
    IF bounce.first = None THEN Exported(w) /\ UNCHANGED <<badge, turned>> ELSE PassBegins(w)

\* A flush writes unconditionally.
Flushed(w) == PassBegins(w)

\* The export thread waits for a signal, or for the window of a change to close.
Receive ==
    /\ writer.phase = "wait" /\ signals # <<>>
    /\ signals' = Tail(signals)
    /\ \/ /\ Head(signals) = "touched"
          /\ bounce' = Touched(bounce)
          /\ UNCHANGED <<writer, badge, turned, closing>>
       \/ /\ Head(signals) = "flush"
          /\ Flushed([writer EXCEPT !.answer = TRUE])
    /\ UNCHANGED disk
    /\ UNCHANGED looking
    /\ UNCHANGED <<recorded, refused, owed, unpoked, asked, reachable, left>>

TimeOut ==
    /\ writer.phase = "wait" /\ Due(bounce)
    /\ PassBegins(writer)
    /\ UNCHANGED disk
    /\ UNCHANGED looking
    /\ UNCHANGED <<recorded, refused, owed, unpoked, signals, asked, reachable, left>>

\* The pass goes on to the next document, or the transaction commits.
Onward(rest) ==
    IF rest = {} THEN /\ badge' = FALSE
                      /\ Exported(writer)
    ELSE /\ writer' = [writer EXCEPT !.phase = "write", !.todo = rest, !.wrote = 0]
         /\ UNCHANGED <<bounce, badge, closing>>

\* may_write: nothing stands there, or what was dealt with.
Ours(p) == ~ FileAt(p) \/ folder[p].id = recorded[p].id

\* One document: written, found to say it already, left to the merge, or not to
\* be written for a reason of its own.
WriteDocument ==
    /\ writer.phase = "write"
    /\ LET p == Least(writer.todo)
       IN \/ /\ Ours(p)
             /\ folder' = [folder EXCEPT ![p] = [id |-> made + 1, shape |-> "own", stat |-> made + 1]]
             /\ made' = made + 1
             /\ inbox' \in {inbox, Sent(inbox, p)}
             /\ writer' = [writer EXCEPT !.phase = "record", !.wrote = made + 1]
             /\ UNCHANGED <<turned, bounce, badge, closing, left>>
          \/ /\ folder[p].shape \in {"own", "page"}
             /\ writer' = [writer EXCEPT !.phase = "record", !.wrote = folder[p].id]
             /\ UNCHANGED <<disk, inbox, turned, bounce, badge, closing, left>>
          \/ /\ \/ ~ Ours(p) /\ UNCHANGED left
                \/ /\ left.refusals > 0
                   /\ left' = [left EXCEPT !.refusals = @ - 1]
             /\ turned' = turned \cup {p}
             /\ Onward(writer.todo \ {p})
             /\ UNCHANGED <<disk, inbox>>
    /\ UNCHANGED <<recorded, refused, owed, queue, swept, sweeps, rested, watch, unpoked,
                   signals, asked, reachable>>

\* record_document and clear_dirty: the hash of what was written, the stat of
\* what stands there by now.
RecordDocument ==
    /\ writer.phase = "record"
    /\ LET p == Least(writer.todo)
       IN /\ recorded' = [recorded EXCEPT ![p] = [id |-> writer.wrote, stat |-> folder[p].stat]]
          /\ owed' = owed \ {p}
          /\ turned' = turned \ {p}
          /\ Onward(writer.todo \ {p})
    /\ UNCHANGED disk
    /\ UNCHANGED looking
    /\ UNCHANGED <<refused, unpoked, signals, asked, reachable, left>>

-----------------------------------------------------------------------------
(* Closing: notes_close_session asks for a flush and waits; then the runtime *)
(* is dropped, the watch first, which holds a sender of its own.             *)

AskFlush ==
    /\ closing = "open" /\ left.closes > 0
    /\ left' = [left EXCEPT !.closes = @ - 1]
    /\ closing' = "flush"
    /\ signals' = Sent(signals, "flush")
    /\ asked' = owed
    /\ UNCHANGED disk
    /\ UNCHANGED rows
    /\ UNCHANGED looking
    /\ UNCHANGED <<unpoked, bounce, writer, reachable, badge>>

\* The drop of the watch joins its thread, which held a sender.
DropSync ==
    /\ closing = "watch" /\ watch.phase = "gone"
    /\ closing' = "sync"
    /\ UNCHANGED disk
    /\ UNCHANGED rows
    /\ UNCHANGED looking
    /\ UNCHANGED writing
    /\ UNCHANGED <<unpoked, left>>

\* No sender is left and what was sent is read: the loop ends in a last pass.
Disconnected ==
    /\ writer.phase = "wait" /\ signals = <<>>
    /\ closing = "sync" /\ watch.phase = "gone"
    /\ PassBegins([writer EXCEPT !.last = TRUE])
    /\ UNCHANGED disk
    /\ UNCHANGED looking
    /\ UNCHANGED <<recorded, refused, owed, unpoked, signals, asked, reachable, left>>

-----------------------------------------------------------------------------
Next ==
    \/ \E p \in Paths : Change(p) \/ Touch(p) \/ Edit(p)
    \/ Poke \/ Outage \/ Return \/ Tick
    \/ Listen \/ Take \/ Look \/ Merge \/ Tell \/ Refuse \/ Restart \/ Stop
    \/ Receive \/ TimeOut \/ WriteDocument \/ RecordDocument
    \/ AskFlush \/ DropSync \/ Disconnected

Spec == Init /\ [][Next]_vars

\* Time goes on, an outage ends, and both threads go on; the worker answers in
\* the order it is asked, so a request that waits behind a pass is answered.
\* Nobody has to edit, to touch a file, to restart or to close.
LiveSpec ==
    /\ Spec
    /\ SF_vars(Tick) /\ WF_vars(Return) /\ WF_vars(Poke)
    /\ SF_vars(Listen) /\ SF_vars(Take) /\ SF_vars(Merge) /\ SF_vars(Refuse)
    /\ WF_vars(Look) /\ WF_vars(Tell) /\ WF_vars(Stop)
    /\ WF_vars(Receive) /\ WF_vars(TimeOut)
    /\ WF_vars(WriteDocument) /\ WF_vars(RecordDocument)
    /\ WF_vars(DropSync) /\ WF_vars(Disconnected)

-----------------------------------------------------------------------------
NewsAt(p, v) == folder[p].id = v /\ folder[p].shape = "page" /\ p \notin left.hot

\* Dealt with, or not there any more; or the app is closing.
Over(p, v) ==
    recorded[p].id = v \/ refused[p] = v \/ folder[p].id # v \/ closing # "open"

\* What stands in the folder before the second sweep is read, whether or not
\* anybody reported it, whatever its stat says and whatever else is touched
\* meanwhile.
EveryFileIsReadOnce == \A n \in Named : (NewsAt(n[1], n[2]) /\ sweeps < 2) ~> Over(n[1], n[2])

\* Neither an event nor the gate leads to what stands at p, and the sweep that
\* reads everything is over.
OnlyReindexFinds(p) ==
    /\ sweeps \in {2, 3} /\ folder[p].stat = recorded[p].stat
    /\ \A i \in DOMAIN inbox : inbox[i] # p
    /\ queue.pending[p] = None /\ p \notin queue.verifying
    /\ ~ (watch.path = p /\ watch.phase \notin {"listen", "work"})

\* And so is what comes to stand there later, but for a change that nobody
\* reported and whose stat is the recorded one: it kept the stat, or it came
\* between the write of a document and the record of its stat.
EveryFileIsRead ==
    \A n \in Named : NewsAt(n[1], n[2]) ~> (Over(n[1], n[2]) \/ OnlyReindexFinds(n[1]))

\* A document that a change owes the folder is tried, by somebody who types
\* without a pause as by one who stops.
OwedIsTried == \A p \in Paths : p \in owed ~> (p \notin owed \/ p \in turned)

\* Letting go of the runtime comes to an end: neither thread waits for the other.
LettingGoEnds == closing = "flush" ~> writer.phase = "ended"

\* Whoever asked for a flush hears back when every document that was owed has
\* been written, or was tried and could not be.
FlushMeansTried ==
    [][ (closing = "flush" /\ closing' # "flush")
          => asked \cap owed' \subseteq turned' ]_vars

\* What a comment says of an export that failed: the next pass tries again, and
\* there is one in thirty seconds.
OwedIsWritten == \A p \in Paths : p \in owed ~> p \notin owed
=============================================================================
