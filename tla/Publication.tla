---------------------------- MODULE Publication ----------------------------
(***************************************************************************)
(* The publication of an export, a document and the folder of its assets,  *)
(* into a directory that other programs use.  What stands at a name is an  *)
(* identity, device and inode, that HeldFile and HeldAssets remember and   *)
(* verify before and after every rename; a rename never replaces.  What    *)
(* stood at the names is displaced to a backup, what is new is moved in    *)
(* from a stage, and a step that fails has the moves taken back.           *)
(*                                                                         *)
(* Other programs act between any two steps, at the two names a user can   *)
(* see; an operation may fail of itself, and the app may die.              *)
(***************************************************************************)
EXTENDS Naturals, Sequences, FiniteSets

CONSTANTS
    Files,         \* regular files, with one link
    Folders,       \* asset folders with a marker that names all they hold
    Others,        \* anything else: links, folders that are not ours
    Nothing,
    NewDocument, NewAssets,
    Partial,       \* what a stage that could not be written leaves
    Faults,        \* bound: operations that fail of themselves
    Hands          \* bound: what other programs do meanwhile

Made == {NewDocument, NewAssets, Partial}
Theirs == Files \cup Folders \cup Others

ASSUME PublicationAssumption ==
    /\ Faults \in Nat /\ Hands \in Nat
    /\ NewDocument # NewAssets /\ Partial \notin {NewDocument, NewAssets}
    /\ Nothing \notin Made \cup Theirs
    /\ Made \cap Theirs = {}
    /\ Files \cap Folders = {} /\ (Files \cup Folders) \cap Others = {}

Visible == {"document", "assets"}
Stages == {"document_stage", "assets_stage"}
Backups == {"document_backup", "assets_backup"}
Names == Visible \cup Stages \cup Backups

VARIABLES
    dir,        \* what stands at each name
    strays,     \* folders another program has put a file into
    outside,    \* what other programs have not brought yet
    gone,       \* what other programs have taken out of the directory
    aside,      \* the directory is not where it was
    request,    \* Markdown or PDF, overwrite, with assets
    before,     \* history: what stood at the visible names when it began
    held,       \* the document and the assets that were found
    phase,
    pos, at,    \* the move or removal of the phase, and the step of it
    moved,      \* the four flags of the publication
    answer,     \* "none", "ok", "exists", "failed"
    troubled,   \* the answer tells of a rollback or a removal that failed
    left        \* what is left of the bounds

request_ == <<request, before>>
world == <<strays, outside, gone, aside>>
vars == <<dir, strays, outside, gone, aside, request, before, held, phase, pos, at, moved, answer,
          troubled, left>>

Phases == {"acquire", "examine", "stage_document", "stage_assets", "name", "abandon",
           "forward", "confirm", "rollback", "clean", "discard", "ended", "dead"}
Steps == {"look", "rename", "check"}
Flags == {"old_document", "old_assets", "new_assets", "new_document"}

TypeOK ==
    /\ dir \in [Names -> Theirs \cup Made \cup {Nothing}]
    /\ strays \subseteq Folders \cup {NewAssets}
    /\ outside \subseteq Theirs /\ gone \subseteq Theirs \cup Made
    /\ \A x \in gone \cup outside, n \in Names : dir[n] = x => x = Partial
    /\ \A n, o \in Names : dir[n] = dir[o] => n = o \/ dir[n] \in {Nothing, Partial}
    /\ held \in [document : Files \cup {Nothing}, assets : Folders \cup {Nothing}]
    /\ phase \in Phases /\ pos \in 1 .. 5 /\ at \in Steps
    /\ moved \subseteq Flags
    /\ answer \in {"none", "ok", "exists", "failed"}
    /\ {aside, troubled} \subseteq BOOLEAN
    /\ left \in [faults : 0 .. Faults, hands : 0 .. Hands]

Init ==
    /\ request \in {r \in [markdown : BOOLEAN, overwrite : BOOLEAN, assets : BOOLEAN] :
                      r.assets => r.markdown}
    /\ before \in [document : Files \cup Others \cup {Nothing},
                   assets : Folders \cup Others \cup {Nothing}]
    /\ before.document = before.assets => before.document = Nothing
    /\ dir = [n \in Names |-> IF n \in Visible THEN before[n] ELSE Nothing]
    /\ outside = Theirs \ {dir[n] : n \in Names}
    /\ strays = {} /\ gone = {} /\ aside = FALSE
    /\ held = [document |-> Nothing, assets |-> Nothing]
    /\ phase = "acquire" /\ pos = 1 /\ at = "look"
    /\ moved = {} /\ answer = "none" /\ troubled = FALSE
    /\ left = [faults |-> Faults, hands |-> Hands]

-----------------------------------------------------------------------------
(* Other programs.                                                         *)

\* Something else comes to stand at a name, in the place of what was there.
Put(n, x) ==
    /\ x \in outside
    /\ outside' = outside \ {x}
    /\ dir' = [dir EXCEPT ![n] = x]
    /\ gone' = IF dir[n] = Nothing THEN gone ELSE gone \cup {dir[n]}
    /\ UNCHANGED <<strays, aside>>

TakeAway(n) ==
    /\ dir[n] # Nothing
    /\ dir' = [dir EXCEPT ![n] = Nothing]
    /\ gone' = gone \cup {dir[n]}
    /\ UNCHANGED <<strays, outside, aside>>

\* A file is saved into the folder of the assets.
PutInside ==
    /\ dir["assets"] \in (Folders \cup {NewAssets}) \ strays
    /\ strays' = strays \cup {dir["assets"]}
    /\ UNCHANGED <<dir, outside, gone, aside>>

MoveAside ==
    /\ ~ aside
    /\ aside' = TRUE
    /\ UNCHANGED <<dir, strays, outside, gone>>

Hand ==
    /\ left.hands > 0 /\ phase \notin {"ended", "dead"}
    /\ left' = [left EXCEPT !.hands = @ - 1]
    /\ \/ \E n \in Visible : TakeAway(n) \/ \E x \in Theirs : Put(n, x)
       \/ PutInside \/ MoveAside
    /\ UNCHANGED <<request, before, held, phase, pos, at, moved, answer, troubled>>

Die ==
    /\ phase \notin {"ended", "dead"}
    /\ phase' = "dead"
    /\ UNCHANGED <<dir, world, request, before, held, pos, at, moved, answer,
                   troubled, left>>

-----------------------------------------------------------------------------
(* The publication.  An operation that may not be done fails, and one that  *)
(* may be done fails of itself as often as the bound allows.               *)

Fault ==
    /\ left.faults > 0
    /\ left' = [left EXCEPT !.faults = @ - 1]

Fails(may) == (~ may /\ UNCHANGED left) \/ Fault

Enter(p) == phase' = p /\ pos' = 1 /\ at' = "look"

End(a) == Enter("ended") /\ answer' = a

\* ValidatedDestination::acquire, of which the file at the name is what can
\* change under it.
Acquire ==
    /\ phase = "acquire"
    /\ LET fit == dir["document"] \notin Others \cup Folders
       IN \/ fit /\ Enter("examine") /\ UNCHANGED <<answer, left>>
          \/ Fails(fit) /\ End("failed")
    /\ UNCHANGED <<dir, world, request_, held, moved, troubled>>

Document == dir["document"]
Assets == IF request.markdown THEN dir["assets"] ELSE Nothing

\* Mutant: nobody asks whether to overwrite.
RefusedNever == FALSE

\* Without the word to overwrite, what is there is left alone.
Refused == ~ request.overwrite /\ (Document # Nothing \/ Assets # Nothing)

\* existing_file and existing_assets: an asset folder is only ever held whole.
Fit ==
    /\ ~ aside /\ Document \notin Others \cup Folders
    /\ request.overwrite => Assets \in (Folders \ strays) \cup {Nothing}

Examine ==
    /\ phase = "examine"
    /\ \/ /\ Fit /\ ~ Refused
          /\ held' = [document |-> Document,
                     assets |-> IF request.overwrite THEN Assets ELSE Nothing]
          /\ Enter("stage_document")
          /\ UNCHANGED <<answer, left>>
       \/ Fit /\ Refused /\ End("exists") /\ UNCHANGED <<held, left>>
       \/ Fails(Fit) /\ End("failed") /\ UNCHANGED held
    /\ UNCHANGED <<dir, world, request_, moved, troubled>>

\* write_new: what a write that fails leaves is not taken away.
StageDocument ==
    /\ phase = "stage_document"
    /\ \/ /\ ~ aside
          /\ dir' = [dir EXCEPT !["document_stage"] = NewDocument]
          /\ Enter(IF request.assets THEN "stage_assets" ELSE "name")
          /\ UNCHANGED <<answer, left>>
       \/ /\ Fails(~ aside)
          /\ \/ UNCHANGED dir
             \/ ~ aside /\ dir' = [dir EXCEPT !["document_stage"] = Partial]
          /\ End("failed")
    /\ UNCHANGED <<world, request_, held, moved, troubled>>

\* HeldAssets::stage, or the name for it: with no folder, the document's stage is
\* taken back, but not when it was the name that failed.
StageAssets ==
    /\ phase = "stage_assets"
    /\ \/ /\ dir' = [dir EXCEPT !["assets_stage"] = NewAssets]
          /\ Enter("name")
          /\ UNCHANGED <<answer, left>>
       \/ /\ Fault
          /\ \/ UNCHANGED <<dir, answer>> /\ Enter("abandon")
             \/ /\ dir' = [dir EXCEPT !["assets_stage"] = Partial]
                /\ Enter("abandon")
                /\ UNCHANGED answer
             \/ End("failed") /\ UNCHANGED dir
    /\ UNCHANGED <<world, request_, held, moved, troubled>>

\* The names of the backups; an error there takes nothing back.
Name ==
    /\ phase = "name"
    /\ \/ ~ aside /\ Enter("forward") /\ UNCHANGED <<answer, left>>
       \/ aside /\ Enter("clean") /\ UNCHANGED <<answer, left>>
       \/ Fault /\ End("failed")
    /\ UNCHANGED <<dir, world, request_, held, moved, troubled>>

-----------------------------------------------------------------------------
Moves ==
    << [flag |-> "old_document", from |-> "document", to |-> "document_backup"],
       [flag |-> "old_assets", from |-> "assets", to |-> "assets_backup"],
       [flag |-> "new_assets", from |-> "assets_stage", to |-> "assets"],
       [flag |-> "new_document", from |-> "document_stage", to |-> "document"] >>

Object(flag) ==
    CASE flag = "old_document" -> held.document
      [] flag = "old_assets" -> held.assets
      [] flag = "new_assets" -> IF request.assets THEN NewAssets ELSE Nothing
      [] flag = "new_document" -> NewDocument

Reversed(m) == [flag |-> m.flag, from |-> m.to, to |-> m.from]

\* Mutant: what was displaced is put back first.
BackwardInOrder(i) == Reversed(Moves[i])

\* rollback_document and rollback_markdown.
Backward(i) == Reversed(Moves[5 - i])

Move == IF phase = "forward" THEN Moves[pos] ELSE Backward(pos)

Applies ==
    IF phase = "forward" THEN Object(Move.flag) # Nothing ELSE Move.flag \in moved

Moving == phase \in {"forward", "rollback"} /\ pos <= 4

Skip ==
    /\ Moving /\ ~ Applies
    /\ pos' = pos + 1
    /\ UNCHANGED <<dir, world, request_, held, phase, at, moved, answer, troubled, left>>

\* A step of a move has failed: the moves are taken back; one that cannot be is
\* told of, and the next is tried.
Missed ==
    \/ phase = "forward" /\ Enter("rollback") /\ UNCHANGED troubled
    \/ /\ phase = "rollback"
       /\ troubled' = TRUE
       /\ pos' = pos + 1 /\ at' = "look"
       /\ UNCHANGED phase

Look ==
    /\ Moving /\ Applies /\ at = "look"
    /\ LET right == dir[Move.from] = Object(Move.flag)
       IN \/ right /\ at' = "rename" /\ UNCHANGED <<phase, pos, troubled, left>>
          \/ Fails(right) /\ Missed
    /\ UNCHANGED <<dir, world, request_, held, moved, answer>>

\* Mutant: what stands at the name is replaced.
MayRenameOver == dir[Move.from] # Nothing

\* rename_noreplace, of whatever is at the name by now.
MayRename == dir[Move.from] # Nothing /\ dir[Move.to] = Nothing

\* Mutant: a move counts once it has been checked.
FlaggedLate(flag) == IF at = "check" THEN moved \cup {flag} ELSE moved

Flagged(flag) == IF at = "rename" THEN moved \cup {flag} ELSE moved

Rename ==
    /\ Moving /\ Applies /\ at = "rename"
    /\ \/ /\ MayRename
          /\ dir' = [dir EXCEPT ![Move.to] = dir[Move.from], ![Move.from] = Nothing]
          /\ at' = "check"
          /\ moved' = IF phase = "forward" THEN Flagged(Move.flag) ELSE moved
          /\ UNCHANGED <<phase, pos, troubled, left>>
       \/ /\ Fails(MayRename) /\ Missed
          /\ UNCHANGED <<dir, moved>>
    /\ UNCHANGED <<world, request_, held, answer>>

Check ==
    /\ Moving /\ Applies /\ at = "check"
    /\ LET right == dir[Move.to] = Object(Move.flag)
       IN \/ /\ right
             /\ pos' = pos + 1 /\ at' = "look"
             /\ moved' = IF phase = "forward" THEN Flagged(Move.flag) ELSE moved
             /\ UNCHANGED <<phase, troubled, left>>
          \/ Fails(right) /\ Missed /\ UNCHANGED moved
    /\ UNCHANGED <<dir, world, request_, held, answer>>

\* Mutant: the backups go as soon as the moves are done.
AfterTooSoon(p) ==
    CASE p = "forward" -> "discard" [] p = "discard" -> "confirm" [] p = "confirm" -> "ended"
      [] p = "rollback" -> "clean" [] OTHER -> "ended"

After(p) ==
    CASE p = "forward" -> "confirm" [] p = "confirm" -> "discard" [] p = "discard" -> "ended"
      [] p = "rollback" -> "clean" [] OTHER -> "ended"

Moved ==
    /\ phase \in {"forward", "rollback"} /\ pos = 5
    /\ Enter(After(phase))
    /\ UNCHANGED <<dir, world, request_, held, moved, answer, troubled, left>>

\* revalidate, once more: the directory is where it was.
Confirm ==
    /\ phase = "confirm"
    /\ \/ ~ aside /\ Enter(After(phase)) /\ UNCHANGED left
       \/ Fails(~ aside) /\ Enter("rollback")
    /\ UNCHANGED <<dir, world, request_, held, moved, answer, troubled>>

-----------------------------------------------------------------------------
\* remove_verified: of the stages after a failure, of the backups after success.
\* "abandon" is left over the document's stage alone.
Removals ==
    CASE phase = "discard" -> << [name |-> "document_backup", object |-> held.document],
                                 [name |-> "assets_backup", object |-> held.assets] >>
      [] phase = "clean" -> << [name |-> "document_stage", object |-> NewDocument],
                               [name |-> "assets_stage", object |-> Object("new_assets")] >>
      [] phase = "abandon" -> << [name |-> "document_stage", object |-> NewDocument],
                                 [name |-> "assets_stage", object |-> Nothing] >>

Removing == phase \in {"discard", "clean", "abandon"} /\ pos <= 2

Verified(r) == dir[r.name] = r.object

\* A removal that fails is told of; of two backups the second stays as well.
\* (A folder that stays may have lost the files it was held with.)
Remove ==
    /\ Removing
    /\ LET r == Removals[pos]
           may == Verified(r) /\ r.object \notin strays
       IN \/ /\ r.object # Nothing /\ may
             /\ dir' = [dir EXCEPT ![r.name] = Nothing]
             /\ pos' = pos + 1
             /\ UNCHANGED <<phase, at, answer, troubled, left>>
          \/ /\ r.object = Nothing
             /\ pos' = pos + 1
             /\ UNCHANGED <<dir, phase, at, answer, troubled, left>>
          \/ /\ r.object # Nothing /\ Fails(may)
             /\ troubled' = TRUE
             /\ \/ phase = "discard" /\ End("failed")
                \/ phase # "discard" /\ pos' = pos + 1 /\ UNCHANGED <<phase, at, answer>>
             /\ UNCHANGED dir
    /\ UNCHANGED <<world, request_, held, moved>>

Finish ==
    /\ phase \in {"discard", "clean", "abandon"} /\ pos = 3
    /\ IF phase = "discard" THEN Enter(After(phase)) /\ answer' = "ok" ELSE End("failed")
    /\ UNCHANGED <<dir, world, request_, held, moved, troubled, left>>

Next ==
    \/ Hand \/ Die
    \/ Acquire \/ Examine \/ StageDocument \/ StageAssets \/ Name
    \/ Skip \/ Look \/ Rename \/ Check \/ Moved \/ Confirm
    \/ Remove \/ Finish

Spec == Init /\ [][Next]_vars

-----------------------------------------------------------------------------
Stands(x) == x \in gone \cup {dir[n] : n \in Names}
Answered == phase = "ended"
AsBefore == \A n \in Visible : dir[n] = before[n]

\* What was not the export's to displace is in the directory or was taken out by
\* its owner: neither a move nor a removal ever ends it, races with other programs
\* and a death of the app included.
ForeignSurvives ==
    \A x \in Theirs \ {held.document, held.assets} : x \in outside \/ Stands(x)

\* What was displaced is not removed before the new document stands, unless by
\* somebody else's hand.
OneOfThemStands ==
    \A x \in {held.document, held.assets} \ {Nothing} : Stands(x) \/ Stands(NewDocument)

\* With nobody else about, one operation that fails leaves both names as they
\* were or both as asked for.
AllOrNothing ==
    (Answered /\ left.hands = Hands /\ left.faults >= Faults - 1)
      => \/ AsBefore
         \/ /\ dir["document"] = NewDocument
            /\ request.markdown => dir["assets"] = Object("new_assets")

\* Nobody's file ends under a hidden name without the answer telling of it, nor
\* does the export's own when no operation failed of itself.
HiddenIsTold ==
    Answered /\ ~ troubled =>
        \A n \in Stages \cup Backups :
            /\ dir[n] \notin Theirs
            /\ left.faults = Faults => dir[n] = Nothing

\* Without the word to overwrite, what others have at the two names stays there,
\* whenever they put it there; but a rollback may take it for the export's own, in
\* the moment between its look and its rename.
StaysPutUnlessAsked ==
    [][ ~ request.overwrite /\ left'.hands = left.hands /\ phase # "rollback"
          => \A n \in Visible : dir[n] \in Theirs => dir'[n] = dir[n] ]_vars
=============================================================================
