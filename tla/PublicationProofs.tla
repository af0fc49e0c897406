------------------------- MODULE PublicationProofs -------------------------
(***************************************************************************)
(* For any number of files, folders, faults and hands: what was not the    *)
(* export's to displace survives it, and what was displaced is not removed *)
(* before the new document stands; an export that fails alone leaves       *)
(* both names as they were or as asked for, nothing ends under a hidden    *)
(* name untold, and without the word to overwrite what stands stays.  A    *)
(* thing is never in two places.                                           *)
(***************************************************************************)
EXTENDS Publication, TLAPS

\* What the argument needs to know of types and of names nobody has used yet.
Staging ==
    /\ dir \in [Names -> Theirs \cup Made \cup {Nothing}]
    /\ outside \subseteq Theirs
    /\ held \in [document : Files \cup {Nothing}, assets : Folders \cup {Nothing}]
    /\ phase \in {"acquire", "examine"} => held = [document |-> Nothing, assets |-> Nothing]
    /\ phase \in {"acquire", "examine"} => dir["document"] \notin Made
    /\ phase \in {"acquire", "examine", "stage_document"} => dir["document_stage"] = Nothing
    /\ phase \in {"acquire", "examine", "stage_document", "stage_assets"}
         => dir["assets_stage"] = Nothing

Counting == pos \in 1 .. 5

Displaced == {held.document, held.assets} \ {Nothing}

\* Until the backups are discarded, what was displaced stands; from its stage on
\* to then, the new document does.
Waits ==
    /\ phase \notin {"discard", "ended", "dead"} => \A x \in Displaced : Stands(x)
    /\ phase \in {"stage_assets", "name", "forward", "confirm", "discard"} => Stands(NewDocument)

IInv == Staging /\ Counting /\ ForeignSurvives /\ Waits /\ OneOfThemStands

USE PublicationAssumption

\* Something else at a name, and what was there before is gone, not ended.
LEMMA PutKeeps ==
    ASSUME dir \in [Names -> Theirs \cup Made \cup {Nothing}], NEW n \in Names, NEW x, NEW y,
           y # Nothing, Stands(y),
           dir' = [dir EXCEPT ![n] = x],
           gone' = IF dir[n] = Nothing THEN gone ELSE gone \cup {dir[n]}
    PROVE  Stands(y)'
<1>1. CASE y \in gone
  BY <1>1 DEF Stands
<1>2. CASE y \notin gone
  <2>1. PICK m \in Names : dir[m] = y
    BY <1>2 DEF Stands
  <2>2. CASE m = n
    BY <2>2 DEF Stands
  <2>3. CASE m # n
    <3>1. dir'[m] = y
      BY <2>1, <2>3
    <3> QED
      BY <3>1 DEF Stands
  <2> QED
    BY <2>2, <2>3
<1> QED
  BY <1>1, <1>2

\* A rename that replaces nothing ends nothing.
LEMMA RenameKeeps ==
    ASSUME dir \in [Names -> Theirs \cup Made \cup {Nothing}],
           NEW from \in Names, NEW to \in Names, NEW y, y # Nothing, Stands(y),
           dir[to] = Nothing, from # to,
           dir' = [dir EXCEPT ![to] = dir[from], ![from] = Nothing],
           gone' = gone
    PROVE  Stands(y)'
<1>1. CASE y \in gone
  BY <1>1 DEF Stands
<1>2. CASE y \notin gone
  <2>1. PICK m \in Names : dir[m] = y
    BY <1>2 DEF Stands
  <2>2. m # to
    BY <2>1
  <2>3. CASE m = from
    <3>1. dir'[to] = y
      BY <2>1, <2>3
    <3> QED
      BY <3>1 DEF Stands
  <2>4. CASE m # from
    <3>1. dir'[m] = y
      BY <2>1, <2>2, <2>4
    <3> QED
      BY <3>1 DEF Stands
  <2> QED
    BY <2>3, <2>4
<1> QED
  BY <1>1, <1>2

\* A name that is written or cleared ends what stood there and nothing else.
LEMMA WriteKeeps ==
    ASSUME dir \in [Names -> Theirs \cup Made \cup {Nothing}], NEW n \in Names, NEW x, NEW y,
           Stands(y), dir[n] # y,
           dir' = [dir EXCEPT ![n] = x], gone' = gone
    PROVE  Stands(y)'
<1>1. CASE y \in gone
  BY <1>1 DEF Stands
<1>2. CASE y \notin gone
  <2>1. PICK m \in Names : dir[m] = y
    BY <1>2 DEF Stands
  <2>2. dir'[m] = y
    BY <2>1
  <2> QED
    BY <2>2 DEF Stands
<1> QED
  BY <1>1, <1>2

\* The moves are between two names, and not the same one.
LEMMA MoveNames ==
    ASSUME pos \in 1 .. 5, Moving
    PROVE  Move.from \in Names /\ Move.to \in Names /\ Move.from # Move.to
<1> DEFINE Fine(m) == m.from \in Names /\ m.to \in Names /\ m.from # m.to
<1>1. pos = 1 \/ pos = 2 \/ pos = 3 \/ pos = 4
  BY DEF Moving
<1>2. Fine(Moves[1]) /\ Fine(Moves[2]) /\ Fine(Moves[3]) /\ Fine(Moves[4])
  BY DEF Moves, Names, Visible, Stages, Backups
<1>3. CASE phase = "forward"
  <2>1. Move = Moves[pos]
    BY <1>3 DEF Move
  <2> QED
    BY <1>1, <1>2, <2>1
<1>4. CASE phase # "forward"
  <2>1. Move = Reversed(Moves[5 - pos])
    BY <1>4 DEF Move, Backward
  <2>2. 5 - pos = 1 \/ 5 - pos = 2 \/ 5 - pos = 3 \/ 5 - pos = 4
    BY <1>1
  <2>3. Fine(Moves[5 - pos])
    BY <1>2, <2>2
  <2>4. Move.from = Moves[5 - pos].to /\ Move.to = Moves[5 - pos].from
    BY <2>1 DEF Reversed
  <2> QED
    BY <2>3, <2>4
<1> QED
  BY <1>3, <1>4

\* What is removed is the export's own, or was displaced and is a backup.
LEMMA RemovedObjects ==
    ASSUME held \in [document : Files \cup {Nothing}, assets : Folders \cup {Nothing}],
           pos \in 1 .. 5, Removing
    PROVE  /\ Removals[pos].name \in Names
           /\ Removals[pos].object \in {NewDocument, NewAssets, Nothing} \cup Displaced
           /\ phase = "discard" => Removals[pos].object \in {Nothing} \cup Displaced
           /\ phase # "discard" => Removals[pos].object \in {NewDocument, NewAssets, Nothing}
<1>1. pos = 1 \/ pos = 2
  BY DEF Removing
<1>2. {"document_stage", "assets_stage", "document_backup", "assets_backup"} \subseteq Names
  BY DEF Names, Stages, Backups
<1>3. CASE phase = "discard"
  <2>1. Removals[1].name = "document_backup" /\ Removals[1].object = held.document
    BY <1>3 DEF Removals
  <2>2. Removals[2].name = "assets_backup" /\ Removals[2].object = held.assets
    BY <1>3 DEF Removals
  <2>3. Removals[pos].name \in Names
    BY <1>1, <1>2, <2>1, <2>2
  <2>4. Removals[pos].object \in {Nothing} \cup Displaced
    BY <1>1, <2>1, <2>2 DEF Displaced
  <2> QED
    BY <1>3, <2>3, <2>4
<1>4. CASE phase = "clean"
  <2>1. Removals[1].name = "document_stage" /\ Removals[1].object = NewDocument
    BY <1>4 DEF Removals
  <2>2. Removals[2].name = "assets_stage" /\ Removals[2].object = Object("new_assets")
    BY <1>4 DEF Removals
  <2>3. Object("new_assets") \in {NewAssets, Nothing}
    BY DEF Object
  <2>4. Removals[pos].name \in Names
    BY <1>1, <1>2, <2>1, <2>2
  <2>5. Removals[pos].object \in {NewDocument, NewAssets, Nothing}
    BY <1>1, <2>1, <2>2, <2>3
  <2> QED
    BY <1>4, <2>4, <2>5
<1>5. CASE phase = "abandon"
  <2>1. Removals[1].name = "document_stage" /\ Removals[1].object = NewDocument
    BY <1>5 DEF Removals
  <2>2. Removals[2].name = "assets_stage" /\ Removals[2].object = Nothing
    BY <1>5 DEF Removals
  <2>3. Removals[pos].name \in Names
    BY <1>1, <1>2, <2>1, <2>2
  <2>4. Removals[pos].object \in {NewDocument, NewAssets, Nothing}
    BY <1>1, <2>1, <2>2
  <2> QED
    BY <1>5, <2>3, <2>4
<1> QED
  BY <1>3, <1>4, <1>5 DEF Removing

LEMMA InitEstablishes == Init => IInv
<1> SUFFICES ASSUME Init PROVE IInv
  OBVIOUS
<1>1. Staging
  <2>1. \A n \in Visible : before[n] \in Theirs \cup {Nothing}
    <3>1. before.document \in Theirs \cup {Nothing} /\ before.assets \in Theirs \cup {Nothing}
      BY DEF Init, Theirs
    <3> QED
      BY <3>1 DEF Visible
  <2>2. dir \in [Names -> Theirs \cup Made \cup {Nothing}]
    BY <2>1 DEF Init
  <2>3. outside \subseteq Theirs
    BY DEF Init
  <2>4. dir["document_stage"] = Nothing /\ dir["assets_stage"] = Nothing
    BY DEF Init, Names, Visible, Stages, Backups
  <2>5. /\ held = [document |-> Nothing, assets |-> Nothing]
        /\ phase = "acquire"
    BY DEF Init
  <2>6. dir["document"] \notin Made
    <3>1. "document" \in Names /\ "document" \in Visible
      BY DEF Names, Visible
    <3>2. dir["document"] = before["document"]
      BY <3>1 DEF Init
    <3> QED
      BY <2>1, <3>1, <3>2
  <2> QED
    BY <2>2, <2>3, <2>4, <2>5, <2>6 DEF Staging
<1>2. ForeignSurvives
  <2>1. outside = Theirs \ {dir[n] : n \in Names}
    BY DEF Init
  <2> QED
    BY <2>1 DEF ForeignSurvives, Stands
<1>3. Displaced = {}
  BY DEF Init, Displaced
<1>4. Waits /\ OneOfThemStands
  BY <1>3 DEF Init, Waits, OneOfThemStands, Displaced
<1>5. Counting
  BY DEF Init, Counting
<1> QED
  BY <1>1, <1>2, <1>4, <1>5 DEF IInv

-----------------------------------------------------------------------------
(* Steps that end nothing.                                                 *)

\* A step that leaves what is held, ends nothing that stands, and loses nothing
\* others have yet to bring.
Ends(y) == Stands(y) /\ ~ Stands(y)'

LEMMA KeepingPreserves ==
    ASSUME IInv, Staging', Counting', held' = held,
           \A y : y # Nothing => ~ Ends(y),
           \A x \in outside : x \in outside' \/ Stands(x)',
           phase' \notin {"discard", "ended", "dead"} => phase \notin {"discard", "ended", "dead"},
           phase' \in {"stage_assets", "name", "forward", "confirm", "discard"}
             => \/ phase \in {"stage_assets", "name", "forward", "confirm", "discard"}
                \/ Stands(NewDocument)'
    PROVE  IInv'
<1>1. \A y : y # Nothing /\ Stands(y) => Stands(y)'
  BY DEF Ends
<1>2. NewDocument # Nothing
  BY DEF Made
<1>3. Displaced' = Displaced /\ Nothing \notin Displaced
  BY DEF Displaced
<1>4. ForeignSurvives'
  <2> SUFFICES ASSUME NEW x \in Theirs \ {held.document, held.assets}
               PROVE  x \in outside' \/ Stands(x)'
    BY DEF ForeignSurvives
  <2>1. x \in outside \/ Stands(x)
    BY DEF IInv, ForeignSurvives
  <2> QED
    BY <1>1, <2>1
<1>5. Waits'
  <2>1. ASSUME phase' \notin {"discard", "ended", "dead"}, NEW x \in Displaced
        PROVE  Stands(x)'
    BY <1>1, <1>3, <2>1 DEF IInv, Waits
  <2>2. ASSUME phase' \in {"stage_assets", "name", "forward", "confirm", "discard"}
        PROVE  Stands(NewDocument)'
    BY <1>1, <1>2, <2>2 DEF IInv, Waits
  <2> QED
    BY <1>3, <2>1, <2>2 DEF Waits
<1>6. OneOfThemStands'
  BY <1>1, <1>2 DEF IInv, OneOfThemStands
<1> QED
  BY <1>4, <1>5, <1>6 DEF IInv

LEMMA HandPreserves == IInv /\ Hand => IInv'
<1> SUFFICES ASSUME IInv, Hand PROVE IInv'
  OBVIOUS
<1>1. Staging
  BY DEF IInv
<1>2. UNCHANGED <<held, phase, pos>> /\ Counting'
  BY DEF Hand, IInv, Counting
<1>3. CASE \E n \in Visible : TakeAway(n)
  <2>1. PICK n \in Visible : TakeAway(n)
    BY <1>3
  <2>2. n \in Names /\ n # "document_stage" /\ n # "assets_stage"
    BY DEF Names, Visible
  <2>3. dir' = [dir EXCEPT ![n] = Nothing] /\ outside' = outside
        /\ gone' = IF dir[n] = Nothing THEN gone ELSE gone \cup {dir[n]}
    BY <2>1 DEF TakeAway
  <2>4. Staging'
    <3>1. dir'["document"] \in {dir["document"], Nothing}
      BY <1>1, <2>2, <2>3 DEF Staging, Names, Visible
    <3> QED
      BY <1>1, <1>2, <2>2, <2>3, <3>1 DEF Staging, Names, Stages
  <2>5. ASSUME NEW y, y # Nothing, Stands(y) PROVE Stands(y)'
    BY <1>1, <2>2, <2>3, <2>5, PutKeeps DEF Staging
  <2> QED
    BY <1>2, <2>3, <2>4, <2>5, KeepingPreserves DEF Ends
<1>4. CASE \E n \in Visible : \E x \in Theirs : Put(n, x)
  <2>1. PICK n \in Visible, x \in Theirs : Put(n, x)
    BY <1>4
  <2>2. n \in Names /\ n # "document_stage" /\ n # "assets_stage"
    BY DEF Names, Visible
  <2>3. dir' = [dir EXCEPT ![n] = x] /\ outside' = outside \ {x}
        /\ gone' = IF dir[n] = Nothing THEN gone ELSE gone \cup {dir[n]}
    BY <2>1 DEF Put
  <2>4. Staging'
    <3>1. dir'["document"] \in {dir["document"], x}
      BY <1>1, <2>2, <2>3 DEF Staging, Names, Visible
    <3> QED
      BY <1>1, <1>2, <2>2, <2>3, <3>1 DEF Staging, Names, Stages
  <2>5. ASSUME NEW y, y # Nothing, Stands(y) PROVE Stands(y)'
    BY <1>1, <2>2, <2>3, <2>5, PutKeeps DEF Staging
  <2>6. Stands(x)'
    <3>1. dir'[n] = x
      BY <1>1, <2>2, <2>3 DEF Staging
    <3> QED
      BY <2>2, <3>1 DEF Stands
  <2>7. \A z \in outside : z \in outside' \/ Stands(z)'
    BY <2>3, <2>6
  <2> QED
    BY <1>2, <2>4, <2>5, <2>7, KeepingPreserves DEF Ends
<1>5. CASE PutInside \/ MoveAside
  <2>1. UNCHANGED <<dir, outside, gone>>
    BY <1>5 DEF PutInside, MoveAside
  <2>2. Staging'
    BY <1>1, <1>2, <2>1 DEF Staging
  <2>3. \A y : ~ Ends(y)
    BY <2>1 DEF Ends, Stands
  <2> QED
    BY <1>2, <2>1, <2>2, <2>3, KeepingPreserves
<1> QED
  BY <1>3, <1>4, <1>5 DEF Hand

\* A move, of whichever object: the rename takes it from one name to another.
LEMMA RenamePreserves == IInv /\ Rename => IInv'
<1> SUFFICES ASSUME IInv, Rename PROVE IInv'
  OBVIOUS
<1>1. Staging
  BY DEF IInv
<1>2. UNCHANGED <<held, outside, gone>>
  BY DEF Rename, world, request_
<1>3. phase \in {"forward", "rollback"}
  BY DEF Rename, Moving
<1>4. phase' \in {"forward", "rollback"} /\ (phase' = "forward" => phase = "forward")
  BY <1>3 DEF Rename, Missed, Enter
<1>7. Counting /\ Counting'
  <2>1. pos \in 1 .. 5 /\ pos <= 4
    BY DEF IInv, Counting, Rename, Moving
  <2>2. pos' = pos \/ pos' = 1 \/ pos' = pos + 1
    BY DEF Rename, Missed, Enter
  <2> QED
    BY <2>1, <2>2 DEF Counting
<1>5. CASE dir' = dir
  <2>1. Staging'
    BY <1>1, <1>2, <1>4, <1>5 DEF Staging
  <2>2. \A y : ~ Ends(y)
    BY <1>2, <1>5 DEF Ends, Stands
  <2> QED
    BY <1>2, <1>3, <1>4, <1>7, <2>1, <2>2, KeepingPreserves
<1>6. CASE dir' # dir
  <2>1. dir[Move.to] = Nothing
        /\ dir' = [dir EXCEPT ![Move.to] = dir[Move.from], ![Move.from] = Nothing]
    BY <1>6 DEF Rename, MayRename
  <2>2. Move.from \in Names /\ Move.to \in Names /\ Move.from # Move.to
    BY <1>7, MoveNames DEF Rename, Counting
  <2>3. dir' \in [Names -> Theirs \cup Made \cup {Nothing}]
    BY <1>1, <2>1, <2>2 DEF Staging
  <2>4. Staging'
    BY <1>1, <1>2, <1>4, <2>3 DEF Staging
  <2>5. ASSUME NEW y, y # Nothing, Stands(y) PROVE Stands(y)'
    BY <1>1, <1>2, <2>1, <2>2, <2>5, RenameKeeps DEF Staging
  <2> QED
    BY <1>2, <1>3, <1>4, <1>7, <2>4, <2>5, KeepingPreserves DEF Ends
<1> QED
  BY <1>5, <1>6

\* Everything that only looks, decides or goes on.
LEMMA LookingPreserves ==
    IInv /\ (\/ Die \/ Acquire \/ Name \/ Skip \/ Look \/ Check \/ Moved \/ Confirm \/ Finish
             \/ UNCHANGED vars)
      => IInv'
<1> SUFFICES ASSUME IInv,
                    \/ Die \/ Acquire \/ Name \/ Skip \/ Look \/ Check \/ Moved \/ Confirm
                    \/ Finish \/ UNCHANGED vars
             PROVE  IInv'
  OBVIOUS
<1>1. Staging
  BY DEF IInv
<1>2. UNCHANGED <<dir, outside, gone, held>>
  BY DEF Die, Acquire, Name, Skip, Look, Check, Moved, Confirm, Finish, world, request_, vars
<1>3. /\ phase' \in {"acquire", "examine"} => phase \in {"acquire", "examine"}
      /\ phase' \in {"stage_document", "stage_assets"} => phase' = phase
      /\ phase' \notin {"discard", "ended", "dead"} => phase \notin {"discard", "ended", "dead"}
      /\ phase' \in {"stage_assets", "name", "forward", "confirm", "discard"}
           => phase \in {"stage_assets", "name", "forward", "confirm", "discard"}
  <2>1. CASE Die
    BY <2>1 DEF Die
  <2>2. CASE Acquire
    BY <2>2 DEF Acquire, Enter, End
  <2>3. CASE Name
    BY <2>3 DEF Name, Enter, End
  <2>4. CASE Skip
    BY <2>4 DEF Skip, Moving
  <2>5. CASE Look
    BY <2>5 DEF Look, Moving, Missed, Enter
  <2>6. CASE Check
    BY <2>6 DEF Check, Moving, Missed, Enter
  <2>7. CASE Moved
    BY <2>7 DEF Moved, After, Enter
  <2>8. CASE Confirm
    BY <2>8 DEF Confirm, After, Enter
  <2>9. CASE Finish
    BY <2>9 DEF Finish, After, Enter, End
  <2>10. CASE UNCHANGED vars
    BY <2>10 DEF vars
  <2> QED
    BY <2>1, <2>2, <2>3, <2>4, <2>5, <2>6, <2>7, <2>8, <2>9, <2>10
<1>4. Staging'
  BY <1>1, <1>2, <1>3 DEF Staging
<1>5. Counting'
  <2>1. pos \in 1 .. 5
    BY DEF IInv, Counting
  <2>2. CASE Skip \/ Look \/ Check
    BY <2>1, <2>2 DEF Skip, Look, Check, Moving, Missed, Enter, Counting
  <2>3. CASE Acquire \/ Name \/ Moved \/ Confirm \/ Finish
    BY <2>1, <2>3 DEF Acquire, Name, Moved, Confirm, Finish, Enter, End, Counting
  <2>4. CASE Die \/ UNCHANGED vars
    BY <2>1, <2>4 DEF Die, vars, Counting
  <2> QED
    BY <2>2, <2>3, <2>4
<1>6. \A y : ~ Ends(y)
  BY <1>2 DEF Ends, Stands
<1> QED
  BY <1>2, <1>3, <1>4, <1>5, <1>6, KeepingPreserves

-----------------------------------------------------------------------------
(* The steps that begin to hold, write a stage, or remove.                 *)

\* What is found at the names is there.
LEMMA ExaminePreserves == IInv /\ Examine => IInv'
<1> SUFFICES ASSUME IInv, Examine PROVE IInv'
  OBVIOUS
<1>1. Staging
  BY DEF IInv
<1>2. UNCHANGED <<dir, outside, gone>>
  BY DEF Examine, world
<1>3. phase = "examine" /\ phase' \in {"stage_document", "ended"}
  BY DEF Examine, Enter, End
<1>6. held.document = Nothing /\ held.assets = Nothing
  <2>1. held = [document |-> Nothing, assets |-> Nothing]
    BY <1>1, <1>3 DEF Staging
  <2> QED
    BY <2>1
<1>7. Counting'
  <2>1. pos' = 1
    BY DEF Examine, Enter, End
  <2> QED
    BY <2>1 DEF Counting
<1>4. CASE held' = held
  <2>1. Staging'
    BY <1>1, <1>2, <1>3, <1>4 DEF Staging
  <2>2. \A y : ~ Ends(y)
    BY <1>2 DEF Ends, Stands
  <2> QED
    BY <1>2, <1>3, <1>4, <1>7, <2>1, <2>2, KeepingPreserves
<1>5. CASE held' # held
  <2>1. /\ phase' = "stage_document" /\ Fit
        /\ held' = [document |-> Document,
                    assets |-> IF request.overwrite THEN Assets ELSE Nothing]
    BY <1>5 DEF Examine, Enter
  <2>2. "document" \in Names /\ "assets" \in Names
    BY DEF Names, Visible
  <2>3. held'.document \in {dir["document"]} /\ held'.assets \in {dir["assets"], Nothing}
    BY <2>1 DEF Document, Assets
  <2>4. Staging'
    <3>1. dir["document"] \in Theirs \cup {Nothing}
      BY <1>1, <1>3, <2>2 DEF Staging
    <3>2. held'.document \in Files \cup {Nothing}
      BY <2>1, <3>1 DEF Fit, Document, Theirs
    <3>3. held'.assets \in Folders \cup {Nothing}
      BY <2>1 DEF Fit, Assets
    <3>4. held' \in [document : Files \cup {Nothing}, assets : Folders \cup {Nothing}]
      <4>1. held' = [document |-> held'.document, assets |-> held'.assets]
        BY <2>1
      <4> QED
        BY <3>2, <3>3, <4>1
    <3> QED
      BY <1>1, <1>2, <1>3, <2>1, <3>4 DEF Staging
  <2>5. \A x \in Displaced' : Stands(x)'
    BY <1>2, <2>2, <2>3 DEF Displaced, Stands
  <2>6. ForeignSurvives'
    <3>1. \A x \in Theirs : x \in outside \/ Stands(x)
      <4>1. Nothing \notin Theirs
        OBVIOUS
      <4> QED
        BY <1>6, <4>1 DEF IInv, ForeignSurvives
    <3> QED
      BY <1>2, <3>1 DEF ForeignSurvives, Stands
  <2> QED
    BY <1>7, <2>1, <2>4, <2>5, <2>6 DEF IInv, Waits, OneOfThemStands, Displaced
<1> QED
  BY <1>4, <1>5

\* A stage is written where nothing stands.
LEMMA StagingPreserves == IInv /\ (StageDocument \/ StageAssets) => IInv'
<1> SUFFICES ASSUME IInv, StageDocument \/ StageAssets PROVE IInv'
  OBVIOUS
<1>1. Staging
  BY DEF IInv
<1>2. UNCHANGED <<outside, gone, held>>
  BY DEF StageDocument, StageAssets, world
<1>3. Counting'
  <2>1. pos' = 1
    BY DEF StageDocument, StageAssets, Enter, End
  <2> QED
    BY <2>1 DEF Counting
<1>4. ASSUME NEW n \in Stages, NEW x \in Made, dir[n] = Nothing,
             dir' = dir \/ dir' = [dir EXCEPT ![n] = x]
      PROVE  /\ dir' \in [Names -> Theirs \cup Made \cup {Nothing}]
             /\ \A y : y # Nothing => ~ Ends(y)
  <2>1. n \in Names
    BY DEF Names
  <2>2. dir' \in [Names -> Theirs \cup Made \cup {Nothing}]
    BY <1>1, <1>4, <2>1 DEF Staging
  <2>3. ASSUME NEW y, y # Nothing, Stands(y), dir' = [dir EXCEPT ![n] = x]
        PROVE  Stands(y)'
    BY <1>1, <1>2, <1>4, <2>1, <2>3, WriteKeeps DEF Staging
  <2>4. ASSUME dir' = dir, NEW y, Stands(y) PROVE Stands(y)'
    BY <1>2, <2>4 DEF Stands
  <2> QED
    BY <1>4, <2>2, <2>3, <2>4 DEF Ends
<1>5. CASE StageDocument
  <2>1. /\ phase = "stage_document" /\ phase' \in {"stage_assets", "name", "ended"}
        /\ phase' # "ended" => dir' = [dir EXCEPT !["document_stage"] = NewDocument]
        /\ \/ dir' = dir \/ dir' = [dir EXCEPT !["document_stage"] = NewDocument]
           \/ dir' = [dir EXCEPT !["document_stage"] = Partial]
    BY <1>5 DEF StageDocument, Enter, End
  <2>2. dir["document_stage"] = Nothing /\ dir["assets_stage"] = Nothing
    BY <1>1, <2>1 DEF Staging
  <2>3. {NewDocument, Partial} \subseteq Made /\ "document_stage" \in Stages
    BY DEF Made, Stages
  <2>4. dir' \in [Names -> Theirs \cup Made \cup {Nothing}] /\ \A y : y # Nothing => ~ Ends(y)
    BY <1>4, <2>1, <2>2, <2>3
  <2>5. dir'["assets_stage"] = Nothing
    BY <1>1, <2>1, <2>2 DEF Staging, Names, Stages
  <2>6. Staging'
    BY <1>1, <1>2, <2>1, <2>4, <2>5 DEF Staging
  <2>7. phase' # "ended" => Stands(NewDocument)'
    <3>1. "document_stage" \in Names
      BY DEF Names, Stages
    <3>2. phase' # "ended" => dir'["document_stage"] = NewDocument
      BY <1>1, <2>1, <3>1 DEF Staging
    <3> QED
      BY <3>1, <3>2 DEF Stands
  <2> QED
    BY <1>2, <1>3, <2>1, <2>4, <2>6, <2>7, KeepingPreserves
<1>6. CASE StageAssets
  <2>1. /\ phase = "stage_assets" /\ phase' \in {"name", "abandon", "ended"}
        /\ \/ dir' = dir \/ dir' = [dir EXCEPT !["assets_stage"] = NewAssets]
           \/ dir' = [dir EXCEPT !["assets_stage"] = Partial]
    BY <1>6 DEF StageAssets, Enter, End
  <2>2. dir["assets_stage"] = Nothing
    BY <1>1, <2>1 DEF Staging
  <2>3. {NewAssets, Partial} \subseteq Made /\ "assets_stage" \in Stages
    BY DEF Made, Stages
  <2>4. dir' \in [Names -> Theirs \cup Made \cup {Nothing}] /\ \A y : y # Nothing => ~ Ends(y)
    BY <1>4, <2>1, <2>2, <2>3
  <2>5. Staging'
    BY <1>1, <1>2, <2>1, <2>4 DEF Staging
  <2> QED
    BY <1>2, <1>3, <2>1, <2>4, <2>5, KeepingPreserves
<1> QED
  BY <1>5, <1>6

\* What is removed is what was verified to stand there: a stage before the new
\* document is anybody's, or a backup when the new document stands.
LEMMA RemovePreserves == IInv /\ Remove => IInv'
<1> SUFFICES ASSUME IInv, Remove PROVE IInv'
  OBVIOUS
<1>1. Staging
  BY DEF IInv
<1>2. UNCHANGED <<outside, gone, held>>
  BY DEF Remove, world
<1>3. /\ phase \in {"discard", "clean", "abandon"}
      /\ phase' = phase \/ (phase = "discard" /\ phase' = "ended")
  BY DEF Remove, Removing, End, Enter
<1>4. Counting /\ Counting'
  <2>1. pos \in 1 .. 5 /\ pos <= 2
    BY DEF IInv, Counting, Remove, Removing
  <2>2. pos' = 1 \/ pos' = pos + 1
    BY DEF Remove, End, Enter
  <2> QED
    BY <2>1, <2>2 DEF Counting
<1>5. CASE dir' = dir
  <2>1. Staging'
    BY <1>1, <1>2, <1>3, <1>5 DEF Staging
  <2>2. \A y : ~ Ends(y)
    BY <1>2, <1>5 DEF Ends, Stands
  <2> QED
    BY <1>2, <1>3, <1>4, <2>1, <2>2, KeepingPreserves
<1>6. CASE dir' # dir
  <2> DEFINE r == Removals[pos]
  <2>1. dir[r.name] = r.object /\ dir' = [dir EXCEPT ![r.name] = Nothing] /\ phase' = phase
    BY <1>6 DEF Remove, Verified
  <2>2. /\ r.name \in Names
        /\ r.object \in {NewDocument, NewAssets, Nothing} \cup Displaced
        /\ phase = "discard" => r.object \in {Nothing} \cup Displaced
        /\ phase # "discard" => r.object \in {NewDocument, NewAssets, Nothing}
    BY <1>1, <1>4, RemovedObjects DEF Remove, Staging, Counting
  <2> HIDE DEF r
  <2>3. dir' \in [Names -> Theirs \cup Made \cup {Nothing}]
    BY <1>1, <2>1, <2>2 DEF Staging
  <2>4. Staging'
    BY <1>1, <1>2, <1>3, <2>1, <2>3 DEF Staging
  <2>5. ASSUME NEW y, Stands(y), y # r.object PROVE Stands(y)'
    BY <1>1, <1>2, <2>1, <2>2, <2>5, WriteKeeps DEF Staging
  <2>6. Displaced \subseteq Theirs /\ {NewDocument, NewAssets} \cap Theirs = {}
    BY <1>1 DEF Staging, Displaced, Theirs, Made
  <2>7. Displaced' = Displaced
    BY <1>2 DEF Displaced
  <2>8. ForeignSurvives'
    <3> SUFFICES ASSUME NEW x \in Theirs \ {held.document, held.assets}
                 PROVE  x \in outside' \/ Stands(x)'
      BY <1>2 DEF ForeignSurvives
    <3>1. x # r.object
      BY <2>2, <2>6 DEF Displaced
    <3> QED
      BY <1>2, <2>5, <3>1 DEF IInv, ForeignSurvives
  <2>9. CASE phase = "discard"
    <3>1. NewDocument # r.object
      BY <2>2, <2>6, <2>9 DEF Made
    <3>2. Stands(NewDocument)'
      BY <2>5, <2>9, <3>1 DEF IInv, Waits
    <3> QED
      BY <1>4, <2>1, <2>4, <2>8, <2>9, <3>2 DEF IInv, Waits, OneOfThemStands
  <2>10. CASE phase # "discard"
    <3>1. \A x \in Displaced : Stands(x)
      BY <1>3, <2>10 DEF IInv, Waits
    <3>2. \A x \in Displaced : Stands(x)'
      BY <2>2, <2>5, <2>6, <2>10, <3>1 DEF Displaced
    <3>3. OneOfThemStands'
      BY <2>7, <3>2 DEF OneOfThemStands, Displaced
    <3>4. Waits'
      BY <1>3, <2>1, <2>7, <2>10, <3>2 DEF Waits
    <3> QED
      BY <1>4, <2>4, <2>8, <3>3, <3>4 DEF IInv
  <2> QED
    BY <2>9, <2>10
<1> QED
  BY <1>5, <1>6

LEMMA StepPreserves == IInv /\ [Next]_vars => IInv'
BY HandPreserves, RenamePreserves, LookingPreserves, ExaminePreserves, StagingPreserves,
   RemovePreserves DEF Next

LEMMA Always == Spec => []IInv
<1>1. Init => IInv
  BY InitEstablishes
<1>2. IInv /\ [Next]_vars => IInv'
  BY StepPreserves
<1> QED
  BY <1>1, <1>2, PTL DEF Spec

-----------------------------------------------------------------------------
\* What other programs have, before a publication or during it, is never ended by
\* one: it is where they put it, or where a rename moved it (capability.rs'
\* rename_noreplace, HeldFile::remove_verified).
THEOREM ForeignAlwaysSurvives == Spec => []ForeignSurvives
<1>1. IInv => ForeignSurvives
  BY DEF IInv
<1> QED
  BY <1>1, Always, PTL

\* A document that is replaced is removed only once the new one stands: a death at
\* any step leaves one of them (publication.rs, publish_markdown_stages).
THEOREM OneAlwaysStands == Spec => []OneOfThemStands
<1>1. IInv => OneOfThemStands
  BY DEF IInv
<1> QED
  BY <1>1, Always, PTL

-----------------------------------------------------------------------------
(* Nobody asked to overwrite.                                              *)

Bounds ==
    /\ request \in [markdown : BOOLEAN, overwrite : BOOLEAN, assets : BOOLEAN]
    /\ request.assets => request.markdown
    /\ left \in [faults : 0 .. Faults, hands : 0 .. Hands]

\* Without the word to overwrite nothing is ever held, so nothing is displaced.
Unasked ==
    /\ ~ request.overwrite => held.document = Nothing /\ held.assets = Nothing
    /\ ~ request.markdown => held.assets = Nothing

\* The bounds go down, one at a time, and the request is what it was.
LEMMA BoundsKept == Bounds /\ [Next]_vars => Bounds' /\ (UNCHANGED request)
<1> SUFFICES ASSUME Bounds, [Next]_vars PROVE Bounds' /\ (UNCHANGED request)
  OBVIOUS
<1>1. request' = request
  BY DEF Next, vars, Hand, Die, Acquire, Examine, StageDocument, StageAssets, Name, Skip, Look,
         Rename, Check, Moved, Confirm, Remove, Finish, request_
<1>2. \/ left' = left \/ Fault
      \/ left.hands > 0 /\ left' = [left EXCEPT !.hands = @ - 1]
  BY DEF Next, vars, Hand, Die, Acquire, Examine, StageDocument, StageAssets, Name, Skip, Look,
         Rename, Check, Moved, Confirm, Remove, Finish, Fails
<1>3. left' \in [faults : 0 .. Faults, hands : 0 .. Hands]
  BY <1>2 DEF Bounds, Fault
<1> QED
  BY <1>1, <1>3 DEF Bounds

LEMMA UnaskedKept == Bounds /\ Unasked /\ [Next]_vars => Unasked'
<1> SUFFICES ASSUME Bounds, Unasked, [Next]_vars PROVE Unasked'
  OBVIOUS
<1>1. request' = request
  BY BoundsKept
<1>2. CASE held' = held
  BY <1>1, <1>2 DEF Unasked
<1>3. CASE held' # held
  <2>1. Examine
    BY <1>3 DEF Next, vars, Hand, Die, Acquire, StageDocument, StageAssets, Name, Skip, Look,
                Rename, Check, Moved, Confirm, Remove, Finish
  <2>2. /\ ~ Refused
        /\ held' = [document |-> Document,
                    assets |-> IF request.overwrite THEN Assets ELSE Nothing]
    BY <1>3, <2>1 DEF Examine
  <2>3. request.overwrite \in BOOLEAN /\ request.markdown \in BOOLEAN
    BY DEF Bounds
  <2>4. ~ request.overwrite => Document = Nothing
    BY <2>2, <2>3 DEF Refused
  <2>5. ~ request.markdown => Assets = Nothing
    BY DEF Assets
  <2> QED
    BY <1>1, <2>2, <2>3, <2>4, <2>5 DEF Unasked
<1> QED
  BY <1>2, <1>3

\* Where each move is between.
Between(m, flag, from, to) == m.flag = flag /\ m.from = from /\ m.to = to

LEMMA TheMoves ==
    /\ Between(Moves[1], "old_document", "document", "document_backup")
    /\ Between(Moves[2], "old_assets", "assets", "assets_backup")
    /\ Between(Moves[3], "new_assets", "assets_stage", "assets")
    /\ Between(Moves[4], "new_document", "document_stage", "document")
BY DEF Moves, Between

LEMMA ForwardMoves ==
    ASSUME phase = "forward"
    PROVE  /\ pos = 1 => Between(Move, "old_document", "document", "document_backup")
           /\ pos = 2 => Between(Move, "old_assets", "assets", "assets_backup")
           /\ pos = 3 => Between(Move, "new_assets", "assets_stage", "assets")
           /\ pos = 4 => Between(Move, "new_document", "document_stage", "document")
<1>1. Move = Moves[pos]
  BY DEF Move
<1> QED
  BY <1>1, TheMoves

LEMMA BackwardMoves ==
    ASSUME phase = "rollback"
    PROVE  /\ pos = 1 => Between(Move, "new_document", "document", "document_stage")
           /\ pos = 2 => Between(Move, "new_assets", "assets", "assets_stage")
           /\ pos = 3 => Between(Move, "old_assets", "assets_backup", "assets")
           /\ pos = 4 => Between(Move, "old_document", "document_backup", "document")
<1>1. /\ Move.flag = Moves[5 - pos].flag
      /\ Move.from = Moves[5 - pos].to /\ Move.to = Moves[5 - pos].from
  BY DEF Move, Backward, Reversed
<1>2. CASE pos = 1
  <2>1. 5 - pos = 4
    BY <1>2
  <2> QED
    BY <1>1, <1>2, <2>1, TheMoves DEF Between
<1>3. CASE pos = 2
  <2>1. 5 - pos = 3
    BY <1>3
  <2> QED
    BY <1>1, <1>3, <2>1, TheMoves DEF Between
<1>4. CASE pos = 3
  <2>1. 5 - pos = 2
    BY <1>4
  <2> QED
    BY <1>1, <1>4, <2>1, TheMoves DEF Between
<1>5. CASE pos = 4
  <2>1. 5 - pos = 1
    BY <1>5
  <2> QED
    BY <1>1, <1>5, <2>1, TheMoves DEF Between
<1> QED
  BY <1>2, <1>3, <1>4, <1>5

\* What is removed, and from where.
Removes(r, name, object) == r.name = name /\ r.object = object

LEMMA TheRemovals ==
    /\ phase = "discard" => /\ Removes(Removals[1], "document_backup", held.document)
                            /\ Removes(Removals[2], "assets_backup", held.assets)
    /\ phase = "clean" => /\ Removes(Removals[1], "document_stage", NewDocument)
                          /\ Removes(Removals[2], "assets_stage", Object("new_assets"))
    /\ phase = "abandon" => /\ Removes(Removals[1], "document_stage", NewDocument)
                            /\ Removes(Removals[2], "assets_stage", Nothing)
<1>1. CASE phase = "discard"
  BY <1>1 DEF Removals, Removes
<1>2. CASE phase = "clean"
  BY <1>2 DEF Removals, Removes
<1>3. CASE phase = "abandon"
  BY <1>3 DEF Removals, Removes
<1> QED
  BY <1>1, <1>2, <1>3

LEMMA StaysPutStep ==
    ASSUME IInv, Bounds, Unasked, [Next]_vars,
           ~ request.overwrite, left'.hands = left.hands, phase # "rollback",
           NEW n \in Visible, dir[n] \in Theirs
    PROVE  dir'[n] = dir[n]
<1>1. dir \in [Names -> Theirs \cup Made \cup {Nothing}] /\ pos \in 1 .. 5 /\ n \in Names
  BY DEF IInv, Staging, Counting, Names
<1>2. n \notin Stages \cup Backups
  BY DEF Visible, Stages, Backups
<1>3. CASE dir' = dir
  BY <1>3
<1>4. CASE Hand
  <2>1. left' = [left EXCEPT !.hands = @ - 1] /\ left.hands \in Nat
    BY <1>4 DEF Hand, Bounds
  <2>2. left'.hands = left.hands - 1
    BY <2>1 DEF Bounds
  <2> QED
    BY <2>1, <2>2
<1>5. CASE StageDocument \/ StageAssets
  <2>1. \E m \in Stages : \E x : dir' = dir \/ dir' = [dir EXCEPT ![m] = x]
    BY <1>5 DEF StageDocument, StageAssets, Stages
  <2> QED
    BY <1>1, <1>2, <2>1
<1>6. CASE Rename /\ dir' # dir
  <2>1. /\ Moving /\ Applies /\ dir[Move.to] = Nothing
        /\ dir' = [dir EXCEPT ![Move.to] = dir[Move.from], ![Move.from] = Nothing]
    BY <1>6 DEF Rename, MayRename
  <2>2. phase = "forward" /\ pos \in 1 .. 4
    BY <1>1, <2>1 DEF Moving
  <2>3. Object(Move.flag) # Nothing
    BY <2>1, <2>2 DEF Applies
  <2>4. Move.flag \notin {"old_document", "old_assets"}
    BY <2>3 DEF Object, Unasked
  <2>5. Move.from \in Stages /\ Move.to \in Visible
    <3>1. pos = 1 \/ pos = 2 \/ pos = 3 \/ pos = 4
      BY <2>2
    <3>2. pos = 3 \/ pos = 4
      BY <2>2, <2>4, <3>1, ForwardMoves DEF Between
    <3> QED
      BY <2>2, <3>2, ForwardMoves DEF Between, Stages, Visible
  <2>6. n # Move.to /\ n # Move.from
    BY <1>2, <2>1, <2>5
  <2> QED
    BY <1>1, <2>1, <2>6
<1>7. CASE Remove /\ dir' # dir
  <2>1. Removing /\ dir' = [dir EXCEPT ![Removals[pos].name] = Nothing]
    BY <1>7 DEF Remove
  <2>2. pos = 1 \/ pos = 2
    BY <1>1, <2>1 DEF Removing
  <2>3. Removals[pos].name \in Stages \cup Backups
    BY <2>1, <2>2, TheRemovals DEF Removing, Removes, Stages, Backups
  <2> QED
    BY <1>1, <1>2, <2>1, <2>3
<1> QED
  BY <1>3, <1>4, <1>5, <1>6, <1>7 DEF Next, vars, Die, Acquire, Examine, Name, Skip, Look, Check,
     Moved, Confirm, Finish

LEMMA BoundsAlways == Spec => [](Bounds /\ Unasked)
<1>1. Init => Bounds /\ Unasked
  BY DEF Init, Bounds, Unasked
<1>2. Bounds /\ Unasked /\ [Next]_vars => Bounds' /\ Unasked'
  BY BoundsKept, UnaskedKept
<1> QED
  BY <1>1, <1>2, PTL DEF Spec

\* Without the word to overwrite no step of a publication but a rollback's takes what
\* somebody else has at one of the two names, even when they put it there between a
\* look and its rename (publication.rs' publish_document with overwrite unset, and
\* capability.rs' rename_noreplace).
THEOREM StaysPutAlways == Spec => StaysPutUnlessAsked
<1> DEFINE Act == ~ request.overwrite /\ left'.hands = left.hands /\ phase # "rollback"
                    => \A n \in Visible : dir[n] \in Theirs => dir'[n] = dir[n]
<1>1. IInv /\ Bounds /\ Unasked /\ [Next]_vars => [Act]_vars
  BY StaysPutStep
<1>2. Spec => [][Act]_vars
  BY <1>1, Always, BoundsAlways, PTL DEF Spec
<1> QED
  BY <1>2 DEF StaysPutUnlessAsked

-----------------------------------------------------------------------------
(* What stands where while a publication is under way.                     *)

Underway == phase \notin {"ended", "dead"}

\* The k-th move, of the object its flag is for, is made and not taken back.
Out(k, flag) ==
    \/ /\ phase = "forward" /\ Object(flag) # Nothing
       /\ k < pos \/ (k = pos /\ at = "check")
    \/ /\ phase = "rollback" /\ flag \in moved
       /\ k + pos < 5 \/ (k + pos = 5 /\ at # "check")
    \/ phase \in {"confirm", "discard"} /\ Object(flag) # Nothing

Tallied(k, flag) ==
    /\ phase \in {"forward", "confirm"} => (flag \in moved <=> Out(k, flag))
    /\ phase = "rollback" /\ flag \in moved => Object(flag) # Nothing

\* The flags tell which moves were made, in their order.
Flagging ==
    /\ Tallied(1, "old_document") /\ Tallied(2, "old_assets")
    /\ Tallied(3, "new_assets") /\ Tallied(4, "new_document")
    /\ phase = "rollback" =>
         /\ "new_document" \in moved /\ held.document # Nothing => "old_document" \in moved
         /\ "new_assets" \in moved /\ held.assets # Nothing => "old_assets" \in moved
    /\ phase \in {"acquire", "examine", "stage_document", "stage_assets", "name"} => moved = {}
    /\ phase = "stage_assets" => request.assets
    /\ phase # "dead" /\ at # "look" => Moving /\ Applies
    /\ troubled => phase \in {"rollback", "clean", "abandon", "ended", "dead"}

\* A backup holds what was displaced once that was checked, for as long as it is out.
Backup(k, flag, name) ==
    /\ ~ Out(k, flag) => dir[name] = Nothing
    /\ phase = "discard" /\ pos > k => dir[name] = Nothing
    /\ phase = "discard" /\ pos <= k => dir[name] = Object(flag)
    /\ phase = "confirm" \/ (phase = "forward" /\ pos > k) => dir[name] = Object(flag)

\* A stage holds what the export wrote, until it is moved away or removed; what a
\* rollback moves back to it is looked at first.
Stage(k, flag, name, empty, written) ==
    /\ phase \in empty \/ Out(k, flag) => dir[name] = Nothing
    /\ phase \in written => dir[name] = Object(flag)
    /\ phase \in {"forward", "confirm", "discard"} /\ ~ Out(k, flag) => dir[name] = Object(flag)
    /\ phase = "rollback" /\ ~ Out(k, flag) /\ ~ (k + pos = 5 /\ at = "check")
         => dir[name] = Object(flag)
    /\ phase = "clean" => dir[name] = IF k + pos < 6 THEN Object(flag) ELSE Nothing

BackedUp ==
    ~ troubled /\ Underway =>
      /\ Backup(1, "old_document", "document_backup")
      /\ Backup(2, "old_assets", "assets_backup")

Staged ==
    ~ troubled /\ Underway =>
      /\ Stage(4, "new_document", "document_stage", {"acquire", "examine", "stage_document"},
               {"stage_assets", "name"})
      /\ Stage(3, "new_assets", "assets_stage",
               {"acquire", "examine", "stage_document", "stage_assets"}, {"name"})
      /\ phase = "abandon" =>
           /\ left.faults < Faults
           /\ dir["document_stage"] = IF pos = 1 THEN NewDocument ELSE Nothing
           /\ dir["assets_stage"] \in {Nothing, Partial}

\* Nobody else was about, and no second operation failed.
Alone == left.hands = Hands /\ left.faults >= Faults - 1

\* Then what stands at the two names is known at every step.
Exact ==
    Alone /\ Underway =>
      /\ strays = {} /\ aside = FALSE
      /\ phase = "rollback" => left.faults < Faults /\ ~ troubled
      /\ phase \notin {"acquire", "examine"} =>
           /\ held.document = before.document
           /\ request.markdown => held.assets = before.assets
      /\ dir["document"] = IF Out(4, "new_document") THEN NewDocument
                           ELSE IF Out(1, "old_document") THEN Nothing ELSE before.document
      /\ dir["assets"] = IF Out(3, "new_assets") THEN NewAssets
                         ELSE IF Out(2, "old_assets") THEN Nothing ELSE before.assets
      /\ phase \in {"forward", "rollback"} =>
           /\ Out(1, "old_document") => dir["document_backup"] = held.document
           /\ Out(2, "old_assets") => dir["assets_backup"] = held.assets
           /\ ~ Out(3, "new_assets") => dir["assets_stage"] = Object("new_assets")
           /\ ~ Out(4, "new_document") => dir["document_stage"] = NewDocument

Tidy ==
    /\ Bounds /\ Unasked /\ Flagging /\ BackedUp /\ Staged /\ Exact
    /\ AllOrNothing /\ HiddenIsTold

\* The four objects, in a state and in the next.
LEMMA Objects ==
    /\ Object("old_document") = held.document /\ Object("old_assets") = held.assets
    /\ Object("new_document") = NewDocument
    /\ Object("new_assets") = IF request.assets THEN NewAssets ELSE Nothing
    /\ Object("old_document")' = held'.document /\ Object("old_assets")' = held'.assets
    /\ Object("new_document")' = NewDocument
    /\ Object("new_assets")' = IF request'.assets THEN NewAssets ELSE Nothing
BY DEF Object

LEMMA SixNames ==
    /\ {"document", "assets", "document_stage", "assets_stage", "document_backup",
        "assets_backup"} = Names
    /\ Visible \subseteq Names
BY DEF Names, Visible, Stages, Backups

\* What a move or a removal looks for in a state is told by these alone.
SameMove == UNCHANGED <<held, request, phase, pos, at, moved, troubled>>

LEMMA AppliesSame ==
    ASSUME UNCHANGED <<held, request, phase, pos, moved>>
    PROVE  /\ Applies' = Applies /\ Moving' = Moving
           /\ (Object(Move.flag))' = Object(Move.flag) /\ Move' = Move
<1>1. (Object(Move.flag))' = Object(Move.flag) /\ Move' = Move
  BY DEF Object, Move, Backward, Reversed, Moves
<1> QED
  BY <1>1 DEF Applies, Moving

LEMMA OutSame ==
    ASSUME SameMove
    PROVE  /\ Out(1, "old_document")' = Out(1, "old_document")
           /\ Out(2, "old_assets")' = Out(2, "old_assets")
           /\ Out(3, "new_assets")' = Out(3, "new_assets")
           /\ Out(4, "new_document")' = Out(4, "new_document")
BY Objects DEF SameMove, Out

LEMMA FlaggingSame == ASSUME Flagging, SameMove PROVE Flagging'
<1>1. held' = held /\ request' = request /\ phase' = phase /\ pos' = pos /\ at' = at
      /\ moved' = moved /\ troubled' = troubled
  BY DEF SameMove
<1>2. Applies' = Applies /\ Moving' = Moving
  BY <1>1, AppliesSame
<1>3. /\ Tallied(1, "old_document")' /\ Tallied(2, "old_assets")'
      /\ Tallied(3, "new_assets")' /\ Tallied(4, "new_document")'
  BY <1>1, Objects, OutSame DEF Flagging, Tallied
<1> QED
  BY <1>1, <1>2, <1>3 DEF Flagging

\* Another program does not reach the hidden names, and nobody is alone after it.
LEMMA HandTidy == ASSUME IInv, Tidy, Hand PROVE Tidy'
<1>1. SameMove /\ UNCHANGED <<before, answer>> /\ phase \notin {"ended", "dead"}
  BY DEF Hand, SameMove
<1>2. left.hands > 0 /\ left' = [left EXCEPT !.hands = @ - 1]
  BY DEF Hand
<1>3. left'.hands < left.hands /\ left'.faults = left.faults
      /\ left.hands <= Hands /\ left.hands \in Nat
  BY <1>2 DEF Tidy, Bounds
<1>4. dir' = dir \/ \E n \in Visible : \E x : dir' = [dir EXCEPT ![n] = x]
  BY DEF Hand, Put, TakeAway, PutInside, MoveAside
<1>5. dir \in [Names -> Theirs \cup Made \cup {Nothing}]
  BY DEF IInv, Staging
<1>6. \A n \in Stages \cup Backups : dir'[n] = dir[n]
  BY <1>4, <1>5 DEF Names, Visible, Stages, Backups
<1>7. /\ dir'["document_stage"] = dir["document_stage"]
      /\ dir'["assets_stage"] = dir["assets_stage"]
      /\ dir'["document_backup"] = dir["document_backup"]
      /\ dir'["assets_backup"] = dir["assets_backup"]
  BY <1>6 DEF Stages, Backups
<1>8. Flagging'
  BY <1>1, FlaggingSame DEF Tidy
<1>9. BackedUp'
  BY <1>1, <1>7, OutSame, Objects DEF Tidy, BackedUp, Backup, Underway, SameMove
<1>10. Staged'
  BY <1>1, <1>3, <1>7, OutSame, Objects DEF Tidy, Staged, Stage, Underway, SameMove
<1>11. Exact'
  <2>1. left'.hands = left.hands - 1
    BY <1>2 DEF Tidy, Bounds
  <2>2. left'.hands # Hands
    BY <1>3, <2>1
  <2> QED
    BY <2>2 DEF Exact, Alone
<1>12. Bounds' /\ Unasked'
  BY BoundsKept, UnaskedKept DEF Tidy, Next
<1>13. AllOrNothing' /\ HiddenIsTold'
  BY <1>1 DEF AllOrNothing, HiddenIsTold, Answered, SameMove
<1> QED
  BY <1>8, <1>9, <1>10, <1>11, <1>12, <1>13 DEF Tidy

LEMMA DieTidy == ASSUME IInv, Tidy, Die PROVE Tidy'
<1>1. phase' = "dead" /\ UNCHANGED <<held, request, left>>
  BY DEF Die, request_
<1>2. Bounds' /\ Unasked'
  BY <1>1 DEF Tidy, Bounds, Unasked
<1>3. Flagging'
  BY <1>1 DEF Flagging, Tallied
<1> QED
  BY <1>1, <1>2, <1>3 DEF Tidy, BackedUp, Staged, Exact, Underway, AllOrNothing, HiddenIsTold,
     Answered

-----------------------------------------------------------------------------
(* The steps up to the first move.                                         *)

\* A fault is one fewer of the bound.
LEMMA FaultsGoDown ==
    ASSUME Bounds, left' = left \/ Fault
    PROVE  /\ left'.hands = left.hands /\ left'.faults \in Nat /\ left.faults \in Nat
           /\ left.faults <= Faults /\ left'.faults <= left.faults
           /\ Fault => left'.faults = left.faults - 1 /\ left'.faults < Faults
           /\ Alone' => Alone
<1>1. left.faults \in 0 .. Faults /\ left.hands \in 0 .. Hands
  BY DEF Bounds
<1>2. Fault => left'.faults = left.faults - 1 /\ left'.hands = left.hands
  BY DEF Fault, Bounds
<1>3. Fault => left.faults > 0
  BY DEF Fault
<1>4. /\ left'.hands = left.hands /\ left'.faults \in Nat /\ left.faults \in Nat
      /\ left.faults <= Faults /\ left'.faults <= left.faults
  BY <1>1, <1>2, <1>3
<1>5. Fault => left'.faults < Faults
  BY <1>1, <1>2, <1>4
<1>6. Alone' => Alone
  BY <1>4 DEF Alone
<1> QED
  BY <1>2, <1>4, <1>5, <1>6

\* What an ended publication owes: the hidden names tell, and the visible ones agree.
LEMMA FourHidden ==
    ASSUME \A n \in {"document_stage", "assets_stage", "document_backup", "assets_backup"} :
             ~ troubled' =>
               /\ dir'[n] \in Made \cup {Nothing}
               /\ left'.faults = Faults => dir'[n] = Nothing
    PROVE  HiddenIsTold'
<1>1. Stages \cup Backups
        = {"document_stage", "assets_stage", "document_backup", "assets_backup"}
  BY DEF Stages, Backups
<1>2. (Made \cup {Nothing}) \cap Theirs = {}
  OBVIOUS
<1> QED
  BY <1>1, <1>2 DEF HiddenIsTold, Answered

LEMMA TwoVisible ==
    ASSUME Alone' => /\ dir'["document"] = before'.document
                     /\ dir'["assets"] = before'.assets
    PROVE  AllOrNothing'
BY DEF AllOrNothing, Alone, AsBefore, Visible

\* Before the first move, and while the stages are cleared, no move is made.
LEMMA NotOut ==
    ASSUME phase \notin {"forward", "rollback", "confirm", "discard"}
    PROVE  /\ ~ Out(1, "old_document") /\ ~ Out(2, "old_assets")
           /\ ~ Out(3, "new_assets") /\ ~ Out(4, "new_document")
BY DEF Out

LEMMA NotOutNext ==
    ASSUME phase' \notin {"forward", "rollback", "confirm", "discard"}
    PROVE  /\ ~ Out(1, "old_document")' /\ ~ Out(2, "old_assets")'
           /\ ~ Out(3, "new_assets")' /\ ~ Out(4, "new_document")'
BY DEF Out

LEMMA AcquireTidy == ASSUME IInv, Tidy, Acquire PROVE Tidy'
<1>1. /\ phase = "acquire" /\ phase' \in {"examine", "ended"} /\ pos' = 1 /\ at' = "look"
      /\ UNCHANGED <<dir, strays, aside, request, before, held, moved, troubled>>
      /\ left' = left \/ Fault
  BY DEF Acquire, Enter, End, Fails, world, request_
<1>2. Bounds' /\ Unasked'
  BY BoundsKept, UnaskedKept DEF Tidy, Next
<1>3. ~ troubled /\ ~ troubled' /\ moved = {}
  BY <1>1 DEF Tidy, Flagging
<1>4. Flagging'
  BY <1>1, <1>3, NotOutNext DEF Flagging, Tallied
<1>5. /\ dir["document_stage"] = Nothing /\ dir["assets_stage"] = Nothing
      /\ dir["document_backup"] = Nothing /\ dir["assets_backup"] = Nothing
  BY <1>1, <1>3, NotOut DEF Tidy, BackedUp, Backup, Staged, Stage, Underway
<1>6. BackedUp' /\ Staged'
  BY <1>1, <1>5, NotOutNext DEF BackedUp, Backup, Staged, Stage, Underway
<1>7. Alone' => Alone
  BY <1>1, FaultsGoDown DEF Tidy
<1>8. Alone => /\ strays = {} /\ aside = FALSE
               /\ dir["document"] = before.document /\ dir["assets"] = before.assets
  BY <1>1, NotOut DEF Tidy, Exact, Underway
<1>9. Exact'
  BY <1>1, <1>7, <1>8, NotOutNext DEF Exact, Underway
<1>10. AllOrNothing'
  BY <1>1, <1>7, <1>8, TwoVisible
<1>11. HiddenIsTold'
  BY <1>1, <1>5, FourHidden
<1> QED
  BY <1>2, <1>4, <1>6, <1>9, <1>10, <1>11 DEF Tidy

LEMMA ExamineTidy == ASSUME IInv, Tidy, Examine PROVE Tidy'
<1>1. /\ phase = "examine" /\ phase' \in {"stage_document", "ended"} /\ pos' = 1 /\ at' = "look"
      /\ UNCHANGED <<dir, strays, aside, request, before, moved, troubled>>
      /\ left' = left \/ Fault
      /\ phase' = "stage_document" =>
           /\ ~ Refused /\ held'.document = Document
           /\ held'.assets = IF request.overwrite THEN Assets ELSE Nothing
  <2> DEFINE a == IF request.overwrite THEN Assets ELSE Nothing
  <2>1. \/ /\ ~ Refused /\ held' = [document |-> Document, assets |-> a]
           /\ Enter("stage_document") /\ left' = left
        \/ End("exists") /\ left' = left
        \/ Fails(Fit) /\ End("failed")
    BY DEF Examine
  <2> HIDE DEF a
  <2>2. ASSUME phase' = "stage_document"
        PROVE  ~ Refused /\ held'.document = Document /\ held'.assets = a
    <3>1. phase' # "ended"
      BY <2>2
    <3>2. ~ Refused /\ held' = [document |-> Document, assets |-> a]
      BY <2>1, <3>1 DEF Enter, End
    <3> QED
      BY <3>2
  <2>3. phase' \in {"stage_document", "ended"} /\ pos' = 1 /\ at' = "look"
        /\ (left' = left \/ Fault)
    BY <2>1 DEF Enter, End, Fails
  <2>4. phase = "examine" /\ UNCHANGED <<dir, strays, aside, request, before, moved, troubled>>
    BY DEF Examine, world, request_
  <2> QED
    BY <2>2, <2>3, <2>4 DEF a
<1>2. Bounds' /\ Unasked'
  BY BoundsKept, UnaskedKept DEF Tidy, Next
<1>3. ~ troubled /\ ~ troubled' /\ moved = {}
  BY <1>1 DEF Tidy, Flagging
<1>4. Flagging'
  BY <1>1, <1>3, NotOutNext DEF Flagging, Tallied
<1>5. /\ dir["document_stage"] = Nothing /\ dir["assets_stage"] = Nothing
      /\ dir["document_backup"] = Nothing /\ dir["assets_backup"] = Nothing
  BY <1>1, <1>3, NotOut DEF Tidy, BackedUp, Backup, Staged, Stage, Underway
<1>6. BackedUp' /\ Staged'
  BY <1>1, <1>5, NotOutNext DEF BackedUp, Backup, Staged, Stage, Underway
<1>7. Alone' => Alone
  BY <1>1, FaultsGoDown DEF Tidy
<1>8. Alone => /\ strays = {} /\ aside = FALSE
               /\ dir["document"] = before.document /\ dir["assets"] = before.assets
  BY <1>1, NotOut DEF Tidy, Exact, Underway
<1>9. Exact'
  <2>1. request.overwrite \in BOOLEAN /\ request.markdown \in BOOLEAN
    BY DEF Tidy, Bounds
  <2>2. phase' = "stage_document" /\ Alone =>
          held'.document = before.document /\ (request.markdown => held'.assets = before.assets)
    BY <1>1, <1>8, <2>1 DEF Refused, Document, Assets
  <2> QED
    BY <1>1, <1>7, <1>8, <2>2, NotOutNext DEF Exact, Underway
<1>10. AllOrNothing'
  BY <1>1, <1>7, <1>8, TwoVisible
<1>11. HiddenIsTold'
  BY <1>1, <1>5, FourHidden
<1> QED
  BY <1>2, <1>4, <1>6, <1>9, <1>10, <1>11 DEF Tidy

LEMMA StageDocumentTidy == ASSUME IInv, Tidy, StageDocument PROVE Tidy'
<1>1. /\ phase = "stage_document" /\ phase' \in {"stage_assets", "name", "ended"}
      /\ pos' = 1 /\ at' = "look"
      /\ UNCHANGED <<strays, aside, request, before, held, moved, troubled>>
      /\ left' = left \/ Fault
      /\ phase' = "stage_assets" => request.assets
      /\ phase' = "name" => ~ request.assets
  BY DEF StageDocument, Enter, End, Fails, world, request_
<1>2. /\ phase' # "ended" => dir' = [dir EXCEPT !["document_stage"] = NewDocument]
      /\ phase' = "ended" =>
           dir' = dir \/ (Fault /\ dir' = [dir EXCEPT !["document_stage"] = Partial])
  BY DEF StageDocument, Enter, End, Fails
<1>3. dir \in [Names -> Theirs \cup Made \cup {Nothing}]
  BY DEF IInv, Staging
<1>4. /\ dir'["document"] = dir["document"] /\ dir'["assets"] = dir["assets"]
      /\ dir'["assets_stage"] = dir["assets_stage"]
      /\ dir'["document_backup"] = dir["document_backup"]
      /\ dir'["assets_backup"] = dir["assets_backup"]
      /\ phase' # "ended" => dir'["document_stage"] = NewDocument
      /\ phase' = "ended" => dir'["document_stage"] = dir["document_stage"]
                               \/ (Fault /\ dir'["document_stage"] = Partial)
  BY <1>2, <1>3, SixNames
<1>5. Bounds' /\ Unasked'
  BY BoundsKept, UnaskedKept DEF Tidy, Next
<1>6. ~ troubled /\ ~ troubled' /\ moved = {}
  BY <1>1 DEF Tidy, Flagging
<1>7. Flagging'
  BY <1>1, <1>6, NotOutNext DEF Flagging, Tallied
<1>8. /\ dir["document_stage"] = Nothing /\ dir["assets_stage"] = Nothing
      /\ dir["document_backup"] = Nothing /\ dir["assets_backup"] = Nothing
  BY <1>1, <1>6, NotOut DEF Tidy, BackedUp, Backup, Staged, Stage, Underway
<1>9. BackedUp'
  BY <1>1, <1>4, <1>8, NotOutNext DEF BackedUp, Backup, Underway
<1>10. Staged'
  <2>1. request.assets \in BOOLEAN
    BY DEF Tidy, Bounds
  <2>2. phase' = "name" => Object("new_assets")' = Nothing
    BY <1>1, <2>1, Objects
  <2> QED
    BY <1>1, <1>4, <1>8, <2>2, NotOutNext, Objects DEF Staged, Stage, Underway
<1>11. (Alone' => Alone) /\ (Fault => left'.faults # Faults)
  <2>1. Fault => left'.faults < Faults /\ left'.faults \in Nat
    BY FaultsGoDown DEF Tidy
  <2>2. Fault => left'.faults # Faults
    BY <2>1
  <2>3. Alone' => Alone
    BY <1>1, FaultsGoDown DEF Tidy
  <2> QED
    BY <2>2, <2>3
<1>12. Alone => /\ strays = {} /\ aside = FALSE
                /\ dir["document"] = before.document /\ dir["assets"] = before.assets
                /\ held.document = before.document
                /\ (request.markdown => held.assets = before.assets)
  BY <1>1, NotOut DEF Tidy, Exact, Underway
<1>13. Exact'
  BY <1>1, <1>4, <1>11, <1>12, NotOutNext DEF Exact, Underway
<1>14. AllOrNothing'
  BY <1>1, <1>4, <1>11, <1>12, TwoVisible
<1>15. HiddenIsTold'
  <2>1. CASE phase' = "ended"
    <3>1. Partial \in Made
      BY DEF Made
    <3> QED
      BY <1>4, <1>8, <1>11, <2>1, <3>1, FourHidden
  <2>2. CASE phase' # "ended"
    BY <2>2 DEF HiddenIsTold, Answered
  <2> QED
    BY <2>1, <2>2
<1> QED
  BY <1>5, <1>7, <1>9, <1>10, <1>13, <1>14, <1>15 DEF Tidy

LEMMA StageAssetsTidy == ASSUME IInv, Tidy, StageAssets PROVE Tidy'
<1>1. /\ phase = "stage_assets" /\ phase' \in {"name", "abandon", "ended"}
      /\ pos' = 1 /\ at' = "look"
      /\ UNCHANGED <<strays, aside, request, before, held, moved, troubled>>
      /\ left' = left \/ Fault
      /\ phase' # "name" => Fault
  BY DEF StageAssets, Enter, End, Fails, world, request_
<1>2. /\ phase' = "name" => dir' = [dir EXCEPT !["assets_stage"] = NewAssets]
      /\ phase' = "abandon" => dir' = dir \/ dir' = [dir EXCEPT !["assets_stage"] = Partial]
      /\ phase' = "ended" => dir' = dir
  BY DEF StageAssets, Enter, End
<1>3. dir \in [Names -> Theirs \cup Made \cup {Nothing}]
  BY DEF IInv, Staging
<1>4. /\ dir'["document"] = dir["document"] /\ dir'["assets"] = dir["assets"]
      /\ dir'["document_stage"] = dir["document_stage"]
      /\ dir'["document_backup"] = dir["document_backup"]
      /\ dir'["assets_backup"] = dir["assets_backup"]
      /\ phase' = "name" => dir'["assets_stage"] = NewAssets
      /\ phase' = "abandon" => dir'["assets_stage"] \in {dir["assets_stage"], Partial}
      /\ phase' = "ended" => dir'["assets_stage"] = dir["assets_stage"]
  BY <1>1, <1>2, <1>3, SixNames
<1>5. Bounds' /\ Unasked'
  BY BoundsKept, UnaskedKept DEF Tidy, Next
<1>6. ~ troubled /\ ~ troubled' /\ moved = {}
  BY <1>1 DEF Tidy, Flagging
<1>7. Flagging'
  BY <1>1, <1>6, NotOutNext DEF Flagging, Tallied
<1>8. /\ dir["document_stage"] = NewDocument /\ dir["assets_stage"] = Nothing
      /\ dir["document_backup"] = Nothing /\ dir["assets_backup"] = Nothing
  BY <1>1, <1>6, NotOut, Objects DEF Tidy, BackedUp, Backup, Staged, Stage, Underway
<1>9. BackedUp'
  BY <1>1, <1>4, <1>8, NotOutNext DEF BackedUp, Backup, Underway
<1>11. (Alone' => Alone) /\ (Fault => left'.faults < Faults)
  BY <1>1, FaultsGoDown DEF Tidy
<1>10. Staged'
  <2>1. CASE phase' = "name"
    <3>1. request'.assets
      BY <1>1 DEF Tidy, Flagging
    <3> QED
      BY <1>1, <1>4, <1>8, <2>1, <3>1, NotOutNext, Objects DEF Staged, Stage, Underway
  <2>2. CASE phase' # "name"
    BY <1>1, <1>4, <1>8, <1>11, <2>2, NotOutNext, Objects DEF Staged, Stage, Underway
  <2> QED
    BY <2>1, <2>2
<1>12. Alone => /\ strays = {} /\ aside = FALSE
                /\ dir["document"] = before.document /\ dir["assets"] = before.assets
                /\ held.document = before.document
                /\ (request.markdown => held.assets = before.assets)
  BY <1>1, NotOut DEF Tidy, Exact, Underway
<1>13. Exact'
  BY <1>1, <1>4, <1>11, <1>12, NotOutNext DEF Exact, Underway
<1>14. AllOrNothing'
  BY <1>1, <1>4, <1>11, <1>12, TwoVisible
<1>15. HiddenIsTold'
  <2>1. CASE phase' = "ended"
    <3>1. left'.faults < Faults /\ left'.faults \in Nat
      BY <1>1, <1>11, <2>1, FaultsGoDown DEF Tidy
    <3>2. left'.faults # Faults /\ NewDocument \in Made
      BY <3>1 DEF Made
    <3> QED
      BY <1>4, <1>8, <2>1, <3>2, FourHidden
  <2>2. CASE phase' # "ended"
    BY <2>2 DEF HiddenIsTold, Answered
  <2> QED
    BY <2>1, <2>2
<1> QED
  BY <1>5, <1>7, <1>9, <1>10, <1>13, <1>14, <1>15 DEF Tidy

\* The names are chosen: every flag is still down, and every object in its stage.
LEMMA NameTidy == ASSUME IInv, Tidy, Name PROVE Tidy'
<1>1. /\ phase = "name" /\ phase' \in {"forward", "clean", "ended"}
      /\ pos' = 1 /\ at' = "look"
      /\ UNCHANGED <<dir, strays, aside, request, before, held, moved, troubled>>
      /\ left' = left \/ Fault
      /\ phase' = "ended" => Fault
      /\ phase' = "clean" => aside
  BY DEF Name, Enter, End, Fails, world, request_
<1>2. Bounds' /\ Unasked'
  BY BoundsKept, UnaskedKept DEF Tidy, Next
<1>3. ~ troubled /\ ~ troubled' /\ moved = {}
  BY <1>1 DEF Tidy, Flagging
<1>4. /\ ~ Out(1, "old_document")' /\ ~ Out(2, "old_assets")'
      /\ ~ Out(3, "new_assets")' /\ ~ Out(4, "new_document")'
  <2>1. /\ ~ (1 < pos') /\ ~ (2 < pos') /\ ~ (3 < pos') /\ ~ (4 < pos') /\ at' # "check"
        /\ phase' \notin {"rollback", "confirm", "discard"}
    BY <1>1
  <2> QED
    BY <2>1 DEF Out
<1>5. Flagging'
  BY <1>1, <1>3, <1>4 DEF Flagging, Tallied
<1>6. /\ dir["document_stage"] = NewDocument /\ dir["assets_stage"] = Object("new_assets")
      /\ dir["document_backup"] = Nothing /\ dir["assets_backup"] = Nothing
  BY <1>1, <1>3, NotOut, Objects DEF Tidy, BackedUp, Backup, Staged, Stage, Underway
<1>7. Object("new_assets")' = Object("new_assets") /\ Object("new_document")' = NewDocument
  BY <1>1, Objects
<1>8. BackedUp'
  BY <1>1, <1>4, <1>6 DEF BackedUp, Backup, Underway
<1>9. Staged'
  BY <1>1, <1>4, <1>6, <1>7 DEF Staged, Stage, Underway
<1>10. Alone' => Alone
  BY <1>1, FaultsGoDown DEF Tidy
<1>11. Alone => /\ strays = {} /\ aside = FALSE
                /\ dir["document"] = before.document /\ dir["assets"] = before.assets
                /\ held.document = before.document
                /\ (request.markdown => held.assets = before.assets)
  BY <1>1, NotOut DEF Tidy, Exact, Underway
<1>12. Exact'
  BY <1>1, <1>4, <1>6, <1>7, <1>10, <1>11 DEF Exact, Underway
<1>13. AllOrNothing'
  BY <1>1, <1>10, <1>11, TwoVisible
<1>14. HiddenIsTold'
  <2>1. CASE phase' = "ended"
    <3>1. left'.faults < Faults /\ left'.faults \in Nat
      BY <1>1, <2>1, FaultsGoDown DEF Tidy
    <3>2. left'.faults # Faults
      BY <3>1
    <3>3. NewDocument \in Made /\ Object("new_assets") \in Made \cup {Nothing}
      BY Objects DEF Made
    <3> QED
      BY <1>1, <1>6, <3>2, <3>3, FourHidden
  <2>2. CASE phase' # "ended"
    BY <2>2 DEF HiddenIsTold, Answered
  <2> QED
    BY <2>1, <2>2
<1> QED
  BY <1>2, <1>5, <1>8, <1>9, <1>12, <1>13, <1>14 DEF Tidy

-----------------------------------------------------------------------------
(* The moves.                                                              *)

\* A move that does not apply was not made and is not made.
LEMMA SkipTidy == ASSUME IInv, Tidy, Skip PROVE Tidy'
<1>1. /\ Moving /\ ~ Applies /\ pos' = pos + 1
      /\ UNCHANGED <<dir, strays, aside, request, before, held, phase, at, moved, troubled, left>>
  BY DEF Skip, world, request_
<1>2. Bounds' /\ Unasked'
  BY BoundsKept, UnaskedKept DEF Tidy, Next
<1>3. at = "look" /\ phase \in {"forward", "rollback"}
  BY <1>1 DEF Tidy, Flagging, Moving
<1>4. pos \in 1 .. 4
  BY <1>1 DEF IInv, Counting, Moving
<1>5. /\ Out(1, "old_document")' <=> Out(1, "old_document")
      /\ Out(2, "old_assets")' <=> Out(2, "old_assets")
      /\ Out(3, "new_assets")' <=> Out(3, "new_assets")
      /\ Out(4, "new_document")' <=> Out(4, "new_document")
  <2>1. pos = 1 \/ pos = 2 \/ pos = 3 \/ pos = 4
    BY <1>4
  <2>2. CASE phase = "forward"
    <3>1. Object(Move.flag) = Nothing
      BY <1>1, <2>2 DEF Applies
    <3>2. /\ pos = 1 => Object("old_document") = Nothing
          /\ pos = 2 => Object("old_assets") = Nothing
          /\ pos = 3 => Object("new_assets") = Nothing
          /\ pos = 4 => Object("new_document") = Nothing
      BY <2>1, <2>2, <3>1, ForwardMoves DEF Between
    <3> QED
      BY <1>1, <1>3, <2>1, <2>2, <3>2, Objects DEF Out
  <2>3. CASE phase = "rollback"
    <3>1. Move.flag \notin moved
      BY <1>1, <2>3 DEF Applies
    <3>2. /\ pos = 1 => "new_document" \notin moved
          /\ pos = 2 => "new_assets" \notin moved
          /\ pos = 3 => "old_assets" \notin moved
          /\ pos = 4 => "old_document" \notin moved
      BY <2>1, <2>3, <3>1, BackwardMoves DEF Between
    <3> QED
      BY <1>1, <1>3, <2>1, <2>3, <3>2 DEF Out
  <2> QED
    BY <1>3, <2>2, <2>3
<1>6. /\ Object("old_document")' = Object("old_document")
      /\ Object("old_assets")' = Object("old_assets")
      /\ Object("new_assets")' = Object("new_assets")
      /\ Object("new_document")' = Object("new_document")
  BY <1>1, Objects
<1>7. Flagging'
  BY <1>1, <1>3, <1>5, <1>6 DEF Tidy, Flagging, Tallied
<1>8. BackedUp'
  BY <1>1, <1>3, <1>4, <1>5, <1>6 DEF Tidy, BackedUp, Backup, Underway, Out
<1>9. Staged'
  BY <1>1, <1>3, <1>4, <1>5, <1>6 DEF Tidy, Staged, Stage, Underway
<1>10. Exact'
  BY <1>1, <1>3, <1>5, <1>6 DEF Tidy, Exact, Alone, Underway
<1>11. AllOrNothing' /\ HiddenIsTold'
  BY <1>1, <1>3 DEF AllOrNothing, HiddenIsTold, Answered
<1> QED
  BY <1>2, <1>7, <1>8, <1>9, <1>10, <1>11 DEF Tidy

\* With nobody about, what a move takes is where it takes it from and its place is
\* free; and what it took is where it took it.
LEMMA AloneMoves ==
    ASSUME IInv, Tidy, Moving, Applies, Alone
    PROVE  /\ at # "check" => dir[Move.from] = Object(Move.flag) /\ dir[Move.to] = Nothing
           /\ at = "check" => dir[Move.to] = Object(Move.flag)
           /\ Object(Move.flag) # Nothing
<1>1. phase \in {"forward", "rollback"}
  BY DEF Moving
<1>2. pos = 1 \/ pos = 2 \/ pos = 3 \/ pos = 4
  BY DEF IInv, Counting, Moving
<1>3. ~ troubled /\ Underway
  BY <1>1 DEF Tidy, Exact, Flagging, Underway
<1>4. /\ held.document = before.document /\ (request.markdown => held.assets = before.assets)
      /\ dir["document"] = IF Out(4, "new_document") THEN NewDocument
                           ELSE IF Out(1, "old_document") THEN Nothing ELSE before.document
      /\ dir["assets"] = IF Out(3, "new_assets") THEN NewAssets
                         ELSE IF Out(2, "old_assets") THEN Nothing ELSE before.assets
      /\ Out(1, "old_document") => dir["document_backup"] = held.document
      /\ Out(2, "old_assets") => dir["assets_backup"] = held.assets
      /\ ~ Out(3, "new_assets") => dir["assets_stage"] = Object("new_assets")
      /\ ~ Out(4, "new_document") => dir["document_stage"] = NewDocument
  BY <1>1, <1>3 DEF Tidy, Exact
<1>5. /\ ~ Out(1, "old_document") => dir["document_backup"] = Nothing
      /\ ~ Out(2, "old_assets") => dir["assets_backup"] = Nothing
      /\ Out(3, "new_assets") => dir["assets_stage"] = Nothing
      /\ Out(4, "new_document") => dir["document_stage"] = Nothing
  BY <1>3 DEF Tidy, BackedUp, Backup, Staged, Stage
<1>6. /\ request.assets => request.markdown
      /\ held.assets # Nothing => request.markdown
      /\ request.assets \in BOOLEAN /\ request.markdown \in BOOLEAN
  BY DEF Tidy, Bounds, Unasked
<1>7. CASE phase = "forward"
  <2>1. Object(Move.flag) # Nothing
    BY <1>7 DEF Applies
  <2>2. CASE pos = 1
    BY <1>4, <1>5, <1>7, <2>1, <2>2, ForwardMoves, Objects DEF Between, Out
  <2>3. CASE pos = 2
    BY <1>4, <1>5, <1>6, <1>7, <2>1, <2>3, ForwardMoves, Objects DEF Between, Out
  <2>4. CASE pos = 3
    BY <1>4, <1>5, <1>6, <1>7, <2>1, <2>4, ForwardMoves, Objects DEF Between, Out
  <2>5. CASE pos = 4
    BY <1>4, <1>5, <1>7, <2>1, <2>5, ForwardMoves, Objects DEF Between, Out
  <2> QED
    BY <1>2, <2>2, <2>3, <2>4, <2>5
<1>8. CASE phase = "rollback"
  <2>1. Move.flag \in moved
    BY <1>8 DEF Applies
  <2>2. /\ "old_document" \in moved => held.document # Nothing
        /\ "old_assets" \in moved => held.assets # Nothing
        /\ "new_assets" \in moved => request.assets
        /\ "new_document" \in moved => NewDocument # Nothing
    BY <1>6, <1>8, Objects DEF Tidy, Flagging, Tallied
  <2>3. CASE pos = 1
    BY <1>4, <1>5, <1>8, <2>1, <2>2, <2>3, BackwardMoves, Objects DEF Between, Out
  <2>4. CASE pos = 2
    BY <1>4, <1>5, <1>6, <1>8, <2>1, <2>2, <2>4, BackwardMoves, Objects DEF Between, Out, Made
  <2>5. CASE pos = 3
    BY <1>4, <1>5, <1>6, <1>8, <2>1, <2>2, <2>5, BackwardMoves, Objects DEF Between, Out
  <2>6. CASE pos = 4
    BY <1>4, <1>5, <1>8, <2>1, <2>2, <2>6, BackwardMoves, Objects DEF Between, Out
  <2> QED
    BY <1>2, <2>3, <2>4, <2>5, <2>6
<1> QED
  BY <1>1, <1>7, <1>8

\* The flags are all a rollback needs to know.
LEMMA RollbackBegins ==
    ASSUME Flagging, pos \in 1 .. 5, phase \in {"forward", "confirm"}, Enter("rollback"),
           UNCHANGED <<held, request, moved, troubled>>
    PROVE  /\ Out(1, "old_document")' <=> Out(1, "old_document")
           /\ Out(2, "old_assets")' <=> Out(2, "old_assets")
           /\ Out(3, "new_assets")' <=> Out(3, "new_assets")
           /\ Out(4, "new_document")' <=> Out(4, "new_document")
           /\ Flagging'
<1>1. phase' = "rollback" /\ pos' = 1 /\ at' = "look"
  BY DEF Enter
<1>2. /\ "old_document" \in moved <=> Out(1, "old_document")
      /\ "old_assets" \in moved <=> Out(2, "old_assets")
      /\ "new_assets" \in moved <=> Out(3, "new_assets")
      /\ "new_document" \in moved <=> Out(4, "new_document")
  BY DEF Flagging, Tallied
<1>3. /\ Out(1, "old_document")' <=> "old_document" \in moved
      /\ Out(2, "old_assets")' <=> "old_assets" \in moved
      /\ Out(3, "new_assets")' <=> "new_assets" \in moved
      /\ Out(4, "new_document")' <=> "new_document" \in moved
  BY <1>1 DEF Out
<1>4. /\ Out(1, "old_document") => held.document # Nothing
      /\ Out(2, "old_assets") => held.assets # Nothing
      /\ Out(3, "new_assets") => Object("new_assets") # Nothing
      /\ NewDocument # Nothing
  BY Objects DEF Out, Made
<1>5. /\ Out(4, "new_document") /\ held.document # Nothing => Out(1, "old_document")
      /\ Out(3, "new_assets") /\ held.assets # Nothing => Out(2, "old_assets")
  BY Objects DEF Out
<1>6. Flagging'
  BY <1>1, <1>2, <1>3, <1>4, <1>5, Objects DEF Flagging, Tallied
<1> QED
  BY <1>2, <1>3, <1>6

\* A step of a move that fails: the moves are taken back, or the trouble is told of.
LEMMA MissedTidy ==
    ASSUME IInv, Tidy, Bounds', Unasked', Moving, Applies, Missed,
           UNCHANGED <<dir, strays, aside, request, before, held, moved>>,
           left' = left \/ Fault, left' = left => ~ Alone
    PROVE  Tidy'
<1>1. Flagging /\ pos \in 1 .. 5
  BY DEF Tidy, IInv, Counting
<1>2. Alone' => Alone /\ left'.faults < Faults /\ phase # "rollback"
  <2>1. (Alone' => Alone) /\ (Fault => left'.faults < Faults)
        /\ (Fault => left'.faults = left.faults - 1) /\ left.faults \in Nat
    BY FaultsGoDown DEF Tidy
  <2>2. ASSUME phase = "rollback", Fault PROVE ~ Alone'
    <3>1. CASE Alone
      <4>1. left.faults < Faults
        BY <2>2, <3>1 DEF Tidy, Exact, Underway
      <4>2. left'.faults < Faults - 1
        BY <2>1, <2>2, <4>1
      <4> QED
        BY <2>1, <2>2, <4>2 DEF Alone
    <3>2. CASE ~ Alone
      BY <2>1, <3>2
    <3> QED
      BY <3>1, <3>2
  <2>3. ASSUME Alone' PROVE Alone /\ left'.faults < Faults /\ phase # "rollback"
    <3>1. Alone
      BY <2>1, <2>3
    <3>2. Fault
      BY <3>1
    <3> QED
      BY <2>1, <2>2, <2>3, <3>1, <3>2
  <2> QED
    BY <2>3
<1>3. CASE phase = "forward"
  <2>1. Enter("rollback") /\ troubled' = troubled
    BY <1>3 DEF Missed
  <2>2. phase' = "rollback" /\ pos' = 1 /\ at' = "look" /\ ~ troubled
    BY <1>1, <1>3, <2>1 DEF Enter, Flagging
  <2>3. /\ Out(1, "old_document")' <=> Out(1, "old_document")
        /\ Out(2, "old_assets")' <=> Out(2, "old_assets")
        /\ Out(3, "new_assets")' <=> Out(3, "new_assets")
        /\ Out(4, "new_document")' <=> Out(4, "new_document")
        /\ Flagging'
    BY <1>1, <1>3, <2>1, RollbackBegins
  <2>4. Object("new_assets")' = Object("new_assets") /\ Object("new_document")' = NewDocument
    BY Objects
  <2>5. /\ ~ Out(1, "old_document") => dir["document_backup"] = Nothing
        /\ ~ Out(2, "old_assets") => dir["assets_backup"] = Nothing
        /\ Out(3, "new_assets") => dir["assets_stage"] = Nothing
        /\ Out(4, "new_document") => dir["document_stage"] = Nothing
        /\ ~ Out(3, "new_assets") => dir["assets_stage"] = Object("new_assets")
        /\ ~ Out(4, "new_document") => dir["document_stage"] = NewDocument
    BY <1>3, <2>2, Objects DEF Tidy, BackedUp, Backup, Staged, Stage, Underway
  <2>6. BackedUp' /\ Staged'
    BY <2>2, <2>3, <2>4, <2>5 DEF BackedUp, Backup, Staged, Stage
  <2>7. Exact'
    <3>1. Alone => /\ strays = {} /\ aside = FALSE
                   /\ held.document = before.document
                   /\ (request.markdown => held.assets = before.assets)
                   /\ dir["document"] =
                        IF Out(4, "new_document") THEN NewDocument
                        ELSE IF Out(1, "old_document") THEN Nothing ELSE before.document
                   /\ dir["assets"] =
                        IF Out(3, "new_assets") THEN NewAssets
                        ELSE IF Out(2, "old_assets") THEN Nothing ELSE before.assets
                   /\ Out(1, "old_document") => dir["document_backup"] = held.document
                   /\ Out(2, "old_assets") => dir["assets_backup"] = held.assets
      BY <1>3 DEF Tidy, Exact, Underway
    <3> QED
      BY <1>2, <2>1, <2>2, <2>3, <2>4, <2>5, <3>1 DEF Exact
  <2>8. AllOrNothing' /\ HiddenIsTold'
    BY <2>2 DEF AllOrNothing, HiddenIsTold, Answered
  <2> QED
    BY <2>3, <2>6, <2>7, <2>8 DEF Tidy
<1>4. CASE phase = "rollback"
  <2>1. troubled' /\ phase' = "rollback" /\ at' = "look"
    BY <1>4 DEF Missed
  <2>2. Flagging'
    BY <1>1, <1>4, <2>1, Objects DEF Flagging, Tallied
  <2>3. BackedUp' /\ Staged' /\ Exact'
    BY <1>2, <1>4, <2>1 DEF BackedUp, Staged, Exact
  <2>4. AllOrNothing' /\ HiddenIsTold'
    BY <2>1 DEF AllOrNothing, HiddenIsTold, Answered
  <2> QED
    BY <2>2, <2>3, <2>4 DEF Tidy
<1> QED
  BY <1>3, <1>4 DEF Moving

LEMMA LookTidy == ASSUME IInv, Tidy, Look PROVE Tidy'
<1>1. /\ Moving /\ Applies /\ at = "look"
      /\ UNCHANGED <<dir, strays, aside, request, before, held, moved>>
  BY DEF Look, world, request_
<1>2. Bounds' /\ Unasked'
  BY BoundsKept, UnaskedKept DEF Tidy, Next
<1>3. CASE at' = "rename" /\ UNCHANGED <<phase, pos, troubled, left>>
  <2>1. /\ Out(1, "old_document")' <=> Out(1, "old_document")
        /\ Out(2, "old_assets")' <=> Out(2, "old_assets")
        /\ Out(3, "new_assets")' <=> Out(3, "new_assets")
        /\ Out(4, "new_document")' <=> Out(4, "new_document")
    BY <1>1, <1>3, Objects DEF Out
  <2>2. /\ Object("old_document")' = Object("old_document")
        /\ Object("old_assets")' = Object("old_assets")
        /\ Object("new_assets")' = Object("new_assets")
        /\ Object("new_document")' = Object("new_document")
    BY <1>1, Objects
  <2>3. Applies' /\ Moving'
    BY <1>1, <1>3, AppliesSame
  <2>4. Flagging'
    BY <1>1, <1>3, <2>1, <2>2, <2>3 DEF Tidy, Flagging, Tallied
  <2>5. BackedUp' /\ Staged'
    BY <1>1, <1>3, <2>1, <2>2 DEF Tidy, BackedUp, Backup, Staged, Stage, Underway
  <2>6. Exact'
    BY <1>1, <1>3, <2>1, <2>2 DEF Tidy, Exact, Alone, Underway
  <2>7. AllOrNothing' /\ HiddenIsTold'
    BY <1>1, <1>3 DEF AllOrNothing, HiddenIsTold, Answered, Moving
  <2> QED
    BY <1>2, <2>4, <2>5, <2>6, <2>7 DEF Tidy
<1>4. CASE Fails(dir[Move.from] = Object(Move.flag)) /\ Missed
  <2>1. left' = left => ~ Alone
    <3> SUFFICES ASSUME Alone, left' = left PROVE FALSE
      OBVIOUS
    <3>1. dir[Move.from] = Object(Move.flag)
      BY <1>1, AloneMoves
    <3>2. left.faults \in Nat /\ (Fault => left'.faults = left.faults - 1)
      BY <1>4, FaultsGoDown DEF Tidy
    <3> QED
      BY <1>4, <3>1, <3>2 DEF Fails
  <2> QED
    BY <1>1, <1>2, <1>4, <2>1, MissedTidy DEF Fails
<1> QED
  BY <1>3, <1>4 DEF Look

\* What a rename does to the six names, the flags and what is out.
LEMMA RenameTidy == ASSUME IInv, Tidy, Rename PROVE Tidy'
<1>1. /\ Moving /\ Applies /\ at = "rename"
      /\ UNCHANGED <<strays, aside, request, before, held>>
  BY DEF Rename, world, request_
<1>2. Bounds' /\ Unasked'
  BY BoundsKept, UnaskedKept DEF Tidy, Next
<1>3. CASE /\ MayRename
           /\ dir' = [dir EXCEPT ![Move.to] = dir[Move.from], ![Move.from] = Nothing]
           /\ at' = "check"
           /\ moved' = IF phase = "forward" THEN Flagged(Move.flag) ELSE moved
           /\ UNCHANGED <<phase, pos, troubled, left>>
  <2>1. dir \in [Names -> Theirs \cup Made \cup {Nothing}]
    BY DEF IInv, Staging
  <2>2. pos = 1 \/ pos = 2 \/ pos = 3 \/ pos = 4
    BY <1>1 DEF IInv, Counting, Moving
  <2>3. phase \in {"forward", "rollback"} /\ Underway /\ Underway'
    BY <1>1, <1>3 DEF Moving, Underway
  <2>4. /\ Object("old_document")' = Object("old_document")
        /\ Object("old_assets")' = Object("old_assets")
        /\ Object("new_assets")' = Object("new_assets")
        /\ Object("new_document")' = NewDocument /\ Object("new_document") = NewDocument
        /\ Object("old_document") = held.document /\ Object("old_assets") = held.assets
    BY <1>1, Objects
  <2>5. phase = "forward" => moved' = moved \cup {Move.flag} /\ Object(Move.flag) # Nothing
    BY <1>1, <1>3 DEF Flagged, Applies
  <2>6. phase = "rollback" => moved' = moved /\ Move.flag \in moved
    BY <1>1, <1>3, <2>3 DEF Applies
  <2>7. Alone => dir[Move.from] = Object(Move.flag)
    BY <1>1, AloneMoves
  <2>8. (~ troubled' => ~ troubled) /\ (Alone' <=> Alone)
    BY <1>3 DEF Alone
  <2>9. Applies' /\ Moving'
    <3>1. Move' = Move /\ Moving'
      BY <1>1, <1>3 DEF Move, Moves, Backward, Reversed, Moving
    <3>2. CASE phase = "forward"
      <4>1. (Object(Move.flag))' = Object(Move.flag)
        BY <1>1, <1>3, <3>1 DEF Object
      <4> QED
        BY <1>3, <2>5, <3>1, <3>2, <4>1 DEF Applies
    <3>3. CASE phase = "rollback"
      BY <1>3, <2>6, <3>1, <3>3 DEF Applies
    <3> QED
      BY <2>3, <3>1, <3>2, <3>3
  <2>10. AllOrNothing' /\ HiddenIsTold'
    BY <2>3 DEF AllOrNothing, HiddenIsTold, Answered, Underway
  <2>11. CASE phase = "forward" /\ pos = 1
    <3>1. Move.flag = "old_document" /\ Move.from = "document" /\ Move.to = "document_backup"
      BY <2>11, ForwardMoves DEF Between
    <3>2. /\ dir'["document"] = Nothing /\ dir'["document_backup"] = dir["document"]
          /\ dir'["assets"] = dir["assets"] /\ dir'["document_stage"] = dir["document_stage"]
          /\ dir'["assets_stage"] = dir["assets_stage"]
          /\ dir'["assets_backup"] = dir["assets_backup"]
          /\ dir["document_backup"] = Nothing
      BY <1>3, <2>1, <3>1, SixNames DEF MayRename
    <3>3. /\ Out(1, "old_document")' /\ (Out(2, "old_assets")' <=> Out(2, "old_assets"))
          /\ (Out(3, "new_assets")' <=> Out(3, "new_assets"))
          /\ (Out(4, "new_document")' <=> Out(4, "new_document"))
          /\ ~ Out(1, "old_document")
      BY <1>1, <1>3, <2>4, <2>5, <2>6, <2>11, <3>1 DEF Out
    <3>4. Flagging'
      BY <1>1, <1>3, <2>4, <2>5, <2>6, <2>9, <2>11, <3>1, <3>3 DEF Tidy, Flagging, Tallied
    <3>5. BackedUp'
      BY <1>3, <2>3, <2>4, <2>8, <2>11, <3>2, <3>3 DEF Tidy, BackedUp, Backup
    <3>6. Staged'
      BY <1>3, <2>3, <2>4, <2>8, <2>11, <3>2, <3>3 DEF Tidy, Staged, Stage
    <3>7. ~ Out(4, "new_document")
      BY <1>1, <2>11 DEF Out
    <3>8. Alone => dir["document"] = held.document
      BY <1>1, <2>4, <2>5, <2>7, <3>1, Objects
    <3>9. Exact'
      BY <1>1, <1>3, <2>3, <2>4, <2>8, <2>11, <3>2, <3>3, <3>7, <3>8 DEF Tidy, Exact
    <3> QED
      BY <1>2, <2>10, <3>4, <3>5, <3>6, <3>9 DEF Tidy
  <2>12. CASE phase = "forward" /\ pos = 2
    <3>1. Move.flag = "old_assets" /\ Move.from = "assets" /\ Move.to = "assets_backup"
      BY <2>12, ForwardMoves DEF Between
    <3>2. /\ dir'["assets"] = Nothing /\ dir'["assets_backup"] = dir["assets"]
          /\ dir'["document"] = dir["document"] /\ dir'["document_stage"] = dir["document_stage"]
          /\ dir'["assets_stage"] = dir["assets_stage"]
          /\ dir'["document_backup"] = dir["document_backup"]
          /\ dir["assets_backup"] = Nothing
      BY <1>3, <2>1, <3>1, SixNames DEF MayRename
    <3>3. /\ (Out(1, "old_document")' <=> Out(1, "old_document")) /\ Out(2, "old_assets")'
          /\ (Out(3, "new_assets")' <=> Out(3, "new_assets"))
          /\ (Out(4, "new_document")' <=> Out(4, "new_document"))
          /\ ~ Out(2, "old_assets")
      BY <1>1, <1>3, <2>4, <2>5, <2>6, <2>12, <3>1 DEF Out
    <3>4. Flagging'
      BY <1>1, <1>3, <2>4, <2>5, <2>6, <2>9, <2>12, <3>1, <3>3 DEF Tidy, Flagging, Tallied
    <3>5. BackedUp'
      BY <1>3, <2>3, <2>4, <2>8, <2>12, <3>2, <3>3 DEF Tidy, BackedUp, Backup
    <3>6. Staged'
      BY <1>3, <2>3, <2>4, <2>8, <2>12, <3>2, <3>3 DEF Tidy, Staged, Stage
    <3>7. ~ Out(3, "new_assets")
      BY <1>1, <2>12 DEF Out
    <3>8. Alone => dir["assets"] = held.assets
      BY <1>1, <2>4, <2>5, <2>7, <3>1, Objects
    <3>9. Exact'
      BY <1>1, <1>3, <2>3, <2>4, <2>8, <2>12, <3>2, <3>3, <3>7, <3>8 DEF Tidy, Exact
    <3> QED
      BY <1>2, <2>10, <3>4, <3>5, <3>6, <3>9 DEF Tidy
  <2>13. CASE phase = "forward" /\ pos = 3
    <3>1. Move.flag = "new_assets" /\ Move.from = "assets_stage" /\ Move.to = "assets"
      BY <2>13, ForwardMoves DEF Between
    <3>2. /\ dir'["assets_stage"] = Nothing /\ dir'["assets"] = dir["assets_stage"]
          /\ dir'["document"] = dir["document"] /\ dir'["document_stage"] = dir["document_stage"]
          /\ dir'["document_backup"] = dir["document_backup"]
          /\ dir'["assets_backup"] = dir["assets_backup"]
          /\ dir["assets"] = Nothing
      BY <1>3, <2>1, <3>1, SixNames DEF MayRename
    <3>3. /\ (Out(1, "old_document")' <=> Out(1, "old_document"))
          /\ (Out(2, "old_assets")' <=> Out(2, "old_assets")) /\ Out(3, "new_assets")'
          /\ (Out(4, "new_document")' <=> Out(4, "new_document"))
          /\ ~ Out(3, "new_assets")
      BY <1>1, <1>3, <2>4, <2>5, <2>6, <2>13, <3>1 DEF Out
    <3>4. Flagging'
      BY <1>1, <1>3, <2>4, <2>5, <2>6, <2>9, <2>13, <3>1, <3>3 DEF Tidy, Flagging, Tallied
    <3>5. BackedUp'
      BY <1>3, <2>3, <2>4, <2>8, <2>13, <3>2, <3>3 DEF Tidy, BackedUp, Backup
    <3>6. Staged'
      BY <1>3, <2>3, <2>4, <2>8, <2>13, <3>2, <3>3 DEF Tidy, Staged, Stage
    <3>7. Object("new_assets") = NewAssets
      BY <2>5, <2>13, <3>1, Objects
    <3>8. Alone => dir["assets_stage"] = Object("new_assets")
      BY <1>1, <2>4, <2>5, <2>7, <3>1, Objects
    <3>9. Exact'
      BY <1>1, <1>3, <2>3, <2>4, <2>8, <2>13, <3>2, <3>3, <3>7, <3>8 DEF Tidy, Exact
    <3> QED
      BY <1>2, <2>10, <3>4, <3>5, <3>6, <3>9 DEF Tidy
  <2>14. CASE phase = "forward" /\ pos = 4
    <3>1. Move.flag = "new_document" /\ Move.from = "document_stage" /\ Move.to = "document"
      BY <2>14, ForwardMoves DEF Between
    <3>2. /\ dir'["document_stage"] = Nothing /\ dir'["document"] = dir["document_stage"]
          /\ dir'["assets"] = dir["assets"] /\ dir'["assets_stage"] = dir["assets_stage"]
          /\ dir'["document_backup"] = dir["document_backup"]
          /\ dir'["assets_backup"] = dir["assets_backup"]
          /\ dir["document"] = Nothing
      BY <1>3, <2>1, <3>1, SixNames DEF MayRename
    <3>3. /\ (Out(1, "old_document")' <=> Out(1, "old_document"))
          /\ (Out(2, "old_assets")' <=> Out(2, "old_assets"))
          /\ (Out(3, "new_assets")' <=> Out(3, "new_assets")) /\ Out(4, "new_document")'
          /\ ~ Out(4, "new_document")
      BY <1>1, <1>3, <2>4, <2>5, <2>6, <2>14, <3>1 DEF Out
    <3>4. Flagging'
      BY <1>1, <1>3, <2>4, <2>5, <2>6, <2>9, <2>14, <3>1, <3>3 DEF Tidy, Flagging, Tallied
    <3>5. BackedUp'
      BY <1>3, <2>3, <2>4, <2>8, <2>14, <3>2, <3>3 DEF Tidy, BackedUp, Backup
    <3>6. Staged'
      BY <1>3, <2>3, <2>4, <2>8, <2>14, <3>2, <3>3 DEF Tidy, Staged, Stage
    <3>7. NewDocument # Nothing
      BY DEF Made
    <3>8. Alone => dir["document_stage"] = NewDocument
      BY <1>1, <2>4, <2>5, <2>7, <3>1, Objects
    <3>9. Exact'
      BY <1>1, <1>3, <2>3, <2>4, <2>8, <2>14, <3>2, <3>3, <3>7, <3>8 DEF Tidy, Exact
    <3> QED
      BY <1>2, <2>10, <3>4, <3>5, <3>6, <3>9 DEF Tidy
  <2>15. CASE phase = "rollback" /\ pos = 1
    <3>1. Move.flag = "new_document" /\ Move.from = "document" /\ Move.to = "document_stage"
      BY <2>15, BackwardMoves DEF Between
    <3>2. /\ dir'["document"] = Nothing /\ dir'["document_stage"] = dir["document"]
          /\ dir'["assets"] = dir["assets"] /\ dir'["assets_stage"] = dir["assets_stage"]
          /\ dir'["document_backup"] = dir["document_backup"]
          /\ dir'["assets_backup"] = dir["assets_backup"]
          /\ dir["document_stage"] = Nothing
      BY <1>3, <2>1, <3>1, SixNames DEF MayRename
    <3>3. /\ (Out(1, "old_document")' <=> Out(1, "old_document"))
          /\ (Out(2, "old_assets")' <=> Out(2, "old_assets"))
          /\ (Out(3, "new_assets")' <=> Out(3, "new_assets")) /\ ~ Out(4, "new_document")'
          /\ Out(4, "new_document")
      BY <1>1, <1>3, <2>4, <2>5, <2>6, <2>15, <3>1 DEF Out
    <3>4. Flagging'
      BY <1>1, <1>3, <2>4, <2>5, <2>6, <2>9, <2>15, <3>1, <3>3 DEF Tidy, Flagging, Tallied
    <3>5. BackedUp'
      BY <1>3, <2>3, <2>4, <2>8, <2>15, <3>2, <3>3 DEF Tidy, BackedUp, Backup
    <3>6. Staged'
      BY <1>3, <2>3, <2>4, <2>8, <2>15, <3>2, <3>3 DEF Tidy, Staged, Stage
    <3>7. Out(1, "old_document") \/ held.document = Nothing
      BY <2>6, <2>15, <3>1 DEF Tidy, Flagging, Out
    <3>8. Alone => dir["document"] = NewDocument
      BY <1>1, <2>4, <2>5, <2>7, <3>1, Objects
    <3>9. Exact'
      BY <1>1, <1>3, <2>3, <2>4, <2>8, <2>15, <3>2, <3>3, <3>7, <3>8 DEF Tidy, Exact
    <3> QED
      BY <1>2, <2>10, <3>4, <3>5, <3>6, <3>9 DEF Tidy
  <2>16. CASE phase = "rollback" /\ pos = 2
    <3>1. Move.flag = "new_assets" /\ Move.from = "assets" /\ Move.to = "assets_stage"
      BY <2>16, BackwardMoves DEF Between
    <3>2. /\ dir'["assets"] = Nothing /\ dir'["assets_stage"] = dir["assets"]
          /\ dir'["document"] = dir["document"] /\ dir'["document_stage"] = dir["document_stage"]
          /\ dir'["document_backup"] = dir["document_backup"]
          /\ dir'["assets_backup"] = dir["assets_backup"]
          /\ dir["assets_stage"] = Nothing
      BY <1>3, <2>1, <3>1, SixNames DEF MayRename
    <3>3. /\ (Out(1, "old_document")' <=> Out(1, "old_document"))
          /\ (Out(2, "old_assets")' <=> Out(2, "old_assets")) /\ ~ Out(3, "new_assets")'
          /\ (Out(4, "new_document")' <=> Out(4, "new_document"))
          /\ Out(3, "new_assets")
      BY <1>1, <1>3, <2>4, <2>5, <2>6, <2>16, <3>1 DEF Out
    <3>4. Flagging'
      BY <1>1, <1>3, <2>4, <2>5, <2>6, <2>9, <2>16, <3>1, <3>3 DEF Tidy, Flagging, Tallied
    <3>5. BackedUp'
      BY <1>3, <2>3, <2>4, <2>8, <2>16, <3>2, <3>3 DEF Tidy, BackedUp, Backup
    <3>6. Staged'
      BY <1>3, <2>3, <2>4, <2>8, <2>16, <3>2, <3>3 DEF Tidy, Staged, Stage
    <3>7. (Out(2, "old_assets") \/ held.assets = Nothing) /\ request.markdown
      BY <2>6, <2>16, <3>1, Objects DEF Tidy, Flagging, Tallied, Bounds, Out
    <3>8. Alone => dir["assets"] = Object("new_assets")
      BY <1>1, <2>4, <2>5, <2>7, <3>1, Objects
    <3>9. Exact'
      BY <1>1, <1>3, <2>3, <2>4, <2>8, <2>16, <3>2, <3>3, <3>7, <3>8 DEF Tidy, Exact
    <3> QED
      BY <1>2, <2>10, <3>4, <3>5, <3>6, <3>9 DEF Tidy
  <2>17. CASE phase = "rollback" /\ pos = 3
    <3>1. Move.flag = "old_assets" /\ Move.from = "assets_backup" /\ Move.to = "assets"
      BY <2>17, BackwardMoves DEF Between
    <3>2. /\ dir'["assets_backup"] = Nothing /\ dir'["assets"] = dir["assets_backup"]
          /\ dir'["document"] = dir["document"] /\ dir'["document_stage"] = dir["document_stage"]
          /\ dir'["assets_stage"] = dir["assets_stage"]
          /\ dir'["document_backup"] = dir["document_backup"]
          /\ dir["assets"] = Nothing
      BY <1>3, <2>1, <3>1, SixNames DEF MayRename
    <3>3. /\ (Out(1, "old_document")' <=> Out(1, "old_document")) /\ ~ Out(2, "old_assets")'
          /\ (Out(3, "new_assets")' <=> Out(3, "new_assets"))
          /\ (Out(4, "new_document")' <=> Out(4, "new_document"))
          /\ Out(2, "old_assets")
      BY <1>1, <1>3, <2>4, <2>5, <2>6, <2>17, <3>1 DEF Out
    <3>4. Flagging'
      BY <1>1, <1>3, <2>4, <2>5, <2>6, <2>9, <2>17, <3>1, <3>3 DEF Tidy, Flagging, Tallied
    <3>5. BackedUp'
      BY <1>3, <2>3, <2>4, <2>8, <2>17, <3>2, <3>3 DEF Tidy, BackedUp, Backup
    <3>6. Staged'
      BY <1>3, <2>3, <2>4, <2>8, <2>17, <3>2, <3>3 DEF Tidy, Staged, Stage
    <3>7. ~ Out(3, "new_assets") /\ request.markdown
      BY <2>6, <2>17, <3>1, Objects DEF Tidy, Flagging, Tallied, Unasked, Bounds, Out
    <3>8. Alone => dir["assets_backup"] = held.assets
      BY <1>1, <2>4, <2>5, <2>7, <3>1, Objects
    <3>9. Exact'
      BY <1>1, <1>3, <2>3, <2>4, <2>8, <2>17, <3>2, <3>3, <3>7, <3>8 DEF Tidy, Exact
    <3> QED
      BY <1>2, <2>10, <3>4, <3>5, <3>6, <3>9 DEF Tidy
  <2>18. CASE phase = "rollback" /\ pos = 4
    <3>1. Move.flag = "old_document" /\ Move.from = "document_backup" /\ Move.to = "document"
      BY <2>18, BackwardMoves DEF Between
    <3>2. /\ dir'["document_backup"] = Nothing /\ dir'["document"] = dir["document_backup"]
          /\ dir'["assets"] = dir["assets"] /\ dir'["document_stage"] = dir["document_stage"]
          /\ dir'["assets_stage"] = dir["assets_stage"]
          /\ dir'["assets_backup"] = dir["assets_backup"]
          /\ dir["document"] = Nothing
      BY <1>3, <2>1, <3>1, SixNames DEF MayRename
    <3>3. /\ ~ Out(1, "old_document")' /\ (Out(2, "old_assets")' <=> Out(2, "old_assets"))
          /\ (Out(3, "new_assets")' <=> Out(3, "new_assets"))
          /\ (Out(4, "new_document")' <=> Out(4, "new_document"))
          /\ Out(1, "old_document")
      BY <1>1, <1>3, <2>4, <2>5, <2>6, <2>18, <3>1 DEF Out
    <3>4. Flagging'
      BY <1>1, <1>3, <2>4, <2>5, <2>6, <2>9, <2>18, <3>1, <3>3 DEF Tidy, Flagging, Tallied
    <3>5. BackedUp'
      BY <1>3, <2>3, <2>4, <2>8, <2>18, <3>2, <3>3 DEF Tidy, BackedUp, Backup
    <3>6. Staged'
      BY <1>3, <2>3, <2>4, <2>8, <2>18, <3>2, <3>3 DEF Tidy, Staged, Stage
    <3>7. ~ Out(4, "new_document")
      BY <1>1, <2>18 DEF Out
    <3>8. Alone => dir["document_backup"] = held.document
      BY <1>1, <2>4, <2>5, <2>7, <3>1, Objects
    <3>9. Exact'
      BY <1>1, <1>3, <2>3, <2>4, <2>8, <2>18, <3>2, <3>3, <3>7, <3>8 DEF Tidy, Exact
    <3> QED
      BY <1>2, <2>10, <3>4, <3>5, <3>6, <3>9 DEF Tidy
  <2> QED
    BY <2>2, <2>3, <2>11, <2>12, <2>13, <2>14,
       <2>15, <2>16, <2>17, <2>18
<1>4. CASE Fails(MayRename) /\ Missed /\ UNCHANGED <<dir, moved>>
  <2>1. left' = left => ~ Alone
    <3> SUFFICES ASSUME Alone, left' = left PROVE FALSE
      OBVIOUS
    <3>1. MayRename
      BY <1>1, AloneMoves DEF MayRename
    <3>2. left.faults \in Nat /\ (Fault => left'.faults = left.faults - 1)
      BY <1>4, FaultsGoDown DEF Tidy
    <3> QED
      BY <1>4, <3>1, <3>2 DEF Fails
  <2> QED
    BY <1>1, <1>2, <1>4, <2>1, MissedTidy DEF Fails
<1> QED
  BY <1>3, <1>4 DEF Rename

\* A move that is found to be right is done with.
LEMMA CheckTidy == ASSUME IInv, Tidy, Check PROVE Tidy'
<1>1. /\ Moving /\ Applies /\ at = "check"
      /\ UNCHANGED <<dir, strays, aside, request, before, held>>
  BY DEF Check, world, request_
<1>2. Bounds' /\ Unasked'
  BY BoundsKept, UnaskedKept DEF Tidy, Next
<1>3. CASE /\ dir[Move.to] = Object(Move.flag) /\ pos' = pos + 1 /\ at' = "look"
           /\ UNCHANGED <<phase, moved, troubled, left>>
  <2>1. pos = 1 \/ pos = 2 \/ pos = 3 \/ pos = 4
    BY <1>1 DEF IInv, Counting, Moving
  <2>2. phase \in {"forward", "rollback"} /\ Underway /\ Underway'
    BY <1>1, <1>3 DEF Moving, Underway
  <2>3. /\ Object("old_document")' = Object("old_document")
        /\ Object("old_assets")' = Object("old_assets")
        /\ Object("new_assets")' = Object("new_assets")
        /\ Object("new_document")' = Object("new_document")
    BY <1>1, Objects
  <2>4. /\ Out(1, "old_document")' <=> Out(1, "old_document")
        /\ Out(2, "old_assets")' <=> Out(2, "old_assets")
        /\ Out(3, "new_assets")' <=> Out(3, "new_assets")
        /\ Out(4, "new_document")' <=> Out(4, "new_document")
    BY <1>1, <1>3, <2>1, <2>2, <2>3 DEF Out
  <2>5. Flagging'
    BY <1>1, <1>3, <2>2, <2>3, <2>4 DEF Tidy, Flagging, Tallied
  <2>6. /\ phase = "forward" /\ pos = 1 => dir["document_backup"] = Object("old_document")
        /\ phase = "forward" /\ pos = 2 => dir["assets_backup"] = Object("old_assets")
        /\ phase = "rollback" /\ pos = 1 => dir["document_stage"] = Object("new_document")
        /\ phase = "rollback" /\ pos = 2 => dir["assets_stage"] = Object("new_assets")
    BY <1>3, ForwardMoves, BackwardMoves DEF Between
  <2>7. BackedUp'
    BY <1>1, <1>3, <2>1, <2>2, <2>3, <2>4, <2>6 DEF Tidy, BackedUp, Backup
  <2>8. Staged'
    BY <1>1, <1>3, <2>1, <2>2, <2>3, <2>4, <2>6 DEF Tidy, Staged, Stage
  <2>9. Exact'
    BY <1>1, <1>3, <2>2, <2>3, <2>4 DEF Tidy, Exact, Alone
  <2>10. AllOrNothing' /\ HiddenIsTold'
    BY <2>2 DEF AllOrNothing, HiddenIsTold, Answered, Underway
  <2> QED
    BY <1>2, <2>5, <2>7, <2>8, <2>9, <2>10 DEF Tidy
<1>4. CASE Fails(dir[Move.to] = Object(Move.flag)) /\ Missed /\ UNCHANGED moved
  <2>1. left' = left => ~ Alone
    <3> SUFFICES ASSUME Alone, left' = left PROVE FALSE
      OBVIOUS
    <3>1. dir[Move.to] = Object(Move.flag)
      BY <1>1, AloneMoves
    <3>2. left.faults \in Nat /\ (Fault => left'.faults = left.faults - 1)
      BY <1>4, FaultsGoDown DEF Tidy
    <3> QED
      BY <1>4, <3>1, <3>2 DEF Fails
  <2> QED
    BY <1>1, <1>2, <1>4, <2>1, MissedTidy DEF Fails
<1>5. Check =>
        \/ /\ dir[Move.to] = Object(Move.flag) /\ pos' = pos + 1 /\ at' = "look"
           /\ UNCHANGED <<phase, moved, troubled, left>>
        \/ Fails(dir[Move.to] = Object(Move.flag)) /\ Missed /\ UNCHANGED moved
  BY <1>1 DEF Check, Flagged
<1> QED
  BY <1>3, <1>4, <1>5

-----------------------------------------------------------------------------
(* The steps after the moves.                                              *)

LEMMA MovedTidy == ASSUME IInv, Tidy, Moved PROVE Tidy'
<1>1. /\ pos = 5 /\ phase \in {"forward", "rollback"} /\ pos' = 1 /\ at' = "look"
      /\ phase = "forward" => phase' = "confirm"
      /\ phase = "rollback" => phase' = "clean"
      /\ UNCHANGED <<dir, strays, aside, request, before, held, moved, troubled, left>>
  BY DEF Moved, After, Enter, world, request_
<1>2. Bounds' /\ Unasked'
  BY BoundsKept, UnaskedKept DEF Tidy, Next
<1>3. /\ Object("old_document")' = Object("old_document")
      /\ Object("old_assets")' = Object("old_assets")
      /\ Object("new_assets")' = Object("new_assets")
      /\ Object("new_document")' = Object("new_document")
  BY <1>1, Objects
<1>4. /\ Out(1, "old_document")' <=> Out(1, "old_document")
      /\ Out(2, "old_assets")' <=> Out(2, "old_assets")
      /\ Out(3, "new_assets")' <=> Out(3, "new_assets")
      /\ Out(4, "new_document")' <=> Out(4, "new_document")
  BY <1>1, <1>3 DEF Out
<1>5. Flagging'
  BY <1>1, <1>3, <1>4 DEF Tidy, Flagging, Tallied
<1>6. BackedUp'
  BY <1>1, <1>3, <1>4 DEF Tidy, BackedUp, Backup, Underway
<1>7. Staged'
  <2>1. phase = "rollback" => ~ Out(3, "new_assets") /\ ~ Out(4, "new_document")
    BY <1>1 DEF Out
  <2> QED
    BY <1>1, <1>3, <1>4, <2>1 DEF Tidy, Staged, Stage, Underway
<1>8. Exact'
  BY <1>1, <1>3, <1>4 DEF Tidy, Exact, Underway, Alone
<1>9. AllOrNothing' /\ HiddenIsTold'
  BY <1>1 DEF AllOrNothing, HiddenIsTold, Answered
<1> QED
  BY <1>2, <1>5, <1>6, <1>7, <1>8, <1>9 DEF Tidy

LEMMA ConfirmTidy == ASSUME IInv, Tidy, Confirm PROVE Tidy'
<1>1. /\ phase = "confirm" /\ phase' \in {"discard", "rollback"} /\ pos' = 1 /\ at' = "look"
      /\ UNCHANGED <<dir, strays, aside, request, before, held, moved, troubled>>
      /\ phase' = "discard" => left' = left
      /\ phase' = "rollback" => Fails(~ aside) /\ Enter("rollback")
  BY DEF Confirm, After, Enter, world, request_
<1>2. Bounds' /\ Unasked'
  BY BoundsKept, UnaskedKept DEF Tidy, Next
<1>3. /\ Object("old_document")' = Object("old_document")
      /\ Object("old_assets")' = Object("old_assets")
      /\ Object("new_assets")' = Object("new_assets")
      /\ Object("new_document")' = Object("new_document")
      /\ Object("new_document") = NewDocument
      /\ Object("old_document") = held.document /\ Object("old_assets") = held.assets
  BY <1>1, Objects
<1>4. /\ Out(1, "old_document")' <=> Out(1, "old_document")
      /\ Out(2, "old_assets")' <=> Out(2, "old_assets")
      /\ Out(3, "new_assets")' <=> Out(3, "new_assets")
      /\ Out(4, "new_document")' <=> Out(4, "new_document")
      /\ Flagging'
  <2>1. CASE phase' = "discard"
    <3>1. /\ Out(1, "old_document")' <=> Out(1, "old_document")
          /\ Out(2, "old_assets")' <=> Out(2, "old_assets")
          /\ Out(3, "new_assets")' <=> Out(3, "new_assets")
          /\ Out(4, "new_document")' <=> Out(4, "new_document")
      BY <1>1, <1>3, <2>1 DEF Out
    <3> QED
      BY <1>1, <1>3, <2>1, <3>1 DEF Tidy, Flagging, Tallied
  <2>2. CASE phase' = "rollback"
    BY <1>1, <2>2, RollbackBegins DEF Tidy, IInv, Counting
  <2> QED
    BY <1>1, <2>1, <2>2
<1>5. BackedUp'
  BY <1>1, <1>3, <1>4 DEF Tidy, BackedUp, Backup, Underway
<1>6. Staged'
  BY <1>1, <1>3, <1>4 DEF Tidy, Staged, Stage, Underway
<1>7. Alone' => Alone /\ (phase' = "rollback" => left'.faults < Faults)
  <2>1. left' = left \/ Fault
    BY <1>1 DEF Fails
  <2>2. (Alone' => Alone) /\ (Fault => left'.faults < Faults)
    BY <2>1, FaultsGoDown DEF Tidy
  <2>3. Alone => ~ aside
    BY <1>1 DEF Tidy, Exact, Underway
  <2> QED
    BY <1>1, <2>2, <2>3 DEF Fails
<1>8. Exact'
  <2>1. ~ troubled
    BY <1>1 DEF Tidy, Flagging
  <2>2. /\ Out(1, "old_document") => dir["document_backup"] = held.document
        /\ Out(2, "old_assets") => dir["assets_backup"] = held.assets
        /\ ~ Out(3, "new_assets") => dir["assets_stage"] = Object("new_assets")
        /\ ~ Out(4, "new_document") => dir["document_stage"] = NewDocument
    BY <1>1, <1>3, <2>1 DEF Tidy, BackedUp, Backup, Staged, Stage, Underway
  <2> QED
    BY <1>1, <1>3, <1>4, <1>7, <2>1, <2>2 DEF Tidy, Exact, Underway
<1>9. AllOrNothing' /\ HiddenIsTold'
  BY <1>1 DEF AllOrNothing, HiddenIsTold, Answered
<1> QED
  BY <1>2, <1>4, <1>5, <1>6, <1>8, <1>9 DEF Tidy

\* What the two names hold when the moves are made: what was asked for.
LEMMA AloneAsAsked ==
    ASSUME Tidy, phase = "discard", Alone
    PROVE  /\ dir["document"] = NewDocument
           /\ request.markdown => dir["assets"] = Object("new_assets")
<1>1. /\ Out(4, "new_document")
      /\ Out(3, "new_assets") <=> Object("new_assets") # Nothing
      /\ Out(2, "old_assets") <=> held.assets # Nothing
  BY Objects DEF Out, Made
<1>2. /\ dir["document"] = NewDocument
      /\ dir["assets"] = IF Out(3, "new_assets") THEN NewAssets
                         ELSE IF Out(2, "old_assets") THEN Nothing ELSE before.assets
      /\ request.markdown => held.assets = before.assets
  BY <1>1 DEF Tidy, Exact, Underway
<1>3. Object("new_assets") \in {NewAssets, Nothing}
  BY Objects
<1> QED
  BY <1>1, <1>2, <1>3

\* Elsewhere but there, before the end and with no move made: what it was.
LEMMA AloneAsBefore ==
    ASSUME Tidy, phase \in {"clean", "abandon"}, Alone
    PROVE  dir["document"] = before.document /\ dir["assets"] = before.assets
BY NotOut DEF Tidy, Exact, Underway

LEMMA FinishTidy == ASSUME IInv, Tidy, Finish PROVE Tidy'
<1>1. /\ phase \in {"discard", "clean", "abandon"} /\ pos = 3
      /\ phase' = "ended" /\ pos' = 1 /\ at' = "look"
      /\ UNCHANGED <<dir, strays, aside, request, before, held, moved, troubled, left>>
  BY DEF Finish, After, Enter, End, world, request_
<1>2. Bounds' /\ Unasked'
  BY BoundsKept, UnaskedKept DEF Tidy, Next
<1>3. Flagging'
  BY <1>1, NotOutNext DEF Tidy, Flagging, Tallied
<1>4. BackedUp' /\ Staged' /\ Exact'
  BY <1>1 DEF BackedUp, Staged, Exact, Underway
<1>5. HiddenIsTold'
  <2>1. ~ troubled => dir["document_backup"] = Nothing /\ dir["assets_backup"] = Nothing
    BY <1>1, NotOut DEF Tidy, BackedUp, Backup, Underway
  <2>2. ~ troubled => /\ dir["document_stage"] = Nothing
                      /\ dir["assets_stage"] \in {Nothing, Partial}
                      /\ left.faults = Faults => dir["assets_stage"] = Nothing
    <3>1. CASE phase = "discard"
      <4>1. /\ Out(4, "new_document")
            /\ ~ Out(3, "new_assets") => Object("new_assets") = Nothing
        BY <3>1, Objects DEF Out, Made
      <4> QED
        BY <3>1, <4>1 DEF Tidy, Staged, Stage, Underway
    <3>2. CASE phase = "clean"
      BY <1>1, <3>2 DEF Tidy, Staged, Stage, Underway
    <3>3. CASE phase = "abandon"
      <4>1. left.faults \in Nat
        BY DEF Tidy, Bounds
      <4> QED
        BY <1>1, <3>3, <4>1 DEF Tidy, Staged, Stage, Underway
    <3> QED
      BY <1>1, <3>1, <3>2, <3>3
  <2>3. Partial \in Made
    BY DEF Made
  <2> QED
    BY <1>1, <2>1, <2>2, <2>3, FourHidden
<1>6. AllOrNothing'
  <2>1. CASE phase = "discard"
    <3>1. Object("new_assets")' = Object("new_assets")
      BY <1>1, Objects
    <3> QED
      BY <1>1, <2>1, <3>1, AloneAsAsked DEF AllOrNothing, Alone
  <2>2. CASE phase # "discard"
    BY <1>1, <2>2, AloneAsBefore, TwoVisible DEF Alone
  <2> QED
    BY <2>1, <2>2
<1> QED
  BY <1>2, <1>3, <1>4, <1>5, <1>6 DEF Tidy

\* A stage or a backup goes, or it stays and the answer tells of it.
LEMMA RemoveTidy == ASSUME IInv, Tidy, Remove PROVE Tidy'
<1> DEFINE r == Removals[pos]
<1>1. /\ phase \in {"discard", "clean", "abandon"}
      /\ UNCHANGED <<strays, aside, request, before, held, moved>>
  BY DEF Remove, Removing, world, request_
<1>2. pos = 1 \/ pos = 2
  BY DEF IInv, Counting, Remove, Removing
<1>3. Bounds' /\ Unasked'
  BY BoundsKept, UnaskedKept DEF Tidy, Next
<1>4. at = "look"
  BY <1>1 DEF Tidy, Flagging, Moving
<1>5. /\ Object("old_document")' = Object("old_document")
      /\ Object("old_assets")' = Object("old_assets")
      /\ Object("new_assets")' = Object("new_assets")
      /\ Object("new_document")' = Object("new_document")
      /\ Object("old_document") = held.document /\ Object("old_assets") = held.assets
      /\ Object("new_document") = NewDocument
  BY <1>1, Objects
<1>6. dir \in [Names -> Theirs \cup Made \cup {Nothing}]
  BY DEF IInv, Staging
<1>7. \/ r.object # Nothing /\ dir' = [dir EXCEPT ![r.name] = Nothing]
      \/ r.object = Nothing /\ dir' = dir
      \/ troubled' /\ dir' = dir
  BY DEF Remove
<1>8. r.name \in {"document_stage", "assets_stage", "document_backup", "assets_backup"}
  BY <1>1, <1>2, TheRemovals DEF Removes
<1>9. dir'["document"] = dir["document"] /\ dir'["assets"] = dir["assets"]
  BY <1>6, <1>7, <1>8, SixNames
<1>10. CASE pos' = pos + 1 /\ UNCHANGED <<phase, at, answer, troubled, left>> /\ ~ troubled'
  <2>1. /\ Out(1, "old_document")' <=> Out(1, "old_document")
        /\ Out(2, "old_assets")' <=> Out(2, "old_assets")
        /\ Out(3, "new_assets")' <=> Out(3, "new_assets")
        /\ Out(4, "new_document")' <=> Out(4, "new_document")
    BY <1>1, <1>5, <1>10 DEF Out
  <2>2. Flagging'
    BY <1>1, <1>4, <1>5, <1>10, <2>1 DEF Tidy, Flagging, Tallied
  <2>3. dir'[r.name] = Nothing \/ r.object = Nothing
    BY <1>6, <1>7, <1>8, <1>10, SixNames
  <2>4. \A n \in Names : n # r.name => dir'[n] = dir[n]
    BY <1>6, <1>7, <1>8, <1>10
  <2>5. dir'[r.name] = dir[r.name] \/ r.object # Nothing
    BY <1>7, <1>10
  <2> HIDE DEF r
  <2>6. ASSUME phase = "discard" PROVE BackedUp' /\ Staged'
    <3>1. CASE pos = 1
      <4>1. r.name = "document_backup" /\ r.object = held.document
        BY <2>6, <3>1, TheRemovals DEF Removes, r
      <4>2. /\ dir'["assets_backup"] = dir["assets_backup"]
            /\ dir'["document_stage"] = dir["document_stage"]
            /\ dir'["assets_stage"] = dir["assets_stage"]
        BY <2>4, <4>1, SixNames
      <4>3. dir["document_backup"] = held.document
        BY <1>5, <1>10, <2>6, <3>1 DEF Tidy, BackedUp, Backup, Underway
      <4>4. dir'["document_backup"] = Nothing
        BY <2>3, <2>5, <4>1, <4>3
      <4>5. BackedUp'
        BY <1>1, <1>5, <1>10, <2>1, <2>6, <3>1, <4>2, <4>4 DEF Tidy, BackedUp, Backup, Underway
      <4>6. Staged'
        BY <1>1, <1>5, <1>10, <2>1, <2>6, <3>1, <4>2 DEF Tidy, Staged, Stage, Underway
      <4> QED
        BY <4>5, <4>6
    <3>2. CASE pos = 2
      <4>1. r.name = "assets_backup" /\ r.object = held.assets
        BY <2>6, <3>2, TheRemovals DEF Removes, r
      <4>2. /\ dir'["document_backup"] = dir["document_backup"]
            /\ dir'["document_stage"] = dir["document_stage"]
            /\ dir'["assets_stage"] = dir["assets_stage"]
        BY <2>4, <4>1, SixNames
      <4>3. dir["assets_backup"] = held.assets
        BY <1>5, <1>10, <2>6, <3>2 DEF Tidy, BackedUp, Backup, Underway
      <4>4. dir'["assets_backup"] = Nothing
        BY <2>3, <2>5, <4>1, <4>3
      <4>5. BackedUp'
        BY <1>1, <1>5, <1>10, <2>1, <2>6, <3>2, <4>2, <4>4 DEF Tidy, BackedUp, Backup, Underway
      <4>6. Staged'
        BY <1>1, <1>5, <1>10, <2>1, <2>6, <3>2, <4>2 DEF Tidy, Staged, Stage, Underway
      <4> QED
        BY <4>5, <4>6
    <3> QED
      BY <1>2, <3>1, <3>2
  <2>7. ASSUME phase \in {"clean", "abandon"} PROVE BackedUp' /\ Staged'
    <3>1. CASE pos = 1
      <4>1. r.name = "document_stage" /\ r.object = NewDocument
        BY <2>7, <3>1, TheRemovals DEF Removes, r
      <4>2. /\ dir'["document_backup"] = dir["document_backup"]
            /\ dir'["assets_backup"] = dir["assets_backup"]
            /\ dir'["assets_stage"] = dir["assets_stage"]
        BY <2>4, <4>1, SixNames
      <4>3. dir'["document_stage"] = Nothing
        BY <2>3, <4>1 DEF Made
      <4>4. BackedUp'
        BY <1>1, <1>5, <1>10, <2>1, <2>7, <3>1, <4>2 DEF Tidy, BackedUp, Backup, Underway
      <4>5. Staged'
        BY <1>1, <1>5, <1>10, <2>1, <2>7, <3>1, <4>2, <4>3, NotOut
           DEF Tidy, Staged, Stage, Underway
      <4> QED
        BY <4>4, <4>5
    <3>2. CASE pos = 2
      <4>1. /\ r.name = "assets_stage"
            /\ phase = "clean" => r.object = Object("new_assets")
            /\ phase = "abandon" => r.object = Nothing
        BY <2>7, <3>2, TheRemovals DEF Removes, r
      <4>2. /\ dir'["document_backup"] = dir["document_backup"]
            /\ dir'["assets_backup"] = dir["assets_backup"]
            /\ dir'["document_stage"] = dir["document_stage"]
        BY <2>4, <4>1, SixNames
      <4>3. /\ phase = "clean" => dir'["assets_stage"] = Nothing
            /\ phase = "abandon" => dir'["assets_stage"] = dir["assets_stage"]
        <5>1. phase = "clean" => dir["assets_stage"] = Object("new_assets")
          BY <1>10, <3>2 DEF Tidy, Staged, Stage, Underway
        <5> QED
          BY <2>3, <2>5, <4>1, <5>1
      <4>4. BackedUp'
        BY <1>1, <1>5, <1>10, <2>1, <2>7, <3>2, <4>2 DEF Tidy, BackedUp, Backup, Underway
      <4>5. Staged'
        BY <1>1, <1>5, <1>10, <2>1, <2>7, <3>2, <4>2, <4>3, NotOut
           DEF Tidy, Staged, Stage, Underway
      <4> QED
        BY <4>4, <4>5
    <3> QED
      BY <1>2, <3>1, <3>2
  <2>8. Exact'
    BY <1>1, <1>9, <1>10, <2>1 DEF Tidy, Exact, Alone, Underway
  <2>9. AllOrNothing' /\ HiddenIsTold'
    BY <1>1, <1>10 DEF AllOrNothing, HiddenIsTold, Answered
  <2> QED
    BY <1>1, <1>3, <2>2, <2>6, <2>7, <2>8, <2>9 DEF Tidy
<1>11. CASE troubled'
  <2>1. left' = left \/ Fault
    BY DEF Remove, Fails
  <2>2. Alone' => Alone
    BY <2>1, FaultsGoDown DEF Tidy
  <2>3. at' = "look" /\ (phase' = phase \/ (phase = "discard" /\ phase' = "ended"))
    BY <1>1, <1>4 DEF Remove, End, Enter
  <2>4. phase # "discard" \/ phase' = "ended"
    <3>1. phase = "discard" => ~ troubled
      BY DEF Tidy, Flagging
    <3> QED
      BY <1>11, <3>1 DEF Remove, End, Enter
  <2>5. Flagging'
    BY <1>1, <2>3, <2>4 DEF Flagging, Tallied
  <2>6. BackedUp' /\ Staged'
    BY <1>11 DEF BackedUp, Staged
  <2>7. CASE phase' = "ended"
    <3>1. Exact'
      BY <2>7 DEF Exact, Underway
    <3>2. HiddenIsTold'
      BY <1>11 DEF HiddenIsTold
    <3>3. AllOrNothing'
      BY <1>1, <1>5, <1>9, <2>2, <2>3, <2>7, AloneAsAsked DEF AllOrNothing, Alone
    <3> QED
      BY <1>3, <2>5, <2>6, <3>1, <3>2, <3>3 DEF Tidy
  <2>8. CASE phase' # "ended"
    <3>1. phase' = phase /\ phase \in {"clean", "abandon"}
      BY <1>1, <2>3, <2>4, <2>8
    <3>2. Exact'
      BY <1>1, <1>9, <2>2, <3>1, NotOut, NotOutNext DEF Tidy, Exact, Underway
    <3>3. AllOrNothing' /\ HiddenIsTold'
      BY <2>8 DEF AllOrNothing, HiddenIsTold, Answered
    <3> QED
      BY <1>3, <2>5, <2>6, <3>2, <3>3 DEF Tidy
  <2> QED
    BY <2>7, <2>8
<1>12. \/ troubled' \/ (pos' = pos + 1 /\ UNCHANGED <<phase, at, answer, troubled, left>>)
  BY DEF Remove
<1> QED
  BY <1>10, <1>11, <1>12

LEMMA InitTidy == Init => Tidy
<1> SUFFICES ASSUME Init PROVE Tidy
  OBVIOUS
<1>1. /\ phase = "acquire" /\ pos = 1 /\ at = "look" /\ moved = {} /\ troubled = FALSE
      /\ strays = {} /\ aside = FALSE
      /\ dir = [n \in Names |-> IF n \in Visible THEN before[n] ELSE Nothing]
  BY DEF Init
<1>2. /\ dir["document"] = before.document /\ dir["assets"] = before.assets
      /\ dir["document_stage"] = Nothing /\ dir["assets_stage"] = Nothing
      /\ dir["document_backup"] = Nothing /\ dir["assets_backup"] = Nothing
  BY <1>1 DEF Names, Visible, Stages, Backups
<1>3. Bounds /\ Unasked
  BY DEF Init, Bounds, Unasked
<1>4. Flagging
  BY <1>1, NotOut DEF Flagging, Tallied
<1>5. BackedUp /\ Staged /\ Exact
  BY <1>1, <1>2, NotOut DEF BackedUp, Backup, Staged, Stage, Exact
<1>6. AllOrNothing /\ HiddenIsTold
  BY <1>1 DEF AllOrNothing, HiddenIsTold, Answered
<1> QED
  BY <1>3, <1>4, <1>5, <1>6 DEF Tidy

LEMMA StutterTidy == ASSUME Tidy, UNCHANGED vars PROVE Tidy'
<1>1. SameMove /\ UNCHANGED <<dir, strays, aside, before, left, answer>>
  BY DEF vars, SameMove
<1>2. Flagging'
  BY <1>1, FlaggingSame DEF Tidy
<1>3. BackedUp' /\ Staged' /\ Exact'
  BY <1>1, OutSame, Objects
     DEF Tidy, BackedUp, Backup, Staged, Stage, Exact, Alone, Underway, SameMove
<1>4. AllOrNothing' /\ HiddenIsTold'
  BY <1>1, Objects DEF Tidy, AllOrNothing, HiddenIsTold, AsBefore, Answered, SameMove
<1>5. Bounds' /\ Unasked'
  BY BoundsKept, UnaskedKept DEF Tidy
<1> QED
  BY <1>2, <1>3, <1>4, <1>5 DEF Tidy

LEMMA TidyAlways == Spec => []Tidy
<1>1. Init => Tidy
  BY InitTidy
<1>2. IInv /\ Tidy /\ [Next]_vars => Tidy'
  BY HandTidy, DieTidy, AcquireTidy, ExamineTidy, StageDocumentTidy, StageAssetsTidy, NameTidy,
     SkipTidy, LookTidy, RenameTidy, CheckTidy, MovedTidy, ConfirmTidy, RemoveTidy, FinishTidy,
     StutterTidy DEF Next
<1> QED
  BY <1>1, <1>2, Always, PTL DEF Spec

\* With no other program about and at most one operation that fails of itself, an
\* export ends with both names as they were or both as asked for (publication.rs'
\* rollback_document and rollback_markdown take back every move that was made).
THEOREM AllOrNothingAlways == Spec => []AllOrNothing
<1>1. Tidy => AllOrNothing
  BY DEF Tidy
<1> QED
  BY <1>1, TidyAlways, PTL

\* Whoever interferes: an export that ends without telling of trouble has left no
\* file of somebody else's under a hidden name, and nothing of its own either unless
\* an operation failed of itself (publication.rs, remove_verified and the rollbacks).
THEOREM HiddenAlwaysTold == Spec => []HiddenIsTold
<1>1. Tidy => HiddenIsTold
  BY DEF Tidy
<1> QED
  BY <1>1, TidyAlways, PTL

-----------------------------------------------------------------------------
(* Types, and that a thing is in one place.                                *)

\* What everything else is.
Plain ==
    /\ strays \subseteq Folders \cup {NewAssets}
    /\ phase \in Phases /\ at \in Steps /\ moved \subseteq Flags
    /\ answer \in {"none", "ok", "exists", "failed"}
    /\ aside \in BOOLEAN /\ troubled \in BOOLEAN

\* A thing stands at one name, or was taken out, or is yet to be brought.
Apart ==
    /\ gone \subseteq Theirs \cup Made
    /\ \A n \in Names : dir[n] \in gone \cup outside => dir[n] = Partial
    /\ \A n, o \in Names : dir[n] = dir[o] => n = o \/ dir[n] \in {Nothing, Partial}
    /\ gone \cap outside = {}

\* What the export makes is nowhere before it is made.
Unmade ==
    /\ phase \in {"acquire", "examine", "stage_document"} => ~ Stands(NewDocument)
    /\ phase \in {"acquire", "examine", "stage_document", "stage_assets"} => ~ Stands(NewAssets)

\* A name is cleared.
LEMMA ClearedApart ==
    ASSUME dir \in [Names -> Theirs \cup Made \cup {Nothing}], Apart, NEW n \in Names,
           dir' = [dir EXCEPT ![n] = Nothing], gone' = gone, outside' = outside,
           outside \subseteq Theirs
    PROVE  Apart'
<1>1. \A m \in Names : dir'[m] = IF m = n THEN Nothing ELSE dir[m]
  OBVIOUS
<1>2. Nothing \notin gone \cup outside
  BY DEF Apart
<1> QED
  BY <1>1, <1>2 DEF Apart

\* A name is written, with what is nowhere yet or with what counts for nothing.
LEMMA WrittenApart ==
    ASSUME dir \in [Names -> Theirs \cup Made \cup {Nothing}], Apart, NEW n \in Names,
           NEW x \in Made, x = Partial \/ ~ Stands(x), outside \subseteq Theirs,
           dir' = [dir EXCEPT ![n] = x], gone' = gone, outside' = outside
    PROVE  Apart'
<1>1. \A m \in Names : dir'[m] = IF m = n THEN x ELSE dir[m]
  OBVIOUS
<1>2. x # Partial => x \notin gone \cup outside /\ \A m \in Names : dir[m] # x
  BY DEF Stands
<1> QED
  BY <1>1, <1>2 DEF Apart

\* A thing goes from one name to another.
LEMMA RenamedApart ==
    ASSUME dir \in [Names -> Theirs \cup Made \cup {Nothing}], Apart,
           NEW from \in Names, NEW to \in Names, from # to, dir[to] = Nothing,
           dir' = [dir EXCEPT ![to] = dir[from], ![from] = Nothing],
           gone' = gone, outside' = outside, outside \subseteq Theirs
    PROVE  Apart'
<1>1. \A m \in Names : dir'[m] = IF m = from THEN Nothing ELSE IF m = to THEN dir[from] ELSE dir[m]
  OBVIOUS
<1>2. Nothing \notin gone \cup outside
  BY DEF Apart
<1>3. \A m \in Names : dir'[m] \in gone \cup outside => dir'[m] = Partial
  BY <1>1, <1>2 DEF Apart
<1>4. ASSUME NEW m \in Names, NEW o \in Names, dir'[m] = dir'[o], m # o
      PROVE  dir'[m] \in {Nothing, Partial}
  BY <1>1, <1>4 DEF Apart
<1> QED
  BY <1>3, <1>4 DEF Apart

\* Another program takes a thing away, or puts one in its place.
LEMMA HandApart ==
    ASSUME Staging, Apart, Unmade, Plain, Hand
    PROVE  Apart' /\ Unmade' /\ Plain'
<1>1. /\ dir \in [Names -> Theirs \cup Made \cup {Nothing}] /\ outside \subseteq Theirs
      /\ Visible \subseteq Names
  BY DEF Staging, Names
<1>2. UNCHANGED <<held, phase, pos, at, moved, answer, troubled>>
  BY DEF Hand
<1>3. \/ \E n \in Visible : TakeAway(n) \/ \E x \in Theirs : Put(n, x)
      \/ PutInside \/ MoveAside
  BY DEF Hand
<1>4. ASSUME NEW n \in Visible, TakeAway(n) PROVE Apart' /\ Unmade' /\ Plain'
  <2>1. /\ dir[n] # Nothing /\ dir' = [dir EXCEPT ![n] = Nothing]
        /\ gone' = gone \cup {dir[n]} /\ UNCHANGED <<strays, outside, aside>>
    BY <1>4 DEF TakeAway
  <2>2. \A m \in Names : dir'[m] = IF m = n THEN Nothing ELSE dir[m]
    BY <1>1, <2>1
  <2>3. Apart'
    <3>1. n \in Names /\ dir[n] \in Theirs \cup Made /\ dir[n] \notin outside
      BY <1>1, <2>1 DEF Apart, Made
    <3>2. gone' \subseteq Theirs \cup Made /\ gone' \cap outside' = {}
      BY <2>1, <3>1 DEF Apart
    <3>3. \A m \in Names : dir'[m] \in gone' \cup outside' => dir'[m] = Partial
      <4> TAKE m \in Names
      <4>1. CASE m = n
        BY <1>1, <2>1, <2>2, <3>2, <4>1
      <4>2. CASE m # n
        BY <2>1, <2>2, <3>1, <4>2 DEF Apart
      <4> QED
        BY <4>1, <4>2
    <3>4. \A m, o \in Names : dir'[m] = dir'[o] => m = o \/ dir'[m] \in {Nothing, Partial}
      BY <2>2 DEF Apart
    <3> QED
      BY <3>2, <3>3, <3>4 DEF Apart
  <2>4. \A y : Stands(y)' => y = Nothing \/ Stands(y)
    BY <1>1, <2>1, <2>2 DEF Stands
  <2> QED
    BY <1>2, <2>1, <2>3, <2>4 DEF Unmade, Plain, Made
<1>5. ASSUME NEW n \in Visible, NEW x \in Theirs, Put(n, x) PROVE Apart' /\ Unmade' /\ Plain'
  <2>1. /\ x \in outside /\ outside' = outside \ {x} /\ dir' = [dir EXCEPT ![n] = x]
        /\ gone' = IF dir[n] = Nothing THEN gone ELSE gone \cup {dir[n]}
        /\ UNCHANGED <<strays, aside>>
    BY <1>5 DEF Put
  <2>2. \A m \in Names : dir'[m] = IF m = n THEN x ELSE dir[m]
    BY <1>1, <2>1
  <2>3. x # Nothing /\ x # Partial /\ \A m \in Names : dir[m] # x
    BY <2>1 DEF Apart, Made
  <2>4. Apart'
    <3>1. gone' \subseteq Theirs \cup Made /\ gone' \cap outside' = {}
      BY <1>1, <2>1 DEF Apart, Made
    <3>2. \A m \in Names : dir'[m] \in gone' \cup outside' => dir'[m] = Partial
      BY <1>1, <2>1, <2>2, <2>3 DEF Apart
    <3>3. \A m, o \in Names : dir'[m] = dir'[o] => m = o \/ dir'[m] \in {Nothing, Partial}
      BY <2>2, <2>3 DEF Apart
    <3> QED
      BY <3>1, <3>2, <3>3 DEF Apart
  <2>5. \A y \in Made : Stands(y)' => Stands(y)
    BY <1>1, <2>1, <2>2 DEF Stands
  <2> QED
    BY <1>2, <2>1, <2>4, <2>5 DEF Unmade, Plain, Made
<1>6. ASSUME PutInside \/ MoveAside PROVE Apart' /\ Unmade' /\ Plain'
  <2>1. UNCHANGED <<dir, outside, gone>> /\ strays' \subseteq Folders \cup {NewAssets} /\ aside' \in BOOLEAN
    BY <1>6 DEF PutInside, MoveAside, Plain
  <2> QED
    BY <1>2, <2>1 DEF Apart, Unmade, Plain, Stands
<1> QED
  BY <1>3, <1>4, <1>5, <1>6

\* A step that leaves the directory alone and makes nothing unmade.
LEMMA QuietApart ==
    ASSUME Apart, Unmade, UNCHANGED <<dir, gone, outside>>,
           phase' \in {"acquire", "examine", "stage_document"}
             => phase \in {"acquire", "examine", "stage_document"},
           phase' \in {"acquire", "examine", "stage_document", "stage_assets"}
             => phase \in {"acquire", "examine", "stage_document", "stage_assets"}
    PROVE  Apart' /\ Unmade'
BY DEF Apart, Unmade, Stands

\* What a step of the export leaves everything else.
LEMMA PlainStays == ASSUME Plain, Counting, [Next]_vars, ~ Hand PROVE Plain'
<1>1. strays' = strays /\ aside' = aside
  BY DEF Next, vars, Die, Acquire, Examine, StageDocument, StageAssets, Name, Skip, Look, Rename,
         Check, Moved, Confirm, Remove, Finish, world
<1>2. phase' \in Phases /\ at' \in Steps
  BY DEF Next, vars, Die, Acquire, Examine, StageDocument, StageAssets, Name, Skip, Look, Rename,
         Check, Moved, Confirm, Remove, Finish, End, Enter, Missed, After, Plain, Phases, Steps
<1>3. answer' \in {"none", "ok", "exists", "failed"} /\ troubled' \in BOOLEAN
  BY DEF Next, vars, Die, Acquire, Examine, StageDocument, StageAssets, Name, Skip, Look, Rename,
         Check, Moved, Confirm, Remove, Finish, End, Missed, Plain
<1>4. moved' \subseteq Flags
  <2>1. CASE Rename \/ Check
    <3>1. Move.flag \in Flags
      <4>1. pos \in {1, 2, 3, 4} /\ 5 - pos \in {1, 2, 3, 4}
        BY <2>1 DEF Rename, Check, Moving, Counting
      <4>2. \A i \in {1, 2, 3, 4} : Moves[i].flag \in Flags
        BY DEF Moves, Flags
      <4>3. Move = Moves[pos] \/ Move.flag = Moves[5 - pos].flag
        BY DEF Move, Backward, Reversed
      <4> QED
        BY <4>1, <4>2, <4>3
    <3> QED
      BY <2>1, <3>1 DEF Rename, Check, Flagged, Plain
  <2>2. CASE moved' = moved
    BY <2>2 DEF Plain
  <2> QED
    BY <2>1, <2>2 DEF Next, vars, Die, Acquire, Examine, StageDocument, StageAssets, Name, Skip,
                      Look, Moved, Confirm, Remove, Finish
<1> QED
  BY <1>1, <1>2, <1>3, <1>4 DEF Plain

\* The export's own steps.
LEMMA ApartStays ==
    ASSUME IInv, Apart, Unmade, [Next]_vars, ~ Hand
    PROVE  Apart' /\ Unmade'
<1>1. /\ dir \in [Names -> Theirs \cup Made \cup {Nothing}] /\ outside \subseteq Theirs
      /\ pos \in 1 .. 5
      /\ held \in [document : Files \cup {Nothing}, assets : Folders \cup {Nothing}]
  BY DEF IInv, Staging, Counting
<1>2. gone' = gone /\ outside' = outside
  BY DEF Next, vars, Die, Acquire, Examine, StageDocument, StageAssets, Name, Skip, Look, Rename,
         Check, Moved, Confirm, Remove, Finish, world
<1>3. CASE StageDocument
  <2>1. ~ Stands(NewDocument) /\ ~ Stands(NewAssets)
    BY <1>3 DEF StageDocument, Unmade
  <2>2. \/ phase' \in {"stage_assets", "name"} /\ dir' = [dir EXCEPT !["document_stage"] = NewDocument]
        \/ phase' = "ended" /\ (dir' = dir \/ dir' = [dir EXCEPT !["document_stage"] = Partial])
    BY <1>3 DEF StageDocument, Enter, End
  <2>3. "document_stage" \in Names
    BY DEF Names, Stages
  <2>4. CASE dir' = dir
    BY <1>2, <2>2, <2>4, <2>1, QuietApart, <2>3 DEF Apart, Unmade, Stands
  <2>5. CASE dir' = [dir EXCEPT !["document_stage"] = NewDocument]
    <3>1. Apart'
      BY <1>1, <1>2, <2>1, <2>3, <2>5, WrittenApart DEF Made
    <3>2. ~ Stands(NewAssets)'
      BY <1>1, <1>2, <2>1, <2>5 DEF Stands
    <3>3. phase' \notin {"acquire", "examine", "stage_document"}
      BY <2>2
    <3> QED
      BY <3>1, <3>2, <3>3 DEF Unmade
  <2>6. CASE dir' = [dir EXCEPT !["document_stage"] = Partial] /\ phase' = "ended"
    <3>1. Apart'
      BY <1>1, <1>2, <2>3, <2>6, WrittenApart DEF Made
    <3> QED
      BY <2>6, <3>1 DEF Unmade
  <2> QED
    BY <2>2, <2>4, <2>5, <2>6
<1>4. CASE StageAssets
  <2>1. ~ Stands(NewAssets)
    BY <1>4 DEF StageAssets, Unmade
  <2>2. phase' \in {"name", "abandon", "ended"}
    BY <1>4 DEF StageAssets, Enter, End
  <2>3. \/ dir' = dir \/ dir' = [dir EXCEPT !["assets_stage"] = NewAssets]
        \/ dir' = [dir EXCEPT !["assets_stage"] = Partial]
    BY <1>4 DEF StageAssets
  <2>4. "assets_stage" \in Names
    BY DEF Names, Stages
  <2>5. Apart'
    <3>1. CASE dir' = dir
      BY <1>2, <3>1 DEF Apart
    <3>2. CASE dir' = [dir EXCEPT !["assets_stage"] = NewAssets]
      BY <1>1, <1>2, <2>1, <2>4, <3>2, WrittenApart DEF Made
    <3>3. CASE dir' = [dir EXCEPT !["assets_stage"] = Partial]
      BY <1>1, <1>2, <2>4, <3>3, WrittenApart DEF Made
    <3> QED
      BY <2>3, <3>1, <3>2, <3>3
  <2> QED
    BY <2>2, <2>5 DEF Unmade
<1>5. CASE Rename
  <2>1. phase \in {"forward", "rollback"} /\ phase' \in {"forward", "rollback"}
    BY <1>5 DEF Rename, Moving, Missed, Enter
  <2>2. Move.from \in Names /\ Move.to \in Names /\ Move.from # Move.to
    BY <1>1, <1>5, MoveNames DEF Rename
  <2>3. \/ dir' = dir
        \/ /\ dir[Move.to] = Nothing
           /\ dir' = [dir EXCEPT ![Move.to] = dir[Move.from], ![Move.from] = Nothing]
    BY <1>5 DEF Rename, MayRename
  <2>4. Apart'
    <3>1. CASE dir' = dir
      BY <1>2, <3>1 DEF Apart
    <3>2. CASE dir' # dir
      BY <1>1, <1>2, <2>2, <2>3, <3>2, RenamedApart
    <3> QED
      BY <3>1, <3>2
  <2> QED
    BY <2>1, <2>4 DEF Unmade
<1>6. CASE Remove
  <2>1. phase \in {"discard", "clean", "abandon"} /\ phase' \in {"discard", "clean", "abandon", "ended"}
    BY <1>6 DEF Remove, Removing, End, Enter
  <2>2. Removals[pos].name \in Names
    BY <1>1, <1>6, RemovedObjects DEF Remove
  <2>3. dir' = dir \/ dir' = [dir EXCEPT ![Removals[pos].name] = Nothing]
    BY <1>6 DEF Remove
  <2>4. Apart'
    <3>1. CASE dir' = dir
      BY <1>2, <3>1 DEF Apart
    <3>2. CASE dir' # dir
      BY <1>1, <1>2, <2>2, <2>3, <3>2, ClearedApart
    <3> QED
      BY <3>1, <3>2
  <2> QED
    BY <2>1, <2>4 DEF Unmade
<1>7. CASE \/ Die \/ Acquire \/ Examine \/ Name \/ Skip \/ Look \/ Check \/ Moved \/ Confirm \/ Finish
           \/ UNCHANGED vars
  <2>1. dir' = dir
    BY <1>7 DEF vars, Die, Acquire, Examine, Name, Skip, Look, Check, Moved, Confirm, Finish
  <2>2. phase' \in {"acquire", "examine", "stage_document", "stage_assets"}
          => phase' = phase \/ (phase \in {"acquire", "examine"} /\ phase' # "stage_assets")
    BY <1>7 DEF vars, Die, Acquire, Examine, Name, Skip, Look, Check, Moved, Confirm, Finish, End,
                Enter, Missed, After, Moving
  <2> QED
    BY <1>2, <2>1, <2>2, QuietApart
<1> QED
  BY <1>3, <1>4, <1>5, <1>6, <1>7 DEF Next

\* What the export makes and what others have stands at one name at a time, or is in
\* its owner's hands; every stage, backup and flag is of the kind the code has.
THEOREM TypeCorrect == Spec => []TypeOK
<1> DEFINE All == IInv /\ Bounds /\ Plain /\ Apart /\ Unmade
<1>1. Init => All
  <2> SUFFICES ASSUME Init PROVE All
    OBVIOUS
  <2>1. IInv
    BY InitEstablishes
  <2>2. Bounds
    <3>1. request \in [markdown : BOOLEAN, overwrite : BOOLEAN, assets : BOOLEAN]
          /\ (request.assets => request.markdown)
      BY DEF Init
    <3>2. left \in [faults : 0 .. Faults, hands : 0 .. Hands]
      BY DEF Init
    <3> QED
      BY <3>1, <3>2 DEF Bounds
  <2>3. Plain
    BY DEF Init, Plain, Phases, Steps, Flags
  <2>4. /\ "document" \in Visible /\ "assets" \in Visible /\ Visible = {"document", "assets"}
        /\ before["document"] \in Theirs \cup {Nothing} /\ before["assets"] \in Theirs \cup {Nothing}
        /\ before["document"] = before["assets"] => before["document"] = Nothing
    BY DEF Init, Visible, Theirs
  <2>5. \A n \in Names : dir[n] = IF n \in Visible THEN before[n] ELSE Nothing
    BY DEF Init
  <2>6. outside = Theirs \ {dir[n] : n \in Names} /\ gone = {}
    BY DEF Init
  <2>7. Apart
    <3>1. \A n \in Names : dir[n] \notin outside
      BY <2>6
    <3>2. \A n, o \in Names : dir[n] = dir[o] => n = o \/ dir[n] = Nothing
      BY <2>4, <2>5
    <3> QED
      BY <2>6, <3>1, <3>2 DEF Apart
  <2>8. \A x \in Made : ~ Stands(x)
    BY <2>4, <2>5, <2>6 DEF Stands
  <2>9. Unmade
    BY <2>8 DEF Unmade, Made
  <2> QED
    BY <2>1, <2>2, <2>3, <2>7, <2>9
<1>2. All /\ [Next]_vars => All'
  <2> SUFFICES ASSUME All, [Next]_vars PROVE All'
    OBVIOUS
  <2>1. IInv' /\ Bounds'
    BY StepPreserves, BoundsKept
  <2>2. CASE Hand
    BY <2>1, <2>2, HandApart DEF IInv
  <2>3. CASE ~ Hand
    BY <2>1, <2>3, PlainStays, ApartStays DEF IInv
  <2> QED
    BY <2>2, <2>3
<1>3. All => TypeOK
  BY DEF IInv, Staging, Counting, Bounds, Plain, Apart, TypeOK
<1> QED
  BY <1>1, <1>2, <1>3, PTL DEF Spec

=============================================================================
