---------------------------- MODULE Attachments ----------------------------
(***************************************************************************)
(* One picture, the nodes that show it and the devices that have it.  Its  *)
(* bytes are in each app's own store under their hash, and in the vault    *)
(* under a name made of what the user called the file and of the hash: in  *)
(* the folder of the one page that uses it, or at the vault's root once    *)
(* two nodes do or one of them is in the trash.                            *)
(*                                                                         *)
(* A line names a file, not a hash.  A row written from a line whose file  *)
(* this device has no record of waits for it by name.  The pass before an  *)
(* export moves the bytes to where they belong; the watch takes in a file  *)
(* it has no record of.                                                    *)
(*                                                                         *)
(* The devices look at one folder, each in its own time; a death is one of *)
(* the app.  Other pictures have other names and other records, and are    *)
(* not here.  Stamps are numbers in the order of the changes; how lines    *)
(* compete is NodeReplay's, how a document is written VaultSync's.         *)
(***************************************************************************)
EXTENDS Naturals, FiniteSets, FiniteSetsExt

CONSTANTS
    Devices, Nodes, Pages,
    Vault,          \* the place at the root of the vault
    Bin,            \* the trash's document
    Known,          \* what a row holds that knows its picture
    Nowhere, NoRow,
    PageOf,         \* the page a node is on
    Author,         \* the device it is made on
    NameOf,         \* what its user called the file: a number, in their order
    Turns,          \* passes of different devices do not overlap
    Closes,         \* devices whose app may be closed, which tidies its store
    MaxChanges      \* bound: changes made on any device

ASSUME AttachmentsAssumption ==
    /\ PageOf \in [Nodes -> Pages] /\ Author \in [Nodes -> Devices] /\ NameOf \in [Nodes -> Nat]
    /\ Vault \notin Pages /\ Bin \notin Pages /\ Known \notin Nat
    /\ Turns \in BOOLEAN /\ Closes \subseteq Devices /\ MaxChanges \in Nat

Names == {NameOf[n] : n \in Nodes}
Docs == Pages \cup {Bin}
Locations == [place : Pages \cup {Vault}, name : Names]

VARIABLES
    row,        \* notes_nodes with notes_images: a stamp, in the trash or not,
                \* Known or the name waited for
    record,     \* sync_assets: where the bytes are, as the device remembers it
    store,      \* devices whose own store has the bytes
    vault,      \* the places where the folder has the bytes
    doc,        \* the lines of each document: a stamp and the name of the file
    unread,     \* documents a device has yet to merge
    owed,       \* documents a dirty row is in
    poked,      \* devices whose export thread has been asked for a pass
    pass,       \* the export's pass over the picture
    taking,     \* the file of the watch between reading it and its answer
    stamps      \* how many changes there have been

vars == <<row, record, store, vault, doc, unread, owed, poked, pass, taking, stamps>>

Rows == [stamp : Nat, trashed : BOOLEAN, picture : Names \cup {Known}]
Lines == [stamp : Nat, name : Names]
Idle == [phase |-> "idle"]

TypeOK ==
    /\ row \in [Devices -> [Nodes -> Rows \cup {NoRow}]]
    /\ record \in [Devices -> Locations \cup {Nowhere}]
    /\ {store, poked} \subseteq SUBSET Devices /\ vault \subseteq Locations
    /\ doc \in [Docs -> [Nodes -> Lines \cup {NoRow}]]
    /\ {unread, owed} \subseteq [Devices -> SUBSET Docs]
    /\ pass \in [Devices -> {Idle} \cup [phase : {"tidy", "write"}, to : Locations \cup {Nowhere}]]
    /\ taking \in [Devices -> Locations \cup {Nowhere}]
    /\ stamps \in 0 .. MaxChanges

Init ==
    /\ row = [d \in Devices |-> [n \in Nodes |-> NoRow]]
    /\ record = [d \in Devices |-> Nowhere] /\ store = {} /\ vault = {}
    /\ doc = [p \in Docs |-> [n \in Nodes |-> NoRow]]
    /\ unread = [d \in Devices |-> {}] /\ owed = [d \in Devices |-> {}] /\ poked = {}
    /\ pass = [d \in Devices |-> Idle] /\ taking = [d \in Devices |-> Nowhere]
    /\ stamps = 0

---------------------------------------------------------------------------
(* What the rows of a device say *)

Present(d) == {n \in Nodes : row[d][n] # NoRow}
Holders(d) == {n \in Present(d) : row[d][n].picture = Known}
Waiting(d, name) == {n \in Present(d) : row[d][n].picture = name}
In(d, p) == {n \in Present(d) : IF p = Bin THEN row[d][n].trashed
                                ELSE PageOf[n] = p /\ ~row[d][n].trashed}

\* The worker takes one request at a time, and a pass is one.
Free(d) == pass[d] = Idle /\ (Turns => \A e \in Devices : pass[e] = Idle)

---------------------------------------------------------------------------
(* Commands *)

Change(d, n, r, docs) ==
    /\ pass[d] = Idle
    /\ stamps' = stamps + 1
    /\ row' = [row EXCEPT ![d][n] = r]
    /\ owed' = [owed EXCEPT ![d] = @ \cup docs]
    /\ poked' = poked \cup {d}

\* The bytes are put into the store before the command that shows them runs.
Paste(d, n) ==
    /\ Author[n] = d /\ \A e \in Devices : row[e][n] = NoRow
    /\ \A p \in Docs : doc[p][n] = NoRow
    /\ stamps < MaxChanges
    /\ Change(d, n, [stamp |-> stamps + 1, trashed |-> FALSE, picture |-> Known], {PageOf[n]})
    /\ store' = store \cup {d}
    /\ UNCHANGED <<record, vault, doc, unread, pass, taking>>

\* An edit, a deletion or a restore.  The trash's file is looked at with every
\* page's while it claims anything.
Alter(d, n) ==
    /\ n \in Present(d) /\ stamps < MaxChanges
    /\ \E trashed \in BOOLEAN :
         Change(d, n, [row[d][n] EXCEPT !.stamp = stamps + 1, !.trashed = trashed],
                {PageOf[n]} \cup (IF trashed \/ row[d][n].trashed THEN {Bin} ELSE {}))
    /\ UNCHANGED <<record, store, vault, doc, unread, pass, taking>>

\* Undo of a paste no file has stated: the row goes, and its picture with it.
TakeBack(d, n) ==
    /\ n \in Present(d) /\ \A p \in Docs : doc[p][n] = NoRow
    /\ stamps < MaxChanges
    /\ Change(d, n, NoRow, {PageOf[n]})
    /\ UNCHANGED <<record, store, vault, doc, unread, pass, taking>>

\* The attachment list: the record first, and the bytes unless the app dies.
Delete(d) ==
    /\ Free(d) /\ Holders(d) = {} /\ record[d] # Nowhere
    /\ record' = [record EXCEPT ![d] = Nowhere]
    /\ \/ vault' = vault \ {record[d]}
       \/ UNCHANGED vault
    /\ UNCHANGED <<row, store, doc, unread, owed, poked, pass, taking, stamps>>

---------------------------------------------------------------------------
(* The pass before an export, and the documents *)

\* Two users who add one picture under two names: the smallest wins.
ChosenName(holders) == Min({NameOf[n] : n \in holders})

Shared(d) == Cardinality(Holders(d)) > 1 \/ \E n \in Holders(d) : row[d][n].trashed

PlanPlacement(d) ==
    IF Holders(d) = {} THEN record[d]
    ELSE [place |-> IF Shared(d) THEN Vault ELSE PageOf[CHOOSE n \in Holders(d) : TRUE],
          name |-> ChosenName(Holders(d))]

\* Mutant: the copy that is where it belongs is removed as an old one.
TidiedAlways(d, to) == vault \ {record[d]}

Copied(d, to) == vault \cup {to}
Tidied(d, to) == vault \ ({record[d]} \ {to})

CanCarry(d, to) == to \in vault \/ record[d] \in vault \/ d \in store

\* The new copy is written where there is none.  Bytes that are nowhere to be
\* had leave the record as it is, and stop nothing else.
Carry(d) ==
    /\ Free(d)
    /\ LET to == PlanPlacement(d) IN
       IF Holders(d) # {} /\ CanCarry(d, to)
       THEN /\ vault' = Copied(d, to)
            /\ pass' = [pass EXCEPT ![d] = [phase |-> "tidy", to |-> to]]
       ELSE /\ pass' = [pass EXCEPT ![d] = [phase |-> "write", to |-> record[d]]]
            /\ UNCHANGED vault
    /\ UNCHANGED <<row, record, store, doc, unread, owed, poked, taking, stamps>>

\* Only then the old one is removed.  A removal that fails leaves the record,
\* and both copies.
Tidy(d) ==
    /\ pass[d].phase = "tidy"
    /\ \/ /\ vault' = Tidied(d, pass[d].to)
          /\ pass' = [pass EXCEPT ![d].phase = "write"]
       \/ /\ record[d] # Nowhere
          /\ pass' = [pass EXCEPT ![d] = [phase |-> "write", to |-> record[d]]]
          /\ UNCHANGED vault
    /\ UNCHANGED <<row, record, store, doc, unread, owed, poked, taking, stamps>>

\* The file a line names, the bytes being at `at`.
Stated(d, n, at) ==
    IF row[d][n].picture # Known THEN row[d][n].picture
    ELSE IF at # Nowhere THEN at.name ELSE ChosenName(Holders(d))

Rendered(d, p, at) ==
    [n \in Nodes |-> IF n \in In(d, p)
                     THEN [stamp |-> row[d][n].stamp, name |-> Stated(d, n, at)] ELSE NoRow]

\* A page cannot state a picture whose place is not known; the trash can.
Renderable(d, p, at) == p = Bin \/ at # Nowhere \/ In(d, p) \cap Holders(d) = {}

\* What somebody else has written and this device has not read is not written
\* over; those documents stay owed.
ExportPending(d) ==
    /\ pass[d].phase = "write"
    /\ LET at == pass[d].to
           done == {p \in owed[d] \ unread[d] : Renderable(d, p, at)}
           new == {p \in done : Rendered(d, p, at) # doc[p]}
       IN /\ record' = [record EXCEPT ![d] = at]
          /\ poked' = poked \ {d}
          /\ doc' = [p \in Docs |-> IF p \in new THEN Rendered(d, p, at) ELSE doc[p]]
          /\ owed' = [owed EXCEPT ![d] = @ \ done]
          /\ unread' = [e \in Devices |-> IF e = d THEN unread[e] ELSE unread[e] \cup new]
    /\ pass' = [pass EXCEPT ![d] = Idle]
    /\ UNCHANGED <<row, store, vault, taking, stamps>>

---------------------------------------------------------------------------
(* What arrives *)

\* write_image: a name this device has a record of is a picture it has.
PictureOf(d, name) ==
    IF record[d] # Nowhere /\ record[d].name = name THEN Known ELSE name

\* A page that misses a row or states an older one is owed a write.
Merge(d, p) ==
    /\ pass[d] = Idle /\ taking[d] = Nowhere /\ p \in unread[d]
    /\ LET line == doc[p]
           newer == {n \in Nodes : line[n] # NoRow
                                   /\ (row[d][n] # NoRow => line[n].stamp > row[d][n].stamp)}
           short == \E n \in Present(d) : IF line[n] = NoRow THEN n \in In(d, p)
                                          ELSE line[n].stamp < row[d][n].stamp
       IN /\ row' = [row EXCEPT ![d] = [n \in Nodes |->
                         IF n \in newer
                         THEN [stamp |-> line[n].stamp, trashed |-> p = Bin,
                               picture |-> PictureOf(d, line[n].name)]
                         ELSE @[n]]]
          /\ owed' = [owed EXCEPT ![d] = @ \cup (IF short /\ p # Bin THEN {p} ELSE {})]
          /\ poked' = IF newer # {} \/ short THEN poked \cup {d} ELSE poked
    /\ unread' = [unread EXCEPT ![d] = @ \ {p}]
    /\ UNCHANGED <<record, store, vault, doc, pass, taking, stamps>>

\* Mutant: bytes nobody waits for are taken out of the store again.
ImportedIfWanted(d, f) == IF Waiting(d, f.name) = {} THEN store ELSE store \cup {d}

\* The bytes are put into the store and kept there, whoever waits for them.
Imported(d, f) == store \cup {d}

\* The watch comes to a file the database has no record of, and reads it.
LookAt(d, f) ==
    /\ pass[d] = Idle /\ taking[d] = Nowhere
    /\ f \in vault /\ f # record[d]
    /\ taking' = [taking EXCEPT ![d] = f]
    /\ store' = Imported(d, f)
    /\ UNCHANGED <<row, record, vault, doc, unread, owed, poked, pass, stamps>>

\* Mutant: a row in the trash learns nothing.
LearningLive(d, f) == {n \in Waiting(d, f.name) : ~row[d][n].trashed}

\* Who learns which picture it is: the rows in the trash too.
Learning(d, f) == Waiting(d, f.name)

ResolveAsset(d) ==
    /\ pass[d] = Idle /\ taking[d] # Nowhere
    /\ row' = [row EXCEPT ![d] = [n \in Nodes |->
                  IF n \in Learning(d, taking[d]) THEN [@[n] EXCEPT !.picture = Known] ELSE @[n]]]
    /\ record' = [record EXCEPT ![d] = taking[d]]
    /\ taking' = [taking EXCEPT ![d] = Nowhere]
    /\ poked' = IF \A n \in Learning(d, taking[d]) : row[d][n].trashed THEN poked
                ELSE poked \cup {d}
    /\ UNCHANGED <<store, vault, doc, unread, owed, pass, stamps>>

---------------------------------------------------------------------------
(* The app *)

\* A pass that dies has moved what it has moved, and has recorded nothing.  The
\* start that follows asks for one.
Die(d) ==
    /\ pass[d] # Idle \/ taking[d] # Nowhere
    /\ pass' = [pass EXCEPT ![d] = Idle]
    /\ taking' = [taking EXCEPT ![d] = Nowhere]
    /\ poked' = poked \cup {d}
    /\ UNCHANGED <<row, record, store, vault, doc, unread, owed, stamps>>

\* A close removes from the store what no row knows.
Close(d) ==
    /\ d \in Closes /\ pass[d] = Idle /\ owed[d] \subseteq unread[d]
    /\ store' = IF Holders(d) = {} THEN store \ {d} ELSE store
    /\ taking' = [taking EXCEPT ![d] = Nowhere]
    /\ store' # store
    /\ poked' = poked \cup {d}
    /\ UNCHANGED <<row, record, vault, doc, unread, owed, pass, stamps>>

Next ==
    \E d \in Devices :
      \/ \E n \in Nodes : Paste(d, n) \/ Alter(d, n) \/ TakeBack(d, n)
      \/ Delete(d)
      \/ Carry(d) \/ Tidy(d) \/ ExportPending(d)
      \/ \E p \in Docs : Merge(d, p)
      \/ \E f \in vault : LookAt(d, f)
      \/ ResolveAsset(d)
      \/ Die(d) \/ Close(d)

Spec == Init /\ [][Next]_vars

---------------------------------------------------------------------------
(* Properties *)

\* A row that says which picture it shows can show it: the bytes are in this
\* app's own store, "where they stay".  They come there before the record and
\* before the row, and a name in a line is taken for a picture only because of
\* the record.
KnownMeansHeld == \A d \in Devices : Holders(d) # {} => d \in store

\* Nothing is owed, unread or under way, and no file in the folder would be an
\* answer to anybody.
AtRest ==
    /\ poked = {}
    /\ \A d \in Devices : owed[d] = {} /\ unread[d] = {} /\ pass[d] = Idle /\ taking[d] = Nowhere
    /\ \A d \in Devices, f \in vault : f # record[d] => Waiting(d, f.name) = {}

\* Once everything has been carried, merged and taken in, no row waits for a
\* picture the folder has: no placeholder stands for ever over a picture that is
\* there, on a page or in the trash.
QuietMeansFound ==
    AtRest /\ vault # {} => \A d \in Devices : Present(d) = Holders(d)

\* The folder loses its last copy only by the attachment list: never by a pass
\* that moves it, wherever the pass dies and whatever its record remembers.
NeverNowhere ==
    [][vault # {} /\ vault' = {} =>
         \E d \in Devices : record[d] # Nowhere /\ record'[d] = Nowhere]_vars
=============================================================================
