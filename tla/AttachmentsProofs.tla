------------------------- MODULE AttachmentsProofs -------------------------
(***************************************************************************)
(* For any number of devices, nodes and changes: a row that knows its      *)
(* picture has the bytes, as long as no app tidies its store on closing;   *)
(* and the folder never loses its last copy to a pass, as long as the      *)
(* passes of different devices do not overlap.  The state has its type     *)
(* whatever they do.                                                       *)
(***************************************************************************)
EXTENDS Attachments, WellFoundedInduction, TLAPS

\* Names are left out of the types: the argument never looks at one.
IsRow(r) == r = [stamp |-> r.stamp, trashed |-> r.trashed, picture |-> r.picture]

IsPass(p) == p = Idle \/ (p.phase \in {"tidy", "write"} /\ p = [phase |-> p.phase, to |-> p.to])

RowShaped ==
    /\ row = [d \in Devices |-> [n \in Nodes |-> row[d][n]]]
    /\ \A d \in Devices, n \in Nodes : row[d][n] = NoRow \/ IsRow(row[d][n])

PassShaped ==
    /\ pass = [d \in Devices |-> pass[d]]
    /\ \A d \in Devices : IsPass(pass[d])

Shaped ==
    /\ RowShaped /\ PassShaped
    /\ record = [d \in Devices |-> record[d]]
    /\ taking = [d \in Devices |-> taking[d]]

\* What a file is called is never what stands for a picture that is known.
IsName(x) == x # Known

Named ==
    /\ doc = [q \in Docs |-> [n \in Nodes |-> doc[q][n]]]
    /\ \A q \in Docs, n \in Nodes : doc[q][n] # NoRow => IsName(doc[q][n].name)
    /\ \A f \in vault : IsName(f.name)
    /\ \A d \in Devices :
         /\ record[d] # Nowhere => IsName(record[d].name)
         /\ taking[d] # Nowhere => IsName(taking[d].name)
         /\ pass[d] # Idle /\ pass[d].to # Nowhere => IsName(pass[d].to.name)

\* The bytes come into the store before anything speaks of them: a record, a file
\* being taken in, a pass that will record where they are.
Spoken(d) ==
    \/ Holders(d) # {}
    \/ record[d] # Nowhere
    \/ taking[d] # Nowhere
    \/ pass[d] # Idle /\ pass[d].to # Nowhere

StoreFirst == \A d \in Devices : Spoken(d) => d \in store

\* A pass that tidies has put its copy where it goes, and nobody else is about.
CopyFirst ==
    /\ \A d \in Devices : pass[d].phase = "tidy" => pass[d].to \in vault
    /\ \A d, e \in Devices : pass[d] # Idle /\ pass[e] # Idle => d = e

LEMMA InitShaped == Init => Shaped /\ Named /\ StoreFirst /\ CopyFirst
<1> SUFFICES ASSUME Init PROVE Shaped /\ Named /\ StoreFirst /\ CopyFirst
  OBVIOUS
<1>1. \A d \in Devices : /\ record[d] = Nowhere /\ taking[d] = Nowhere /\ pass[d] = Idle
                         /\ \A n \in Nodes : row[d][n] = NoRow
  BY DEF Init
<1>2. Shaped
  BY <1>1 DEF Init, Shaped, RowShaped, PassShaped, IsPass
<1>3. StoreFirst
  BY <1>1 DEF StoreFirst, Spoken, Holders, Present
<1>4. CopyFirst
  BY <1>1 DEF CopyFirst, Idle
<1>5. Named
  BY <1>1 DEF Init, Named
<1> QED
  BY <1>2, <1>3, <1>4, <1>5

-----------------------------------------------------------------------------
(* Shapes.                                                                 *)

\* A row whose stamp and place are new is a row, with the picture it had.
LEMMA AlteredRow ==
    ASSUME NEW x, IsRow(x), NEW s, NEW b
    PROVE  /\ IsRow([x EXCEPT !.stamp = s, !.trashed = b])
           /\ [x EXCEPT !.stamp = s, !.trashed = b].picture = x.picture
<1> DEFINE y == [x EXCEPT !.stamp = s]
<1>1. y = [stamp |-> s, trashed |-> x.trashed, picture |-> x.picture]
  BY DEF IsRow
<1>2. [x EXCEPT !.stamp = s, !.trashed = b] = [y EXCEPT !.trashed = b]
  BY DEF IsRow
<1> HIDE DEF y
<1>3. [y EXCEPT !.trashed = b] = [stamp |-> s, trashed |-> b, picture |-> x.picture]
  BY <1>1
<1> QED
  BY <1>2, <1>3 DEF IsRow

LEMMA RowStaysShaped == RowShaped /\ [Next]_vars => RowShaped'
<1> SUFFICES ASSUME RowShaped, [Next]_vars PROVE RowShaped'
  OBVIOUS
<1>1. ASSUME NEW d \in Devices, NEW n \in Nodes, NEW r, r = NoRow \/ IsRow(r),
             row' = [row EXCEPT ![d][n] = r]
      PROVE  RowShaped'
  BY <1>1 DEF RowShaped
<1>2. ASSUME NEW d \in Devices, NEW n \in Nodes, Paste(d, n) \/ Alter(d, n) \/ TakeBack(d, n)
      PROVE  RowShaped'
  <2>1. CASE Paste(d, n)
    <3> DEFINE r == [stamp |-> stamps + 1, trashed |-> FALSE, picture |-> Known]
    <3>1. row' = [row EXCEPT ![d][n] = r]
      BY <2>1 DEF Paste, Change
    <3>2. IsRow(r)
      BY DEF IsRow
    <3> HIDE DEF r
    <3> QED
      BY <1>1, <3>1, <3>2
  <2>2. CASE Alter(d, n)
    <3>1. PICK trashed \in BOOLEAN :
            row' = [row EXCEPT ![d][n] =
                      [row[d][n] EXCEPT !.stamp = stamps + 1, !.trashed = trashed]]
      BY <2>2 DEF Alter, Change
    <3> DEFINE r == [row[d][n] EXCEPT !.stamp = stamps + 1, !.trashed = trashed]
    <3>2. IsRow(row[d][n])
      BY <2>2 DEF Alter, Present, RowShaped
    <3>3. IsRow(r)
      BY <3>2, AlteredRow
    <3>4. row' = [row EXCEPT ![d][n] = r]
      BY <3>1
    <3> HIDE DEF r
    <3> QED
      BY <1>1, <3>3, <3>4
  <2>3. CASE TakeBack(d, n)
    <3>1. row' = [row EXCEPT ![d][n] = NoRow]
      BY <2>3 DEF TakeBack, Change
    <3> QED
      BY <1>1, <3>1
  <2> QED
    BY <1>2, <2>1, <2>2, <2>3
<1>3. ASSUME NEW d \in Devices, NEW f,
             \A n \in Nodes : f[n] = NoRow \/ IsRow(f[n]),
             f = [n \in Nodes |-> f[n]],
             row' = [row EXCEPT ![d] = f]
      PROVE  RowShaped'
  BY <1>3 DEF RowShaped
<1>4. ASSUME NEW d \in Devices, NEW q \in Docs, Merge(d, q) PROVE RowShaped'
  <2>1. PICK newer : row' = [row EXCEPT ![d] = [n \in Nodes |->
                               IF n \in newer
                               THEN [stamp |-> doc[q][n].stamp, trashed |-> q = Bin,
                                     picture |-> PictureOf(d, doc[q][n].name)]
                               ELSE @[n]]]
    BY <1>4 DEF Merge
  <2> DEFINE f == [n \in Nodes |->
                     IF n \in newer
                     THEN [stamp |-> doc[q][n].stamp, trashed |-> q = Bin,
                           picture |-> PictureOf(d, doc[q][n].name)]
                     ELSE row[d][n]]
  <2>2. row' = [row EXCEPT ![d] = f]
    BY <2>1
  <2>3. \A n \in Nodes : f[n] = NoRow \/ IsRow(f[n])
    BY DEF IsRow, RowShaped
  <2>4. f = [n \in Nodes |-> f[n]]
    OBVIOUS
  <2> HIDE DEF f
  <2> QED
    BY <1>3, <2>2, <2>3, <2>4
<1>5. ASSUME NEW d \in Devices, ResolveAsset(d) PROVE RowShaped'
  <2> DEFINE f == [n \in Nodes |->
                     IF n \in Learning(d, taking[d]) THEN [row[d][n] EXCEPT !.picture = Known]
                     ELSE row[d][n]]
  <2>1. row' = [row EXCEPT ![d] = f]
    BY <1>5 DEF ResolveAsset
  <2>2. ASSUME NEW n \in Nodes PROVE f[n] = NoRow \/ IsRow(f[n])
    <3>1. CASE n \in Learning(d, taking[d])
      <4>1. IsRow(row[d][n])
        BY <3>1 DEF Learning, Waiting, Present, RowShaped
      <4>2. f[n] = [row[d][n] EXCEPT !.picture = Known]
        BY <3>1
      <4> QED
        BY <4>1, <4>2 DEF IsRow
    <3>2. CASE n \notin Learning(d, taking[d])
      BY <3>2 DEF RowShaped
    <3> QED
      BY <3>1, <3>2
  <2>3. f = [n \in Nodes |-> f[n]]
    OBVIOUS
  <2> HIDE DEF f
  <2> QED
    BY <1>3, <2>1, <2>2, <2>3
<1>6. CASE UNCHANGED row
  BY <1>6 DEF RowShaped
<1>7. ASSUME NEW d \in Devices,
             \/ Delete(d) \/ Carry(d) \/ Tidy(d) \/ ExportPending(d)
             \/ (\E f \in vault : LookAt(d, f)) \/ Die(d) \/ Close(d)
      PROVE  UNCHANGED row
  BY <1>7 DEF Delete, Carry, Tidy, ExportPending, LookAt, Die, Close
<1> QED
  BY <1>2, <1>4, <1>5, <1>6, <1>7 DEF Next, vars

LEMMA PassStaysShaped == PassShaped /\ [Next]_vars => PassShaped'
<1> SUFFICES ASSUME PassShaped, [Next]_vars PROVE PassShaped'
  OBVIOUS
<1>1. ASSUME NEW d \in Devices, NEW x, IsPass(x), pass' = [pass EXCEPT ![d] = x]
      PROVE  PassShaped'
  BY <1>1 DEF PassShaped
<1>2. ASSUME NEW d \in Devices, Carry(d) PROVE PassShaped'
  <2>1. \E to : \/ pass' = [pass EXCEPT ![d] = [phase |-> "tidy", to |-> to]]
               \/ pass' = [pass EXCEPT ![d] = [phase |-> "write", to |-> to]]
    BY <1>2 DEF Carry
  <2> QED
    BY <1>1, <2>1 DEF IsPass
<1>3. ASSUME NEW d \in Devices, Tidy(d) PROVE PassShaped'
  <2>1. CASE pass' = [pass EXCEPT ![d] = [phase |-> "write", to |-> record[d]]]
    BY <1>1, <2>1 DEF IsPass
  <2>2. CASE pass' = [pass EXCEPT ![d].phase = "write"]
    <3> DEFINE x == [pass[d] EXCEPT !.phase = "write"]
    <3>1. IsPass(pass[d]) /\ pass[d] # Idle
      BY <1>3 DEF Tidy, Idle, PassShaped
    <3>2. x = [phase |-> "write", to |-> pass[d].to]
      BY <3>1 DEF IsPass
    <3>3. pass' = [pass EXCEPT ![d] = x]
      BY <2>2
    <3> HIDE DEF x
    <3> QED
      BY <1>1, <3>2, <3>3 DEF IsPass
  <2> QED
    BY <1>3, <2>1, <2>2 DEF Tidy
<1>4. ASSUME NEW d \in Devices, ExportPending(d) \/ Die(d) PROVE PassShaped'
  <2>1. pass' = [pass EXCEPT ![d] = Idle]
    BY <1>4 DEF ExportPending, Die
  <2> QED
    BY <1>1, <2>1 DEF IsPass
<1>5. CASE UNCHANGED pass
  BY <1>5 DEF PassShaped
<1>6. ASSUME NEW d \in Devices,
             \/ (\E n \in Nodes : Paste(d, n) \/ Alter(d, n) \/ TakeBack(d, n))
             \/ Delete(d) \/ (\E q \in Docs : Merge(d, q)) \/ (\E f \in vault : LookAt(d, f))
             \/ ResolveAsset(d) \/ Close(d)
      PROVE  UNCHANGED pass
  BY <1>6 DEF Paste, Alter, TakeBack, Delete, Merge, LookAt, ResolveAsset, Close
<1> QED
  BY <1>2, <1>3, <1>4, <1>5, <1>6 DEF Next, vars

LEMMA ShapedStays == Shaped /\ [Next]_vars => Shaped'
<1> SUFFICES ASSUME Shaped, [Next]_vars PROVE Shaped'
  OBVIOUS
<1>1. RowShaped' /\ PassShaped'
  BY RowStaysShaped, PassStaysShaped DEF Shaped
<1>2. record' = [d \in Devices |-> record'[d]]
  <2>1. ASSUME NEW d \in Devices, Delete(d) PROVE record' = [record EXCEPT ![d] = Nowhere]
    BY <2>1 DEF Delete
  <2>2. ASSUME NEW d \in Devices, ExportPending(d)
        PROVE  record' = [record EXCEPT ![d] = pass[d].to]
    BY <2>2 DEF ExportPending
  <2>3. ASSUME NEW d \in Devices, ResolveAsset(d)
        PROVE  record' = [record EXCEPT ![d] = taking[d]]
    BY <2>3 DEF ResolveAsset
  <2>4. ASSUME NEW d \in Devices,
               \/ (\E n \in Nodes : Paste(d, n) \/ Alter(d, n) \/ TakeBack(d, n))
               \/ Carry(d) \/ Tidy(d) \/ (\E q \in Docs : Merge(d, q))
               \/ (\E f \in vault : LookAt(d, f)) \/ Die(d) \/ Close(d)
        PROVE  UNCHANGED record
    BY <2>4 DEF Paste, Alter, TakeBack, Carry, Tidy, Merge, LookAt, Die, Close
  <2>5. record' = record \/ \E d \in Devices : \E x : record' = [record EXCEPT ![d] = x]
    BY <2>1, <2>2, <2>3, <2>4 DEF Next, vars
  <2> QED
    BY <2>5 DEF Shaped
<1>3. taking' = [d \in Devices |-> taking'[d]]
  <2>1. taking' = taking \/ \E d \in Devices, x \in {Nowhere} \cup vault :
                               taking' = [taking EXCEPT ![d] = x]
    BY DEF Next, vars, Paste, Alter, TakeBack, Delete, Carry, Tidy, ExportPending, Merge, LookAt,
           ResolveAsset, Die, Close
  <2> QED
    BY <2>1 DEF Shaped
<1> QED
  BY <1>1, <1>2, <1>3 DEF Shaped

-----------------------------------------------------------------------------
(* Names.                                                                  *)

LEMMA ChosenIsName ==
    ASSUME NEW H, H \subseteq Nodes, H # {}
    PROVE  IsName(ChosenName(H))
<1> DEFINE S == {NameOf[n] : n \in H}
<1>1. S \subseteq Nat /\ S # {}
  BY AttachmentsAssumption
<1>2. PICK x \in S : \A y \in S : x <= y
  <2> HIDE DEF S
  <2> DEFINE R == OpToRel(<, Nat)
  <2>1. \A x, y \in Nat : y < x => <<y, x>> \in R
    BY DEF OpToRel
  <2>2. IsWellFoundedOn(R, Nat)
    BY NatLessThanWellFounded
  <2> HIDE DEF R
  <2>3. PICK x \in S : \A y \in S : ~ (<<y, x>> \in R)
    BY <1>1, <2>2, WFMin
  <2>4. \A y \in S : ~ (y < x)
    BY <1>1, <2>1, <2>3
  <2>5. \A y \in S : x <= y
    BY <1>1, <2>4
  <2> QED
    BY <2>5
<1>3. ChosenName(H) \in S
  BY <1>2 DEF ChosenName, Min
<1> QED
  BY <1>1, <1>3, AttachmentsAssumption DEF IsName

LEMMA StatedIsName ==
    ASSUME NEW d \in Devices, NEW n \in Present(d), NEW at, at # Nowhere => IsName(at.name)
    PROVE  IsName(Stated(d, n, at))
<1>1. CASE row[d][n].picture # Known
  BY <1>1 DEF Stated, IsName
<1>2. CASE row[d][n].picture = Known /\ at # Nowhere
  BY <1>2 DEF Stated
<1>3. CASE row[d][n].picture = Known /\ at = Nowhere
  <2>1. Holders(d) \subseteq Nodes /\ Holders(d) # {}
    BY <1>3 DEF Holders, Present
  <2> QED
    BY <1>3, <2>1, ChosenIsName DEF Stated
<1> QED
  BY <1>1, <1>2, <1>3

LEMMA PlanIsName ==
    ASSUME Named, NEW d \in Devices, PlanPlacement(d) # Nowhere
    PROVE  IsName(PlanPlacement(d).name)
<1>1. CASE Holders(d) = {}
  BY <1>1 DEF PlanPlacement, Named
<1>2. CASE Holders(d) # {}
  <2>1. PlanPlacement(d).name = ChosenName(Holders(d))
    BY <1>2 DEF PlanPlacement
  <2>2. Holders(d) \subseteq Nodes
    BY DEF Holders, Present
  <2> QED
    BY <1>2, <2>1, <2>2, ChosenIsName
<1> QED
  BY <1>1, <1>2

LEMMA NamedStays == Shaped /\ Named /\ [Next]_vars => Named'
<1> SUFFICES ASSUME Shaped, Named, [Next]_vars PROVE Named'
  OBVIOUS
<1>1. CASE UNCHANGED <<doc, vault, record, taking, pass>>
  BY <1>1 DEF Named
<1>2. ASSUME NEW d \in Devices, Delete(d) PROVE Named'
  BY <1>2 DEF Delete, Named, Shaped
<1>3. ASSUME NEW d \in Devices, Carry(d) PROVE Named'
  <2>1. UNCHANGED <<doc, record, taking>>
    BY <1>3 DEF Carry
  <2>2. PICK to \in {PlanPlacement(d), record[d]} :
          /\ vault' \in {vault, vault \cup {to}}
          /\ vault' # vault => to = PlanPlacement(d) /\ Holders(d) # {}
          /\ \/ pass' = [pass EXCEPT ![d] = [phase |-> "tidy", to |-> to]]
             \/ pass' = [pass EXCEPT ![d] = [phase |-> "write", to |-> to]]
    BY <1>3 DEF Carry, Copied
  <2>3. to # Nowhere => IsName(to.name)
    BY <2>2, PlanIsName DEF Named
  <2>4. vault' # vault => IsName(to.name)
    <3> SUFFICES ASSUME vault' # vault PROVE IsName(to.name)
      OBVIOUS
    <3>1. to.name = ChosenName(Holders(d)) /\ Holders(d) \subseteq Nodes /\ Holders(d) # {}
      BY <2>2 DEF PlanPlacement, Holders, Present
    <3> QED
      BY <3>1, ChosenIsName
  <2>5. \A f \in vault' : IsName(f.name)
    BY <2>2, <2>4 DEF Named
  <2>6. \A e \in Devices : pass'[e] # Idle /\ pass'[e].to # Nowhere => IsName(pass'[e].to.name)
    <3>1. \A e \in Devices : e # d => pass'[e] = pass[e]
      BY <2>2 DEF Shaped, PassShaped
    <3>2. pass'[d].to = to
      BY <2>2 DEF Shaped, PassShaped
    <3> QED
      BY <2>3, <3>1, <3>2 DEF Named
  <2> QED
    BY <2>1, <2>5, <2>6 DEF Named
<1>4. ASSUME NEW d \in Devices, Tidy(d) PROVE Named'
  <2>1. UNCHANGED <<doc, record, taking>> /\ vault' \subseteq vault
    BY <1>4 DEF Tidy, Tidied
  <2>2. pass[d] # Idle /\ IsPass(pass[d])
    BY <1>4 DEF Tidy, Idle, Shaped, PassShaped
  <2>3. \A e \in Devices : e # d => pass'[e] = pass[e]
    BY <1>4 DEF Tidy, Shaped, PassShaped
  <2>4. pass'[d].to \in {pass[d].to, record[d]}
    <3>1. CASE pass' = [pass EXCEPT ![d] = [phase |-> "write", to |-> record[d]]]
      BY <3>1 DEF Shaped, PassShaped
    <3>2. CASE pass' = [pass EXCEPT ![d].phase = "write"]
      <4>1. pass'[d] = [pass[d] EXCEPT !.phase = "write"]
        BY <3>2 DEF Shaped, PassShaped
      <4> QED
        BY <2>2, <4>1 DEF IsPass
    <3> QED
      BY <1>4, <3>1, <3>2 DEF Tidy
  <2> QED
    BY <2>1, <2>2, <2>3, <2>4 DEF Named
<1>5. ASSUME NEW d \in Devices, ExportPending(d) PROVE Named'
  <2> DEFINE at == pass[d].to
  <2>1. UNCHANGED <<vault, taking>> /\ record' = [record EXCEPT ![d] = at]
        /\ pass' = [pass EXCEPT ![d] = Idle]
    BY <1>5 DEF ExportPending
  <2>2. PICK new : doc' = [q \in Docs |-> IF q \in new THEN Rendered(d, q, at) ELSE doc[q]]
    BY <1>5 DEF ExportPending
  <2>3. at # Nowhere => IsName(at.name)
    BY <1>5 DEF ExportPending, Idle, Named
  <2> HIDE DEF at
  <2>4. ASSUME NEW q \in Docs, NEW n \in Nodes, Rendered(d, q, at)[n] # NoRow
        PROVE  IsName(Rendered(d, q, at)[n].name)
    <3>1. n \in Present(d)
      BY <2>4 DEF Rendered, In
    <3>2. Rendered(d, q, at)[n].name = Stated(d, n, at)
      BY <2>4 DEF Rendered
    <3> QED
      BY <2>3, <3>1, <3>2, StatedIsName
  <2>5. \A q \in Docs : Rendered(d, q, at) = [n \in Nodes |-> Rendered(d, q, at)[n]]
    BY DEF Rendered
  <2>6. \A q \in Docs : doc'[q] \in {Rendered(d, q, at), doc[q]}
    BY <2>2
  <2>7. doc' = [q \in Docs |-> [n \in Nodes |-> doc'[q][n]]]
    <3>1. \A q \in Docs : doc'[q] = [n \in Nodes |-> doc'[q][n]]
      BY <2>5, <2>6 DEF Named
    <3> QED
      BY <2>2, <3>1
  <2>8. \A q \in Docs, n \in Nodes : doc'[q][n] # NoRow => IsName(doc'[q][n].name)
    BY <2>4, <2>6 DEF Named
  <2>9. \A e \in Devices : /\ record'[e] # Nowhere => IsName(record'[e].name)
                           /\ pass'[e] \in {Idle, pass[e]}
    BY <2>1, <2>3 DEF Named, Shaped, PassShaped
  <2> QED
    BY <2>1, <2>7, <2>8, <2>9 DEF Named
<1>6. ASSUME NEW d \in Devices, ResolveAsset(d) PROVE Named'
  BY <1>6 DEF ResolveAsset, Named, Shaped
<1>7. ASSUME NEW d \in Devices, NEW f \in vault, LookAt(d, f) PROVE Named'
  BY <1>7 DEF LookAt, Named, Shaped
<1>8. ASSUME NEW d \in Devices, Die(d) \/ Close(d) PROVE Named'
  <2>1. UNCHANGED <<doc, vault, record>> /\ taking' = [taking EXCEPT ![d] = Nowhere]
        /\ pass' \in {pass, [pass EXCEPT ![d] = Idle]}
    BY <1>8 DEF Die, Close
  <2>2. \A e \in Devices : pass'[e] \in {Idle, pass[e]} /\ taking'[e] \in {Nowhere, taking[e]}
    BY <2>1 DEF Shaped, PassShaped
  <2> QED
    BY <2>1, <2>2 DEF Named
<1>9. ASSUME NEW d \in Devices,
             \/ (\E n \in Nodes : Paste(d, n) \/ Alter(d, n) \/ TakeBack(d, n))
             \/ (\E q \in Docs : Merge(d, q))
      PROVE  UNCHANGED <<doc, vault, record, taking, pass>>
  BY <1>9 DEF Paste, Alter, TakeBack, Merge
<1> QED
  BY <1>1, <1>2, <1>3, <1>4, <1>5, <1>6, <1>7, <1>8, <1>9 DEF Next, vars

-----------------------------------------------------------------------------
(* The bytes first.                                                        *)

\* Whoever comes to know the picture has its bytes, or had heard of it before.
LEMMA NewHolders ==
    ASSUME Shaped, Named, Next, NEW d \in Devices, Holders(d)' # {}
    PROVE  \/ Spoken(d)
           \/ \E n \in Nodes : Paste(d, n)
<1>1. PICK n \in Nodes : row'[d][n] # NoRow /\ row'[d][n].picture = Known
  BY DEF Holders, Present
<1>2. CASE row[d][n] # NoRow /\ row[d][n].picture = Known
  BY <1>2 DEF Spoken, Holders, Present
<1>3. CASE ~ (row[d][n] # NoRow /\ row[d][n].picture = Known)
  <2>1. row'[d] # row[d]
    BY <1>1, <1>3
  <2>2. ASSUME NEW e \in Devices, NEW m \in Nodes, TakeBack(e, m) PROVE FALSE
    <3>1. row' = [row EXCEPT ![e][m] = NoRow]
      BY <2>2 DEF TakeBack, Change
    <3> QED
      BY <1>1, <1>3, <3>1 DEF Shaped, RowShaped
  <2>3. ASSUME NEW e \in Devices, NEW m \in Nodes, Alter(e, m) PROVE FALSE
    <3>1. PICK trashed \in BOOLEAN :
            row' = [row EXCEPT ![e][m] =
                      [row[e][m] EXCEPT !.stamp = stamps + 1, !.trashed = trashed]]
      BY <2>3 DEF Alter, Change
    <3>2. row[e][m] # NoRow /\ IsRow(row[e][m])
      BY <2>3 DEF Alter, Present, Shaped, RowShaped
    <3> DEFINE r == [row[e][m] EXCEPT !.stamp = stamps + 1, !.trashed = trashed]
    <3>3. r.picture = row[e][m].picture
      BY <3>2, AlteredRow
    <3>4. row' = [row EXCEPT ![e][m] = r]
      BY <3>1
    <3> HIDE DEF r
    <3> QED
      BY <1>1, <1>3, <3>2, <3>3, <3>4 DEF Shaped, RowShaped
  <2>4. ASSUME NEW e \in Devices, NEW m \in Nodes, Paste(e, m) PROVE e = d
    <3>1. row'[d] = row[d] \/ e = d
      BY <2>4 DEF Paste, Change, Shaped, RowShaped
    <3> QED
      BY <2>1, <3>1
  <2>5. ASSUME NEW e \in Devices, NEW q \in Docs, Merge(e, q) PROVE Spoken(d)
    <3>1. e = d
      <4>1. row'[d] = row[d] \/ e = d
        BY <2>5 DEF Merge, Shaped, RowShaped
      <4> QED
        BY <2>1, <4>1
    <3>2. \/ doc[q][n] # NoRow /\ row'[d][n].picture = PictureOf(d, doc[q][n].name)
          \/ row'[d][n] = row[d][n]
      BY <2>5, <3>1 DEF Merge, Shaped, RowShaped
    <3>3. doc[q][n] # NoRow /\ PictureOf(d, doc[q][n].name) = Known
      BY <1>1, <1>3, <3>2
    <3>4. IsName(doc[q][n].name)
      BY <3>3 DEF Named
    <3>5. record[d] # Nowhere
      BY <3>3, <3>4 DEF PictureOf, IsName
    <3> QED
      BY <3>5 DEF Spoken
  <2>6. ASSUME NEW e \in Devices, ResolveAsset(e) PROVE Spoken(d)
    <3>1. row'[d] = row[d] \/ e = d
      BY <2>6 DEF ResolveAsset, Shaped, RowShaped
    <3>2. taking[d] # Nowhere
      BY <2>1, <2>6, <3>1 DEF ResolveAsset
    <3> QED
      BY <3>2 DEF Spoken
  <2>7. ASSUME NEW e \in Devices,
               \/ Delete(e) \/ Carry(e) \/ Tidy(e) \/ ExportPending(e)
               \/ (\E f \in vault : LookAt(e, f)) \/ Die(e) \/ Close(e)
        PROVE  UNCHANGED row
    BY <2>7 DEF Delete, Carry, Tidy, ExportPending, LookAt, Die, Close
  <2> QED
    BY <2>1, <2>2, <2>3, <2>4, <2>5, <2>6, <2>7 DEF Next
<1> QED
  BY <1>2, <1>3

LEMMA NewRecord ==
    ASSUME Shaped, Next, NEW d \in Devices, record'[d] # Nowhere
    PROVE  Spoken(d)
<1>1. ASSUME NEW e \in Devices, Delete(e) PROVE record'[d] \in {record[d], Nowhere}
  BY <1>1 DEF Delete, Shaped
<1>2. ASSUME NEW e \in Devices, ExportPending(e)
      PROVE  record'[d] = record[d] \/ (pass[d] # Idle /\ record'[d] = pass[d].to)
  BY <1>2 DEF ExportPending, Idle, Shaped
<1>3. ASSUME NEW e \in Devices, ResolveAsset(e) PROVE record'[d] \in {record[d], taking[d]}
  BY <1>3 DEF ResolveAsset, Shaped
<1>4. ASSUME NEW e \in Devices,
             \/ (\E n \in Nodes : Paste(e, n) \/ Alter(e, n) \/ TakeBack(e, n))
             \/ Carry(e) \/ Tidy(e) \/ (\E q \in Docs : Merge(e, q))
             \/ (\E f \in vault : LookAt(e, f)) \/ Die(e) \/ Close(e)
      PROVE  UNCHANGED record
  BY <1>4 DEF Paste, Alter, TakeBack, Carry, Tidy, Merge, LookAt, Die, Close
<1> QED
  BY <1>1, <1>2, <1>3, <1>4 DEF Next, Spoken

LEMMA NewTaking ==
    ASSUME Shaped, Next, NEW d \in Devices, taking'[d] # Nowhere
    PROVE  Spoken(d) \/ d \in store'
<1>1. ASSUME NEW e \in Devices, NEW f \in vault, LookAt(e, f)
      PROVE  taking'[d] = taking[d] \/ d \in store'
  BY <1>1 DEF LookAt, Imported, Shaped
<1>2. ASSUME NEW e \in Devices, ResolveAsset(e) \/ Die(e) \/ Close(e)
      PROVE  taking'[d] \in {taking[d], Nowhere}
  BY <1>2 DEF ResolveAsset, Die, Close, Shaped
<1>3. ASSUME NEW e \in Devices,
             \/ (\E n \in Nodes : Paste(e, n) \/ Alter(e, n) \/ TakeBack(e, n))
             \/ Delete(e) \/ Carry(e) \/ Tidy(e) \/ ExportPending(e)
             \/ (\E q \in Docs : Merge(e, q))
      PROVE  UNCHANGED taking
  BY <1>3 DEF Paste, Alter, TakeBack, Delete, Carry, Tidy, ExportPending, Merge
<1> QED
  BY <1>1, <1>2, <1>3 DEF Next, Spoken

\* What a step of `Tidy` leaves of the pass.
LEMMA TidiedPass ==
    ASSUME Shaped, NEW d \in Devices, Tidy(d)
    PROVE  /\ pass[d] # Idle
           /\ \A e \in Devices : e # d => pass'[e] = pass[e]
           /\ pass'[d].phase = "write"
           /\ pass'[d].to \in {pass[d].to, record[d]}
<1>1. pass[d] # Idle /\ IsPass(pass[d])
  BY DEF Tidy, Idle, Shaped, PassShaped
<1>2. \A e \in Devices : e # d => pass'[e] = pass[e]
  BY DEF Tidy, Shaped, PassShaped
<1>3. pass'[d].phase = "write" /\ pass'[d].to \in {pass[d].to, record[d]}
  <2>1. CASE pass' = [pass EXCEPT ![d] = [phase |-> "write", to |-> record[d]]]
    BY <2>1 DEF Shaped, PassShaped
  <2>2. CASE pass' = [pass EXCEPT ![d].phase = "write"]
    <3>1. pass'[d] = [pass[d] EXCEPT !.phase = "write"]
      BY <2>2 DEF Shaped, PassShaped
    <3> QED
      BY <1>1, <3>1 DEF IsPass
  <2> QED
    BY <2>1, <2>2 DEF Tidy
<1> QED
  BY <1>1, <1>2, <1>3

LEMMA NewPass ==
    ASSUME Shaped, Next, NEW d \in Devices, pass'[d] # Idle, pass'[d].to # Nowhere
    PROVE  Spoken(d)
<1>1. ASSUME NEW e \in Devices, Carry(e) PROVE Spoken(d)
  <2>1. CASE e = d
    <3>1. pass'[d].to \in {PlanPlacement(d), record[d]}
          /\ (pass'[d].to = record[d] \/ Holders(d) # {})
      BY <1>1, <2>1 DEF Carry, Shaped, PassShaped
    <3> QED
      BY <3>1 DEF Spoken
  <2>2. CASE e # d
    <3>1. pass'[d] = pass[d]
      BY <1>1, <2>2 DEF Carry, Shaped, PassShaped
    <3> QED
      BY <3>1 DEF Spoken
  <2> QED
    BY <2>1, <2>2
<1>2. ASSUME NEW e \in Devices, Tidy(e) PROVE Spoken(d)
  <2>1. CASE e = d
    BY <1>2, <2>1, TidiedPass DEF Spoken
  <2>2. CASE e # d
    BY <1>2, <2>2, TidiedPass DEF Spoken
  <2> QED
    BY <2>1, <2>2
<1>3. ASSUME NEW e \in Devices, ExportPending(e) \/ Die(e) PROVE Spoken(d)
  <2>1. pass'[d] \in {pass[d], Idle}
    BY <1>3 DEF ExportPending, Die, Shaped, PassShaped
  <2> QED
    BY <2>1 DEF Spoken
<1>4. ASSUME NEW e \in Devices,
             \/ (\E n \in Nodes : Paste(e, n) \/ Alter(e, n) \/ TakeBack(e, n))
             \/ Delete(e) \/ (\E q \in Docs : Merge(e, q)) \/ (\E f \in vault : LookAt(e, f))
             \/ ResolveAsset(e) \/ Close(e)
      PROVE  UNCHANGED pass
  BY <1>4 DEF Paste, Alter, TakeBack, Delete, Merge, LookAt, ResolveAsset, Close
<1>5. CASE UNCHANGED pass
  BY <1>5 DEF Spoken
<1> QED
  BY <1>1, <1>2, <1>3, <1>4, <1>5 DEF Next

LEMMA StoreGrows == Closes = {} /\ [Next]_vars => store \subseteq store'
<1> SUFFICES ASSUME Closes = {}, [Next]_vars PROVE store \subseteq store'
  OBVIOUS
<1>1. ASSUME NEW d \in Devices,
             (\E n \in Nodes : Paste(d, n)) \/ (\E f \in vault : LookAt(d, f))
      PROVE  store \subseteq store'
  BY <1>1 DEF Paste, LookAt, Imported
<1>2. ASSUME NEW d \in Devices,
             \/ (\E n \in Nodes : Alter(d, n) \/ TakeBack(d, n))
             \/ Delete(d) \/ Carry(d) \/ Tidy(d) \/ ExportPending(d)
             \/ (\E q \in Docs : Merge(d, q)) \/ ResolveAsset(d) \/ Die(d)
      PROVE  UNCHANGED store
  BY <1>2 DEF Alter, TakeBack, Delete, Carry, Tidy, ExportPending, Merge, ResolveAsset, Die
<1>3. ASSUME NEW d \in Devices, Close(d) PROVE FALSE
  BY <1>3 DEF Close
<1> QED
  BY <1>1, <1>2, <1>3 DEF Next, vars

LEMMA StoreFirstStays ==
    Closes = {} /\ Shaped /\ Named /\ StoreFirst /\ [Next]_vars => StoreFirst'
<1> SUFFICES ASSUME Closes = {}, Shaped, Named, StoreFirst, [Next]_vars,
                    NEW d \in Devices, Spoken(d)'
             PROVE  d \in store'
  BY DEF StoreFirst
<1>1. store \subseteq store'
  BY StoreGrows
<1>2. CASE UNCHANGED vars
  <2>1. Spoken(d)
    BY <1>2 DEF vars, Spoken, Holders, Present
  <2> QED
    BY <1>1, <2>1 DEF StoreFirst
<1>3. CASE Next
  <2>1. CASE Holders(d)' # {}
    <3>1. ASSUME NEW n \in Nodes, Paste(d, n) PROVE d \in store'
      BY <3>1 DEF Paste
    <3> QED
      BY <1>1, <1>3, <2>1, <3>1, NewHolders DEF StoreFirst
  <2>2. CASE record'[d] # Nowhere
    BY <1>1, <1>3, <2>2, NewRecord DEF StoreFirst
  <2>3. CASE taking'[d] # Nowhere
    BY <1>1, <1>3, <2>3, NewTaking DEF StoreFirst
  <2>4. CASE pass'[d] # Idle /\ pass'[d].to # Nowhere
    BY <1>1, <1>3, <2>4, NewPass DEF StoreFirst
  <2> QED
    BY <2>1, <2>2, <2>3, <2>4 DEF Spoken
<1> QED
  BY <1>2, <1>3

\* As long as no app removes from its store what no row of its own knows, a row
\* that says which picture it shows can show it, whatever the devices do and
\* wherever their passes die.
THEOREM KnownAlwaysHeld == ASSUME Closes = {} PROVE Spec => []KnownMeansHeld
<1> DEFINE IInv == Shaped /\ Named /\ StoreFirst
<1>1. Init => IInv
  BY InitShaped
<1>2. IInv /\ [Next]_vars => IInv'
  BY ShapedStays, NamedStays, StoreFirstStays
<1>3. IInv => KnownMeansHeld
  BY DEF StoreFirst, Spoken, KnownMeansHeld
<1> QED
  BY <1>1, <1>2, <1>3, PTL DEF Spec

-----------------------------------------------------------------------------
(* The new copy first.                                                     *)

LEMMA CopyFirstStays == Turns /\ Shaped /\ CopyFirst /\ [Next]_vars => CopyFirst'
<1> SUFFICES ASSUME Turns, Shaped, CopyFirst, [Next]_vars PROVE CopyFirst'
  OBVIOUS
<1>1. ASSUME NEW d \in Devices, Delete(d) PROVE CopyFirst'
  <2>1. \A e \in Devices : pass'[e] = Idle
    BY <1>1 DEF Delete, Free
  <2> QED
    BY <2>1 DEF CopyFirst, Idle
<1>2. ASSUME NEW d \in Devices, Carry(d) PROVE CopyFirst'
  <2>1. \A e \in Devices : e # d => pass'[e] = Idle
    BY <1>2 DEF Carry, Free, Shaped, PassShaped
  <2>2. pass'[d].phase = "tidy" => pass'[d].to \in vault'
    BY <1>2 DEF Carry, Copied, Shaped, PassShaped
  <2> QED
    BY <2>1, <2>2 DEF CopyFirst, Idle
<1>3. ASSUME NEW d \in Devices, Tidy(d) PROVE CopyFirst'
  <2>1. \A e \in Devices : e # d => pass'[e] = Idle
    BY <1>3, TidiedPass DEF CopyFirst
  <2>2. pass'[d].phase = "write"
    BY <1>3, TidiedPass
  <2> QED
    BY <2>1, <2>2 DEF CopyFirst, Idle
<1>4. ASSUME NEW d \in Devices, ExportPending(d) \/ Die(d) PROVE CopyFirst'
  <2>1. UNCHANGED vault /\ \A e \in Devices : pass'[e] \in {pass[e], Idle}
    BY <1>4 DEF ExportPending, Die, Shaped, PassShaped
  <2> QED
    BY <2>1 DEF CopyFirst, Idle
<1>5. ASSUME NEW d \in Devices,
             \/ (\E n \in Nodes : Paste(d, n) \/ Alter(d, n) \/ TakeBack(d, n))
             \/ (\E q \in Docs : Merge(d, q)) \/ (\E f \in vault : LookAt(d, f))
             \/ ResolveAsset(d) \/ Close(d)
      PROVE  UNCHANGED <<vault, pass>>
  BY <1>5 DEF Paste, Alter, TakeBack, Merge, LookAt, ResolveAsset, Close
<1>6. CASE UNCHANGED <<vault, pass>>
  BY <1>6 DEF CopyFirst
<1> QED
  BY <1>1, <1>2, <1>3, <1>4, <1>5, <1>6 DEF Next, vars

LEMMA OnlyDeleteEmpties ==
    ASSUME CopyFirst, [Next]_vars, vault # {}, vault' = {}
    PROVE  \E d \in Devices : Delete(d)
<1>1. ASSUME NEW d \in Devices, Tidy(d) PROVE FALSE
  <2>1. pass[d].to \in vault
    BY <1>1 DEF Tidy, CopyFirst
  <2>2. pass[d].to \in vault'
    BY <1>1, <2>1 DEF Tidy, Tidied
  <2> QED
    BY <2>2
<1>2. ASSUME NEW d \in Devices, Carry(d) PROVE FALSE
  BY <1>2 DEF Carry, Copied
<1>3. ASSUME NEW d \in Devices,
             \/ (\E n \in Nodes : Paste(d, n) \/ Alter(d, n) \/ TakeBack(d, n))
             \/ ExportPending(d) \/ (\E q \in Docs : Merge(d, q))
             \/ (\E f \in vault : LookAt(d, f)) \/ ResolveAsset(d) \/ Die(d) \/ Close(d)
      PROVE  UNCHANGED vault
  BY <1>3 DEF Paste, Alter, TakeBack, ExportPending, Merge, LookAt, ResolveAsset, Die, Close
<1> QED
  BY <1>1, <1>2, <1>3 DEF Next, vars

\* As long as the passes of different devices do not overlap, none of them
\* removes the folder's last copy, wherever it dies.
THEOREM LastCopyStays == ASSUME Turns PROVE Spec => NeverNowhere
<1> DEFINE IInv == Shaped /\ CopyFirst
<1>1. Init => IInv
  BY InitShaped
<1>2. IInv /\ [Next]_vars => IInv'
  BY ShapedStays, CopyFirstStays
<1>3. IInv /\ [Next]_vars =>
        [vault # {} /\ vault' = {} =>
           \E d \in Devices : record[d] # Nowhere /\ record'[d] = Nowhere]_vars
  <2> SUFFICES ASSUME IInv, [Next]_vars, vault # {}, vault' = {}
               PROVE  \E d \in Devices : record[d] # Nowhere /\ record'[d] = Nowhere
    OBVIOUS
  <2>1. PICK d \in Devices : Delete(d)
    BY OnlyDeleteEmpties
  <2> QED
    BY <2>1 DEF Delete, Shaped
<1> QED
  BY <1>1, <1>2, <1>3, PTL DEF Spec, NeverNowhere

-----------------------------------------------------------------------------
(* Types.                                                                  *)

\* export.rs: the name chosen among those of some nodes is one of them.
LEMMA ChosenTyped ==
    ASSUME NEW H, H \subseteq Nodes, H # {}
    PROVE  ChosenName(H) \in Names
<1> DEFINE S == {NameOf[n] : n \in H}
<1>1. S \subseteq Nat /\ S # {}
  BY AttachmentsAssumption
<1>2. \E x \in S : \A y \in S : x <= y
  <2> HIDE DEF S
  <2>1. PICK x \in S : \A y \in S : ~(<<y, x>> \in OpToRel(<, Nat))
    BY <1>1, NatLessThanWellFounded, WFMin, Zenon
  <2>2. \A y \in S : ~(y < x)
    BY <1>1, <2>1 DEF OpToRel
  <2>3. \A y \in S : x <= y
    BY <1>1, <2>2
  <2> QED
    BY <2>3
<1>3. ChosenName(H) \in S
  BY <1>2 DEF ChosenName, Min
<1> QED
  BY <1>3 DEF Names

\* Where the picture belongs is a place it can be recorded at.
LEMMA PlanTyped ==
    ASSUME TypeOK, NEW d \in Devices
    PROVE  PlanPlacement(d) \in Locations \cup {Nowhere}
<1>1. CASE Holders(d) = {}
  BY <1>1 DEF PlanPlacement, TypeOK
<1>2. CASE Holders(d) # {}
  <2>1. Holders(d) \subseteq Nodes
    BY DEF Holders, Present
  <2>2. ChosenName(Holders(d)) \in Names
    BY <1>2, <2>1, ChosenTyped
  <2>3. PageOf[CHOOSE n \in Holders(d) : TRUE] \in Pages
    BY <1>2, <2>1, AttachmentsAssumption
  <2> QED
    BY <1>2, <2>2, <2>3 DEF PlanPlacement, Locations
<1> QED
  BY <1>1, <1>2

\* A device's rows, the names in them included.
LEMMA RowTyped ==
    ASSUME TypeOK, NEW d \in Devices, NEW n \in Present(d)
    PROVE  n \in Nodes /\ row[d][n] \in Rows
BY DEF TypeOK, Present

\* A document is rendered as lines.
LEMMA RenderedTyped ==
    ASSUME TypeOK, NEW d \in Devices, NEW p \in Docs, NEW at \in Locations \cup {Nowhere}
    PROVE  Rendered(d, p, at) \in [Nodes -> Lines \cup {NoRow}]
<1>1. ASSUME NEW n \in In(d, p)
      PROVE  [stamp |-> row[d][n].stamp, name |-> Stated(d, n, at)] \in Lines
  <2>1. n \in Present(d)
    BY DEF In
  <2>2. row[d][n].stamp \in Nat /\ row[d][n].picture \in Names \cup {Known}
    BY <2>1, RowTyped DEF Rows
  <2>3. at # Nowhere => at.name \in Names
    BY DEF Locations
  <2>4. CASE row[d][n].picture = Known
    <3>1. Holders(d) \subseteq Nodes /\ Holders(d) # {}
      BY <2>1, <2>4 DEF Holders, Present
    <3> QED
      BY <2>2, <2>3, <2>4, <3>1, ChosenTyped DEF Stated, Lines
  <2>5. CASE row[d][n].picture # Known
    BY <2>2, <2>5 DEF Stated, Lines
  <2> QED
    BY <2>4, <2>5
<1> QED
  BY <1>1 DEF Rendered

\* One row of one device is replaced.
LEMMA ChangeTyped ==
    ASSUME TypeOK, NEW d \in Devices, NEW n \in Nodes, NEW r \in Rows \cup {NoRow},
           NEW docs \in SUBSET Docs, stamps < MaxChanges, Change(d, n, r, docs)
    PROVE  /\ row' \in [Devices -> [Nodes -> Rows \cup {NoRow}]]
           /\ owed' \in [Devices -> SUBSET Docs] /\ poked' \in SUBSET Devices
           /\ stamps' \in 0 .. MaxChanges
BY AttachmentsAssumption DEF Change, TypeOK

\* The commands.
LEMMA CommandTyped ==
    ASSUME TypeOK, NEW d \in Devices, NEW n \in Nodes, Paste(d, n) \/ Alter(d, n) \/ TakeBack(d, n)
    PROVE  TypeOK'
<1>1. PageOf[n] \in Docs /\ Bin \in Docs /\ stamps + 1 \in Nat
  BY AttachmentsAssumption DEF Docs, TypeOK
<1>2. CASE Paste(d, n)
  <2> DEFINE r == [stamp |-> stamps + 1, trashed |-> FALSE, picture |-> Known]
  <2>1. r \in Rows /\ {PageOf[n]} \in SUBSET Docs
    BY <1>1 DEF Rows
  <2>2. Change(d, n, r, {PageOf[n]}) /\ stamps < MaxChanges
    BY <1>2 DEF Paste
  <2> HIDE DEF r
  <2> QED
    BY <1>2, <2>1, <2>2, ChangeTyped DEF Paste, TypeOK
<1>3. CASE Alter(d, n)
  <2>1. PICK trashed \in BOOLEAN :
           Change(d, n, [row[d][n] EXCEPT !.stamp = stamps + 1, !.trashed = trashed],
                  {PageOf[n]} \cup (IF trashed \/ row[d][n].trashed THEN {Bin} ELSE {}))
    BY <1>3 DEF Alter
  <2> DEFINE r == [row[d][n] EXCEPT !.stamp = stamps + 1, !.trashed = trashed]
             docs == {PageOf[n]} \cup (IF trashed \/ row[d][n].trashed THEN {Bin} ELSE {})
  <2>2. r \in Rows
    BY <1>1, <1>3, RowTyped DEF Alter, Rows
  <2>3. docs \in SUBSET Docs
    BY <1>1
  <2>4. Change(d, n, r, docs) /\ stamps < MaxChanges
    BY <1>3, <2>1 DEF Alter
  <2> HIDE DEF r, docs
  <2> QED
    BY <1>3, <2>2, <2>3, <2>4, ChangeTyped DEF Alter, TypeOK
<1>4. CASE TakeBack(d, n)
  <2>1. {PageOf[n]} \in SUBSET Docs /\ NoRow \in Rows \cup {NoRow}
    BY <1>1
  <2>2. Change(d, n, NoRow, {PageOf[n]}) /\ stamps < MaxChanges
    BY <1>4 DEF TakeBack
  <2> QED
    BY <1>4, <2>1, <2>2, ChangeTyped DEF TakeBack, TypeOK
<1> QED
  BY <1>2, <1>3, <1>4

\* What a pass is, and what its place is.
LEMMA PassTyped ==
    ASSUME TypeOK, NEW d \in Devices, pass[d].phase \in {"tidy", "write"}
    PROVE  /\ pass[d] = [phase |-> pass[d].phase, to |-> pass[d].to]
           /\ pass[d].to \in Locations \cup {Nowhere}
<1>1. pass[d] # Idle
  BY DEF Idle
<1>2. pass[d] \in [phase : {"tidy", "write"}, to : Locations \cup {Nowhere}]
  BY <1>1 DEF TypeOK
<1> QED
  BY <1>2

\* The steps of a pass.
LEMMA ExportTyped ==
    ASSUME TypeOK, NEW d \in Devices, Carry(d) \/ Tidy(d) \/ ExportPending(d)
    PROVE  TypeOK'
<1> DEFINE Passes == [phase : {"tidy", "write"}, to : Locations \cup {Nowhere}]
<1>1. record[d] \in Locations \cup {Nowhere}
  BY DEF TypeOK
<1>2. ASSUME NEW x \in {Idle} \cup Passes, pass' = [pass EXCEPT ![d] = x]
      PROVE  pass' \in [Devices -> {Idle} \cup Passes]
  BY <1>2 DEF TypeOK
<1>3. \A h \in {"tidy", "write"}, to \in Locations \cup {Nowhere} : [phase |-> h, to |-> to] \in Passes
  OBVIOUS
<1>4. CASE Carry(d)
  <2> DEFINE to == PlanPlacement(d)
  <2>1. to \in Locations \cup {Nowhere}
    BY PlanTyped
  <2>2. CASE Holders(d) # {} /\ CanCarry(d, to)
    <3>1. to \in Locations
      <4>1. to.name = ChosenName(Holders(d)) /\ to.place \in Pages \cup {Vault}
            /\ to = [place |-> to.place, name |-> to.name]
        <5>1. PageOf[CHOOSE n \in Holders(d) : TRUE] \in Pages
          BY <2>2, AttachmentsAssumption DEF Holders, Present
        <5> QED
          BY <2>2, <5>1 DEF PlanPlacement
      <4>2. Holders(d) \subseteq Nodes
        BY DEF Holders, Present
      <4>3. to.name \in Names
        BY <2>2, <4>1, <4>2, ChosenTyped
      <4> HIDE DEF to
      <4> QED
        BY <4>1, <4>3 DEF Locations
    <3>2. vault' = vault \cup {to} /\ pass' = [pass EXCEPT ![d] = [phase |-> "tidy", to |-> to]]
      BY <1>4, <2>2 DEF Carry, Copied
    <3> HIDE DEF to
    <3>3. pass' \in [Devices -> {Idle} \cup Passes]
      BY <1>2, <1>3, <2>1, <3>2
    <3> QED
      BY <1>4, <3>1, <3>2, <3>3 DEF Carry, TypeOK
  <2>3. CASE ~(Holders(d) # {} /\ CanCarry(d, to))
    <3>1. pass' = [pass EXCEPT ![d] = [phase |-> "write", to |-> record[d]]] /\ UNCHANGED vault
      BY <1>4, <2>3 DEF Carry
    <3>2. pass' \in [Devices -> {Idle} \cup Passes]
      BY <1>1, <1>2, <1>3, <3>1
    <3> QED
      BY <1>4, <3>1, <3>2 DEF Carry, TypeOK
  <2> QED
    BY <2>2, <2>3
<1>5. CASE Tidy(d)
  <2>1. vault' \subseteq vault
    BY <1>5 DEF Tidy, Tidied
  <2>2. CASE pass' = [pass EXCEPT ![d].phase = "write"]
    <3> DEFINE x == [pass[d] EXCEPT !.phase = "write"]
    <3>1. /\ pass[d] = [phase |-> pass[d].phase, to |-> pass[d].to]
          /\ pass[d].to \in Locations \cup {Nowhere}
      BY <1>5, PassTyped DEF Tidy
    <3>2. x = [phase |-> "write", to |-> pass[d].to]
      BY <3>1
    <3>3. pass' = [pass EXCEPT ![d] = x]
      BY <2>2
    <3> HIDE DEF x
    <3>4. pass' \in [Devices -> {Idle} \cup Passes]
      BY <1>2, <1>3, <3>1, <3>2, <3>3
    <3> QED
      BY <1>5, <2>1, <3>4 DEF Tidy, TypeOK
  <2>3. CASE pass' = [pass EXCEPT ![d] = [phase |-> "write", to |-> record[d]]]
    <3>1. pass' \in [Devices -> {Idle} \cup Passes]
      BY <1>1, <1>2, <1>3, <2>3
    <3> QED
      BY <1>5, <2>1, <3>1 DEF Tidy, TypeOK
  <2> QED
    BY <1>5, <2>2, <2>3 DEF Tidy
<1>6. CASE ExportPending(d)
  <2> DEFINE at == pass[d].to
             done == {p \in owed[d] \ unread[d] : Renderable(d, p, at)}
             new == {p \in done : Rendered(d, p, at) # doc[p]}
  <2>1. at \in Locations \cup {Nowhere}
    BY <1>6, PassTyped DEF ExportPending
  <2>2. new \subseteq Docs
    BY DEF TypeOK
  <2>3. \A p \in Docs : Rendered(d, p, at) \in [Nodes -> Lines \cup {NoRow}]
    BY <2>1, RenderedTyped
  <2>4. /\ record' = [record EXCEPT ![d] = at]
        /\ poked' = poked \ {d}
        /\ doc' = [p \in Docs |-> IF p \in new THEN Rendered(d, p, at) ELSE doc[p]]
        /\ owed' = [owed EXCEPT ![d] = @ \ done]
        /\ unread' = [e \in Devices |-> IF e = d THEN unread[e] ELSE unread[e] \cup new]
        /\ pass' = [pass EXCEPT ![d] = Idle]
        /\ UNCHANGED <<row, store, vault, taking, stamps>>
    BY <1>6 DEF ExportPending
  <2> HIDE DEF at, done, new
  <2>5. record' \in [Devices -> Locations \cup {Nowhere}]
    BY <2>1, <2>4 DEF TypeOK
  <2>6. doc' \in [Docs -> [Nodes -> Lines \cup {NoRow}]]
    BY <2>3, <2>4 DEF TypeOK
  <2>7. owed' \in [Devices -> SUBSET Docs] /\ unread' \in [Devices -> SUBSET Docs]
    BY <2>2, <2>4 DEF TypeOK
  <2>8. pass' \in [Devices -> {Idle} \cup Passes]
    BY <1>2, <2>4
  <2> QED
    BY <2>4, <2>5, <2>6, <2>7, <2>8 DEF TypeOK
<1> QED
  BY <1>4, <1>5, <1>6

\* A document and a file that arrive.
LEMMA ArrivalTyped ==
    ASSUME TypeOK, NEW d \in Devices,
           (\E p \in Docs : Merge(d, p)) \/ (\E f \in vault : LookAt(d, f)) \/ ResolveAsset(d)
    PROVE  TypeOK'
<1>1. record[d] \in Locations \cup {Nowhere} /\ taking[d] \in Locations \cup {Nowhere}
  BY DEF TypeOK
<1>2. ASSUME NEW p \in Docs, Merge(d, p) PROVE TypeOK'
  <2> DEFINE line == doc[p]
             newer == {n \in Nodes : line[n] # NoRow
                                     /\ (row[d][n] # NoRow => line[n].stamp > row[d][n].stamp)}
             short == \E n \in Present(d) : IF line[n] = NoRow THEN n \in In(d, p)
                                            ELSE line[n].stamp < row[d][n].stamp
             f == [n \in Nodes |-> IF n \in newer
                                   THEN [stamp |-> line[n].stamp, trashed |-> p = Bin,
                                         picture |-> PictureOf(d, line[n].name)]
                                   ELSE row[d][n]]
  <2>1. ASSUME NEW n \in newer
        PROVE  [stamp |-> line[n].stamp, trashed |-> p = Bin,
                picture |-> PictureOf(d, line[n].name)] \in Rows
    <3>1. line[n] \in Lines
      BY DEF TypeOK
    <3> QED
      BY <3>1 DEF Lines, Rows, PictureOf
  <2>2. \A n \in Nodes : row[d][n] \in Rows \cup {NoRow}
    BY DEF TypeOK
  <2>3. f \in [Nodes -> Rows \cup {NoRow}]
    BY <2>1, <2>2
  <2>4. /\ row' = [row EXCEPT ![d] = f]
        /\ owed' = [owed EXCEPT ![d] = @ \cup (IF short /\ p # Bin THEN {p} ELSE {})]
        /\ poked' = IF newer # {} \/ short THEN poked \cup {d} ELSE poked
        /\ unread' = [unread EXCEPT ![d] = @ \ {p}]
        /\ UNCHANGED <<record, store, vault, doc, pass, taking, stamps>>
    BY <1>2 DEF Merge
  <2> HIDE DEF line, newer, short, f
  <2>5. row' \in [Devices -> [Nodes -> Rows \cup {NoRow}]]
    BY <2>3, <2>4 DEF TypeOK
  <2>6. owed' \in [Devices -> SUBSET Docs] /\ unread' \in [Devices -> SUBSET Docs]
    BY <2>4 DEF TypeOK
  <2> QED
    BY <2>4, <2>5, <2>6 DEF TypeOK
<1>3. ASSUME NEW f \in vault, LookAt(d, f) PROVE TypeOK'
  BY <1>3 DEF LookAt, Imported, TypeOK
<1>4. CASE ResolveAsset(d)
  <2> DEFINE who == Learning(d, taking[d])
             f == [n \in Nodes |-> IF n \in who THEN [row[d][n] EXCEPT !.picture = Known]
                                   ELSE row[d][n]]
  <2>1. \A n \in who : [row[d][n] EXCEPT !.picture = Known] \in Rows
    BY RowTyped DEF Learning, Waiting, Rows
  <2>2. \A n \in Nodes : row[d][n] \in Rows \cup {NoRow}
    BY DEF TypeOK
  <2>3. f \in [Nodes -> Rows \cup {NoRow}]
    BY <2>1, <2>2
  <2>4. row' = [row EXCEPT ![d] = f]
    BY <1>4 DEF ResolveAsset
  <2> HIDE DEF f, who
  <2>5. row' \in [Devices -> [Nodes -> Rows \cup {NoRow}]]
    BY <2>3, <2>4 DEF TypeOK
  <2> QED
    BY <1>1, <1>4, <2>5 DEF ResolveAsset, TypeOK
<1> QED
  BY <1>2, <1>3, <1>4

\* Whatever the devices do, the rows and the documents hold names that somebody gave
\* the picture, and it is recorded, carried and taken in at places of the vault.
THEOREM TypeCorrect == Spec => []TypeOK
<1>1. Init => TypeOK
  BY AttachmentsAssumption DEF Init, TypeOK
<1>2. TypeOK /\ [Next]_vars => TypeOK'
  <2> SUFFICES ASSUME TypeOK, [Next]_vars PROVE TypeOK'
    OBVIOUS
  <2>1. ASSUME NEW d \in Devices, Delete(d) \/ Die(d) \/ Close(d) PROVE TypeOK'
    <3>1. CASE Delete(d)
      BY <3>1 DEF Delete, TypeOK
    <3>2. CASE Die(d)
      BY <3>2 DEF Die, TypeOK
    <3>3. CASE Close(d)
      BY <3>3 DEF Close, TypeOK
    <3> QED
      BY <2>1, <3>1, <3>2, <3>3
  <2>2. CASE UNCHANGED vars
    BY <2>2 DEF vars, TypeOK
  <2> QED
    BY <2>1, <2>2, CommandTyped, ExportTyped, ArrivalTyped DEF Next
<1> QED
  BY <1>1, <1>2, PTL DEF Spec

=============================================================================
