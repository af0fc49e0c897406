---------------------------- MODULE LwwRegister ----------------------------
(***************************************************************************)
(* What the merge promises of one node, on every device: the row is the    *)
(* greatest version the device has been told of, whatever the order the    *)
(* files came in and however often each was read.                          *)
(***************************************************************************)
EXTENDS Merger

CONSTANT Replicas

VARIABLES
    told,    \* the versions a replica has been told of
    value    \* what it says, None before anything was

\* The version nothing the device was told of beats.
GreatestOf(v, versions) == v \in versions /\ \A w \in versions : ~Beats(w, v)

Init ==
    /\ told = [r \in Replicas |-> {}]
    /\ value = [r \in Replicas |-> None]

\* A replica is told of something, by itself or by a file.
Hear(r) ==
    /\ told[r] \subseteq told'[r]
    /\ told' = [told EXCEPT ![r] = told'[r]]
    /\ value' = [value EXCEPT ![r] = value'[r]]
    /\ GreatestOf(value'[r], told'[r])

Next == \E r \in Replicas : Hear(r)

Spec == Init /\ [][Next]_<<told, value>>
=============================================================================
