--------------------------- MODULE MCAttachments ---------------------------
(***************************************************************************)
(* Two pages that show one picture; who adds it, and under which name.     *)
(***************************************************************************)
EXTENDS Attachments

Two == [n \in Nodes |-> n]
First == [n \in Nodes |-> 1]
OneName == [n \in Nodes |-> 1]
TwoNames == [n \in Nodes |-> 3 - n]
=============================================================================
