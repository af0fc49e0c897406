------------------------------ MODULE MCVault ------------------------------
(* VaultSync with the mixtures of changes, hand edits and deaths to explore. *)
EXTENDS VaultSync

Budget(edits, hands, crashes, nodes, contents) ==
    [edits |-> edits, hands |-> hands, crashes |-> crashes,
     nodes |-> nodes, contents |-> contents]

\* Two changes to a node both have and one that is not there yet; two changes
\* to one node and a death; one in the app or a death, with one in an editor.
LifeBudgets ==
    {Budget(2, 0, 0, {1, 2}, {1, 2, 3}), Budget(2, 0, 1, {1}, {1, 2}),
     Budget(1, 1, 0, {1}, {1, 2}), Budget(0, 1, 1, {1}, {1, 2})}

\* Two changes, and then nobody does anything any more.
RestBudgets == {Budget(2, 0, 0, {1}, {1, 2})}
=============================================================================
