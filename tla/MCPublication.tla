--------------------------- MODULE MCPublication ---------------------------
(***************************************************************************)
(* Two files, so that another can come in the place of one, an asset       *)
(* folder, and something that is neither.                                  *)
(***************************************************************************)
EXTENDS Publication, TLC

CONSTANTS f1, f2

TwoFiles == {f1, f2}
AlikeFiles == Permutations(TwoFiles)
=============================================================================
