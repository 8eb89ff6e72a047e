--------------------------- MODULE MCTileDispatch ---------------------------
(* TileDispatch on small instances. *)
EXTENDS TileDispatch, TLC

Symmetry == Permutations(Workers)
=============================================================================
