----------------------------- MODULE MCTileGrid -----------------------------
(* Model-checking instance of TileGrid *)
EXTENDS TileGrid
=============================================================================
