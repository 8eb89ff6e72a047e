--------------------------- MODULE MCTileTransfer ---------------------------
(* Model-checking instance of TileTransfer *)
EXTENDS TileTransfer
=============================================================================
