---------------------------- MODULE MCPaintFrame ----------------------------
(* A small instance of PaintFrame for TLC. *)
EXTENDS PaintFrame

CONSTANTS gameDb, radioSearch

AllKinds == {gameDb, radioSearch}
=============================================================================
