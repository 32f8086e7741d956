--------------------------- MODULE MCItemsCatalog ---------------------------
(* A small instance of ItemsCatalog for TLC: one piece of equipment and    *)
(* one food, each of which is there or comes later.                        *)
EXTENDS ItemsCatalog
=============================================================================
