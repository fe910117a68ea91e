--------------------------- MODULE MCThreadTurns ---------------------------
(* ThreadTurns for TLC.  Its constants are sets of model values, which the *)
(* configurations give.                                                    *)
EXTENDS ThreadTurns
=============================================================================
