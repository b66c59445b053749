---------------------------- MODULE MC_Character ----------------------------
(***************************************************************************)
(* The upper left corner of the board, closed off: a row and a column that *)
(* meet in the corner, wood at the end of both and a turn behind one.      *)
(***************************************************************************)
EXTENDS Players

Ground      == {<<1, 1>>, <<2, 1>>, <<3, 1>>, <<3, 2>>, <<1, 2>>, <<1, 3>>}
CornerWalls == Cells \ Ground
CornerWood  == {<<3, 1>>, <<1, 3>>}
Corner      == <<32, 32>>
=============================================================================
