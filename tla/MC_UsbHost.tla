----------------------------- MODULE MC_UsbHost -----------------------------
(***************************************************************************)
(* Three registers for two players: the first holds W, the second joins    *)
(* and leaves with UP, and the first turns to D while UP is held.          *)
(***************************************************************************)
EXTENDS UsbHost, TLC

W  == 26
D  == 7
UP == 82

KeyCodes    == 0 .. 255
TwoPlayers  == {1, 2}
TheKeys     == (1 :> {W, 4, 22, D}) @@ (2 :> {79, 80, 81, UP})
TheBombs    == (1 :> 53) @@ (2 :> 54)

Report(a, b, c) == <<a, b, c, 0, 0, 0>>
TheReports  == {Report(W, 0, 0), Report(W, UP, 0), Report(UP, D, 0)}
=============================================================================
