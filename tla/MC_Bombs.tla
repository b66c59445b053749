------------------------------ MODULE MC_Bombs ------------------------------
(***************************************************************************)
(* Two scenes of BombManager in one run.  In one, both players place bombs *)
(* next to each other and Reset is not pressed.  In the other, one player  *)
(* plays alone, with a second cooldown and with Reset in any cycle.        *)
(***************************************************************************)
EXTENDS MC_BombManager

VARIABLE solo   \* the scene

(* The time of one cooldown is enough for two players.                     *)
Scene == \/ /\ solo
            /\ Next
            /\ ~Places(1)'
            /\ UNCHANGED solo
         \/ /\ ~solo
            /\ Step \/ Tick
            /\ \A p \in Players : due'[p] \in OneCool \union {0}
            /\ UNCHANGED solo

SceneInit == Init /\ solo \in BOOLEAN

Scenes    == SceneInit /\ [][Scene]_<<vars, solo>>
SeenScene == <<Seen, solo>>
InBounds  == IF solo THEN InTheRing ELSE InSight
=============================================================================
