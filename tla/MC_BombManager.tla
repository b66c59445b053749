--------------------------- MODULE MC_BombManager ---------------------------
(***************************************************************************)
(* Two players in a corridor of four cells.  All times are about an eighth *)
(* of the ones of the board: a flame stays for 1 tick (8), a delay is 2 to *)
(* 4 ticks, a cooldown 2 or 3 (16 to 80), and the timer and the bits the   *)
(* cooldown compares wrap at 8 and 4.                                      *)
(***************************************************************************)
EXTENDS BombManager

Ports01 == {0, 1}
Ports23 == {2, 3}

Corridor == [a \in 0 .. 17 |-> IF a \in 7 .. 10 THEN path ELSE wall]
Meeting  == [p \in {0, 1} |-> IF p = 0 THEN {7} ELSE {8}]
Alone    == [p \in {0, 1} |-> IF p = 0 THEN {7} ELSE {}]
Small    == {0}
Fixed    == {3}
Varied   == {2, 4}
OneCool  == {2}
TwoCools == {2, 3}
NoReset  == {FALSE}
AnyReset == BOOLEAN

Bombs  == [at : 0 .. 17, time : 0 .. 7, length : 0 .. 3]
NoBomb == [at |-> 0, time |-> 0, length |-> 0]

(* Two states behave alike if they differ in words of a queue that hold no *)
(* bomb, in where in the ring the others are, or in the stale registers of *)
(* an explosion in START.  A queue that is overrun is looked at whole.     *)
Engine(p) == IF x[p].phase = "START" /\ ~x[p].WE_O THEN {} ELSE {x[p]}
Ring(p) == IF overrun[p] THEN <<queue[p]>>
           ELSE <<queue[p].count, behind[p], [i \in Stored(p) |-> Bomb(p, i)]>>
Seen == <<placing, [p \in Players |-> Ring(p)],
          [p \in Players |-> Engine(p)], log, map, timer, placed, due>>

(* Bounds of the runs, not of the specification.  With Reset, histories    *)
(* are left where a ring is overrun or a second bomb comes to stand behind *)
(* the count.  With two players, who are not reset, they are left where    *)
(* the first bomb comes to stand there: nothing is promised to its player  *)
(* from then on.                                                           *)
InTheRing == \A p \in Players : ~overrun[p] /\ behind[p] < 2
InSight   == \A p \in Players : ~overrun[p] /\ behind[p] = 0

=============================================================================
