--------------------------- MODULE MC_Explosions ---------------------------
(***************************************************************************)
(* Two boards in one run, each with bombs and fires of its own.            *)
(***************************************************************************)
EXTENDS Explosions

VARIABLE board

Ports01 == {0, 1}
None    == {}

Border == {a \in 0 .. 24 : a \div 5 \in {0, 4} \/ a % 5 \in {0, 4}}

(*  #####   The wood stands between the two outer bombs: the one that      *)
(*  #...#   burns first must stop at it, and the two burn past it only     *)
(*  #.w.#   together.  The bomb below stops the fire and stays.            *)
(*  #b.i#                                                                  *)
(*  #####                                                                  *)
Ground == [a \in 0 .. 24 |-> CASE a \in Border -> wall
                               [] a = 12 -> wood
                               [] a = 16 -> bomb
                               [] a = 18 -> item(0)
                               [] OTHER -> path]
GroundBombs == {[at |-> 11, length |-> 1], [at |-> 12, length |-> 0],
                [at |-> 13, length |-> 1]}

(* A corridor of three cells, wood in the middle, for Reset; the first     *)
(* player bombs its left end, the second one either.  A burst is over      *)
(* before a sweep is, as on the board, where a burst takes less than 80    *)
(* cycles and a sweep 256.                                                 *)
Corridor == [a \in 0 .. 24 |-> CASE a \in {11, 13} -> path
                                 [] a = 12 -> wood
                                 [] OTHER -> wall]
LeftBomb  == {[at |-> 11, length |-> 0]}
RightBomb == {[at |-> 13, length |-> 0]}

TwoMaps  == {Ground, Corridor}
AllBombs == GroundBombs \union LeftBomb \union RightBomb
AnyReset == BOOLEAN
AllItems == {TRUE}

(* Bound: one Reset, in the corridor, to whose map the sweep goes back.    *)
Burn == \/ /\ board = Ground
           /\ Work \/ Tick
           /\ \A p \in Players : due'[p] \subseteq GroundBombs
           /\ UNCHANGED board
        \/ /\ board = Corridor
           /\ Work \/ Tick \/ (Reset /\ ~swept)
           /\ due'[0] \subseteq LeftBomb
           /\ due'[1] \subseteq LeftBomb \union RightBomb
           /\ UNCHANGED board

BoardInit == Init /\ board = map

Boards == BoardInit /\ [][Burn]_<<vars, board>> /\ Fairness

=============================================================================
