----------------------------- MODULE Character -----------------------------
(***************************************************************************)
(* Character.sv and NeighborID (Map.sv:37-73): a character of 32 by 32     *)
(* pixels that moves on a map of 16 by 16 cells of that size.  On the edge *)
(* of a video frame it moves by Step in the direction of a key, if the two *)
(* cells NeighborID looks at on that side can be walked on, and snaps to   *)
(* the nearest row or column in the other direction.                       *)
(*                                                                         *)
(* NeighborID reads eight copies of the map twice per cycle of Clk: what   *)
(* it says on a frame edge is true of the position, the step and the map   *)
(* of that cycle.  Step is changed by items between any two frames.        *)
(***************************************************************************)
EXTENDS Naturals

CONSTANTS Walls,   \* the cells that hold a wall in ReadyToUse/map2.csv
          Wood,    \* the cells that hold wood there
          Spawn,   \* X_Reset and Y_Reset, as a pair
          Steps    \* the steps buff.sv can give: 1 to 5

Coords == 0 .. 15
Cells  == Coords \X Coords
Pixels == 0 .. 1023     \* ten bits

(* bits 8:5 of a coordinate: the row or column of a pixel.                 *)
Cell(v) == (v \div 32) % 16

(* The cell at <<column, row>> and the cells beside it.                    *)
Around(c) == {<<c[1] + i, c[2] + j>> : i \in 0 .. 2, j \in 0 .. 2}
Nearby(p) == {d \in Cells : \E e \in Around(d) :
                 e = <<Cell(p[1]) + 1, Cell(p[2]) + 1>>}

ASSUME CharacterAssumption ==
    /\ Walls \subseteq Cells /\ Wood \subseteq Cells
    /\ Walls \cap Wood = {}
    /\ \A k \in Coords : /\ <<0, k>> \in Walls /\ <<15, k>> \in Walls
                         /\ <<k, 0>> \in Walls /\ <<k, 15>> \in Walls
    /\ Steps \subseteq 1 .. 31
    /\ Spawn \in {<<32 * i, 32 * j>> : i \in Coords, j \in Coords}

(* Where a character starts there is room, and no wood beside it.          *)
ASSUME RoomAssumption ==
    \A p \in {Spawn, <<32, 32>>} :
        /\ <<Cell(p[1]), Cell(p[2])>> \notin Walls
        /\ Nearby(p) \cap Wood = {}

VARIABLES x, y,      \* Char_X_Pos, Char_Y_Pos: the upper left pixel
          wood,      \* the cells that hold wood now
          shut,      \* the cells that hold a bomb or a flame
          sweeping,  \* MapEditor restores the map
          moved      \* bound: a frame has begun during this sweep

vars == <<x, y, wood, shut, sweeping, moved>>

Init == /\ x = 32
        /\ y = 32
        /\ wood = Wood
        /\ shut = {}
        /\ sweeping = FALSE
        /\ moved = FALSE

-----------------------------------------------------------------------------
(* X_next and X_prev: the pixel a move would reach.                        *)
ForwardNoStep(v, step) == (v + 32) % 1024  \* mutant
Forward(v, step) == (v + step + 32) % 1024
Back(v, step)    == (v + 1024 - step) % 1024

(* X_Map_Pos0 and X_Map_Pos1: the two cells to look at when moving across. *)
(* They differ in the middle half of a cell, bits 4 and 3 being 01 or 10.  *)
Low(v)  == (Cell(v) + (IF v % 32 >= 24 THEN 1 ELSE 0)) % 16
HighAsLow(v) == Low(v)  \* mutant
High(v) == (Cell(v) + (IF v % 32 >= 8 THEN 1 ELSE 0)) % 16

Columns(v, ahead) == {<<ahead, Low(v)>>, <<ahead, High(v)>>}
Rows(v, ahead)    == {<<Low(v), ahead>>, <<High(v), ahead>>}

SnapNot(v) == v  \* mutant
(* {Char_X_Map_Pos, 5'b0}: the nearest column.                             *)
Snap(v) == 32 * ((v \div 32 + (IF v % 32 >= 16 THEN 1 ELSE 0)) % 32)

(* One edge of the frame clock: `free` are the cells that can be walked on,*)
(* bit 7 of their identifiers being 1.                                     *)
Right(step, free) == /\ x + 31 <= 479
                     /\ Columns(y, Cell(Forward(x, step))) \subseteq free
                     /\ x' = (x + step) % 1024
                     /\ y' = Snap(y)

Left(step, free) == /\ Columns(y, Cell(Back(x, step))) \subseteq free
                    /\ x' = Back(x, step)
                    /\ y' = Snap(y)

Down(step, free) == /\ y + 31 <= 479
                    /\ Rows(x, Cell(Forward(y, step))) \subseteq free
                    /\ y' = (y + step) % 1024
                    /\ x' = Snap(x)

Up(step, free) == /\ Rows(x, Cell(Back(y, step))) \subseteq free
                  /\ y' = Back(y, step)
                  /\ x' = Snap(x)

(* No key, or a direction in which the character cannot move.              *)
Stay == UNCHANGED <<x, y>>

Walk(step, free) == \/ Right(step, free) \/ Left(step, free)
                    \/ Down(step, free) \/ Up(step, free) \/ Stay

(* The cells that can be walked on; in the middle of a sweep the ones      *)
(* below an address hold the initial map already.                          *)
Open == Cells \ (Walls \union wood \union shut)
OpenAt(n) == {c \in Cells : IF 16 * c[2] + c[1] < n
                            THEN c \notin Walls \union Wood ELSE c \in Open}

Frame == /\ ~sweeping
         /\ \E step \in Steps : Walk(step, Open)
         /\ UNCHANGED <<wood, shut, sweeping, moved>>

(* A sweep takes 256 cycles, a frame hundreds of thousands.                *)
FrameInSweep == /\ sweeping /\ ~moved
                /\ \E step \in Steps, n \in 0 .. 256 : Walk(step, OpenAt(n))
                /\ moved' = TRUE
                /\ UNCHANGED <<wood, shut, sweeping>>

-----------------------------------------------------------------------------
(* What the rest of the game writes to the map: a bomb or a flame - a      *)
(* flame also where there is wood - or path or an item.  The explosions    *)
(* have no Reset: one in flight when the map is restored clears its centre *)
(* whatever is there by then.                                              *)
Occupy(c) == /\ ~sweeping
             /\ c \notin Walls
             /\ wood' = wood \ {c}
             /\ shut' = shut \union {c}
             /\ UNCHANGED <<x, y, sweeping, moved>>

Vacate(c) == /\ ~sweeping
             /\ c \notin Walls
             /\ wood' = wood \ {c}
             /\ shut' = shut \ {c}
             /\ UNCHANGED <<x, y, sweeping, moved>>

Reset == /\ x' = Spawn[1]
         /\ y' = Spawn[2]
         /\ sweeping' = TRUE
         /\ moved' = FALSE
         /\ UNCHANGED <<wood, shut>>

SweepEnds == /\ sweeping
             /\ sweeping' = FALSE
             /\ wood' = Wood
             /\ shut' = {}
             /\ UNCHANGED <<x, y, moved>>

Next == \/ Frame
        \/ FrameInSweep
        \/ \E c \in Cells : Occupy(c) \/ Vacate(c)
        \/ Reset
        \/ SweepEnds

Spec == Init /\ [][Next]_vars

-----------------------------------------------------------------------------
TypeOK == /\ x \in Pixels /\ y \in Pixels
          /\ wood \subseteq Wood
          /\ shut \subseteq Cells
          /\ sweeping \in BOOLEAN /\ moved \in BOOLEAN

(* The cells under the box of a character whose upper left pixel is p.     *)
Under(p) == {<<i, j>> : i \in {p[1] \div 32, (p[1] + 31) \div 32},
                        j \in {p[2] \div 32, (p[2] + 31) \div 32}}

(* A character never overlaps a wall or wood, by not one pixel, whatever   *)
(* steps the items give it and however it got between two cells.           *)
NeverInWall == Under(<<x, y>>) \cap (Walls \union wood) = {}

(* A character is always in a row or in a column of the map.               *)
OnGrid == x % 32 = 0 \/ y % 32 = 0

(* A frame takes a character only into cells that can be walked on; it can *)
(* stand on a bomb only by having stood there before.                      *)
EntersOnlyOpen ==
    [][Frame => Under(<<x, y>>)' \ Under(<<x, y>>) \subseteq Open]_vars

=============================================================================
