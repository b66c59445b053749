---------------------------- MODULE PlayersProofs ----------------------------
(***************************************************************************)
(* Proofs about what belongs to a player.                                  *)
(*                                                                         *)
(* Character.tla for every map, every starting point and every step up to  *)
(* 31 pixels: the box of a character never covers a wall or wood.  The     *)
(* argument: a frame moves the box only onto cells NeighborID looked at    *)
(* (Entered), which rests on the arithmetic of Forwards, Backs and Snaps;  *)
(* and the wood a sweep restores is not under a character that started to  *)
(* move from its Spawn no more than one frame ago (Swept).                 *)
(*                                                                         *)
(* Buff.tla and Score.tla for every width of the timer, length of the red  *)
(* window and number of points; Items.tla for every set of steps, length   *)
(* of the line and number of items.                                        *)
(***************************************************************************)
EXTENDS Players, FiniteSetTheorems, TLAPS

(* Moving right or down by s < 32 pixels takes the two ends of the box     *)
(* into the columns they were in or into the one that was looked at.       *)
LEMMA Forwards ==
    ASSUME NEW v \in 0 .. 448, NEW s \in 1 .. 31
    PROVE  /\ (v + s) % 1024 = v + s
           /\ (v + s) \div 32 \in {v \div 32, (v + 31) \div 32}
           /\ (v + s + 31) \div 32 \in {v \div 32, (v + 31) \div 32, Cell(Forward(v, s))}
  BY DEF Cell, Forward

(* The same for moving left or up.                                         *)
LEMMA Backs ==
    ASSUME NEW v \in 32 .. 448, NEW s \in 1 .. 31
    PROVE  /\ Back(v, s) = v - s
           /\ (v - s) \div 32 = Cell(Back(v, s))
           /\ (v - s + 31) \div 32 \in {v \div 32, (v + 31) \div 32}
  BY DEF Cell, Back

(* The row a character snaps to is one of the two that were looked at and  *)
(* one of those the box covered.                                           *)
LEMMA Snaps ==
    ASSUME NEW v \in 32 .. 448
    PROVE  \E r \in 1 .. 14 :
             /\ Snap(v) = 32 * r
             /\ r \in {Low(v), High(v)}
             /\ r \in {v \div 32, (v + 31) \div 32}
  BY DEF Snap, Low, High, Cell

LEMMA Rowed ==
    ASSUME NEW r \in 1 .. 14
    PROVE  /\ (32 * r) % 32 = 0
           /\ (32 * r) \div 32 = r
           /\ (32 * r + 31) \div 32 = r
  OBVIOUS

(* The inner pixels: those a character can be at.                          *)
Inner == 32 .. 448

LEMMA Inside ==
    ASSUME NEW p \in Inner
    PROVE  p \div 32 \in 1 .. 14 /\ (p + 31) \div 32 \in 1 .. 14
  BY DEF Inner

(* A position that is on the map, off the walls and in a row or column.    *)
Sound(p) == /\ p \in Inner \X Inner
            /\ p[1] % 32 = 0 \/ p[2] % 32 = 0
            /\ Under(p) \cap Walls = {}

(* The border of the map is wall.                                          *)
LEMMA Bordered ==
    ASSUME NEW k \in Coords
    PROVE  /\ <<0, k>> \in Walls /\ <<15, k>> \in Walls
           /\ <<k, 0>> \in Walls /\ <<k, 15>> \in Walls
  BY CharacterAssumption DEF CharacterAssumption

(* One frame: the new box covers cells the old one covered and cells that  *)
(* can be walked on, and its position is sound.                            *)
LEMMA Entered ==
    ASSUME Sound(<<x, y>>), NEW s \in 1 .. 31,
           NEW free, free \cap Walls = {}, Walk(s, free)
    PROVE  /\ Under(<<x', y'>>) \subseteq Under(<<x, y>>) \union free
           /\ Sound(<<x', y'>>)
  <1>0. x \in Inner /\ y \in Inner /\ Under(<<x, y>>) \cap Walls = {}
    BY DEF Sound
  <1>1. CASE Right(s, free)
    <2>1. PICK r \in 1 .. 14 : /\ Snap(y) = 32 * r
                               /\ r \in {Low(y), High(y)}
                               /\ r \in {y \div 32, (y + 31) \div 32}
      BY <1>0, Snaps DEF Inner
    <2>2. y' = 32 * r /\ x' = x + s /\ <<Cell(Forward(x, s)), r>> \in free
      <3>1. (x + s) % 1024 = x + s
        BY <1>0, Forwards DEF Inner
      <3>2. x' = (x + s) % 1024 /\ y' = Snap(y)
        BY <1>1 DEF Right
      <3>3. /\ <<Cell(Forward(x, s)), Low(y)>> \in free
            /\ <<Cell(Forward(x, s)), High(y)>> \in free
        BY <1>1 DEF Right, Columns
      <3> QED BY ONLY <3>1, <3>2, <3>3, <2>1
    <2>3. /\ y' % 32 = 0 /\ y' \in Inner
          /\ y' \div 32 = r /\ (y' + 31) \div 32 = r
      BY <2>2, Rowed DEF Inner
    <2>4. /\ x' \div 32 \in {x \div 32, (x + 31) \div 32}
          /\ (x' + 31) \div 32 \in {x \div 32, (x + 31) \div 32, Cell(Forward(x, s))}
      <3>1. /\ (x + s) \div 32 \in {x \div 32, (x + 31) \div 32}
            /\ (x + s + 31) \div 32
                  \in {x \div 32, (x + 31) \div 32, Cell(Forward(x, s))}
        BY <1>0, Forwards DEF Inner
      <3> QED BY ONLY <2>2, <3>1
    <2>5. Under(<<x', y'>>) \subseteq Under(<<x, y>>) \union free
      BY <2>1, <2>2, <2>3, <2>4 DEF Under
    <2>6. (x' + 31) \div 32 # 15
      <3>0. r \in Coords
        BY DEF Coords
      <3>1. <<15, r>> \in Walls
        BY <3>0, Bordered
      <3>2. <<(x' + 31) \div 32, r>> \in Under(<<x', y'>>)
        BY <2>3 DEF Under
      <3> QED BY <3>1, <3>2, <2>5, <1>0
    <2>7. x' \in Inner
      BY <1>0, <1>1, <2>2, <2>6 DEF Inner, Right
    <2> QED BY <1>0, <2>3, <2>5, <2>7 DEF Sound
  <1>2. CASE Left(s, free)
    <2>1. PICK r \in 1 .. 14 : /\ Snap(y) = 32 * r
                               /\ r \in {Low(y), High(y)}
                               /\ r \in {y \div 32, (y + 31) \div 32}
      BY <1>0, Snaps DEF Inner
    <2>2. y' = 32 * r /\ x' = x - s /\ <<Cell(Back(x, s)), r>> \in free
      BY <1>0, <1>2, <2>1, Backs DEF Left, Columns, Inner
    <2>3. /\ y' % 32 = 0 /\ y' \in Inner
          /\ y' \div 32 = r /\ (y' + 31) \div 32 = r
      BY <2>2, Rowed DEF Inner
    <2>4. /\ x' \div 32 = Cell(Back(x, s))
          /\ (x' + 31) \div 32 \in {x \div 32, (x + 31) \div 32}
      BY <1>0, <2>2, Backs DEF Inner
    <2>5. Under(<<x', y'>>) \subseteq Under(<<x, y>>) \union free
      BY <2>1, <2>2, <2>3, <2>4 DEF Under
    <2>6. x' \div 32 # 0
      <3>0. r \in Coords
        BY DEF Coords
      <3>1. <<0, r>> \in Walls
        BY <3>0, Bordered
      <3>2. <<x' \div 32, r>> \in Under(<<x', y'>>)
        BY <2>3 DEF Under
      <3> QED BY <3>1, <3>2, <2>5, <1>0
    <2>7. x' \in Inner
      BY <1>0, <1>2, <2>2, <2>6 DEF Inner, Left
    <2> QED BY <1>0, <2>3, <2>5, <2>7 DEF Sound
  <1>3. CASE Down(s, free)
    <2>1. PICK r \in 1 .. 14 : /\ Snap(x) = 32 * r
                               /\ r \in {Low(x), High(x)}
                               /\ r \in {x \div 32, (x + 31) \div 32}
      BY <1>0, Snaps DEF Inner
    <2>2. x' = 32 * r /\ y' = y + s /\ <<r, Cell(Forward(y, s))>> \in free
      <3>1. (y + s) % 1024 = y + s
        BY <1>0, Forwards DEF Inner
      <3>2. y' = (y + s) % 1024 /\ x' = Snap(x)
        BY <1>3 DEF Down
      <3>3. /\ <<Low(x), Cell(Forward(y, s))>> \in free
            /\ <<High(x), Cell(Forward(y, s))>> \in free
        BY <1>3 DEF Down, Rows
      <3> QED BY ONLY <3>1, <3>2, <3>3, <2>1
    <2>3. /\ x' % 32 = 0 /\ x' \in Inner
          /\ x' \div 32 = r /\ (x' + 31) \div 32 = r
      BY <2>2, Rowed DEF Inner
    <2>4. /\ y' \div 32 \in {y \div 32, (y + 31) \div 32}
          /\ (y' + 31) \div 32 \in {y \div 32, (y + 31) \div 32, Cell(Forward(y, s))}
      <3>1. /\ (y + s) \div 32 \in {y \div 32, (y + 31) \div 32}
            /\ (y + s + 31) \div 32
                  \in {y \div 32, (y + 31) \div 32, Cell(Forward(y, s))}
        BY <1>0, Forwards DEF Inner
      <3> QED BY ONLY <2>2, <3>1
    <2>5. Under(<<x', y'>>) \subseteq Under(<<x, y>>) \union free
      BY <2>1, <2>2, <2>3, <2>4 DEF Under
    <2>6. (y' + 31) \div 32 # 15
      <3>0. r \in Coords
        BY DEF Coords
      <3>1. <<r, 15>> \in Walls
        BY <3>0, Bordered
      <3>2. <<r, (y' + 31) \div 32>> \in Under(<<x', y'>>)
        BY <2>3 DEF Under
      <3> QED BY <3>1, <3>2, <2>5, <1>0
    <2>7. y' \in Inner
      BY <1>0, <1>3, <2>2, <2>6 DEF Inner, Down
    <2> QED BY <1>0, <2>3, <2>5, <2>7 DEF Sound
  <1>4. CASE Up(s, free)
    <2>1. PICK r \in 1 .. 14 : /\ Snap(x) = 32 * r
                               /\ r \in {Low(x), High(x)}
                               /\ r \in {x \div 32, (x + 31) \div 32}
      BY <1>0, Snaps DEF Inner
    <2>2. x' = 32 * r /\ y' = y - s /\ <<r, Cell(Back(y, s))>> \in free
      BY <1>0, <1>4, <2>1, Backs DEF Up, Rows, Inner
    <2>3. /\ x' % 32 = 0 /\ x' \in Inner
          /\ x' \div 32 = r /\ (x' + 31) \div 32 = r
      BY <2>2, Rowed DEF Inner
    <2>4. /\ y' \div 32 = Cell(Back(y, s))
          /\ (y' + 31) \div 32 \in {y \div 32, (y + 31) \div 32}
      BY <1>0, <2>2, Backs DEF Inner
    <2>5. Under(<<x', y'>>) \subseteq Under(<<x, y>>) \union free
      BY <2>1, <2>2, <2>3, <2>4 DEF Under
    <2>6. y' \div 32 # 0
      <3>0. r \in Coords
        BY DEF Coords
      <3>1. <<r, 0>> \in Walls
        BY <3>0, Bordered
      <3>2. <<r, y' \div 32>> \in Under(<<x', y'>>)
        BY <2>3 DEF Under
      <3> QED BY <3>1, <3>2, <2>5, <1>0
    <2>7. y' \in Inner
      BY <1>0, <1>4, <2>2, <2>6 DEF Inner, Up
    <2> QED BY <1>0, <2>3, <2>5, <2>7 DEF Sound
  <1>5. CASE Stay
    BY <1>5 DEF Stay
  <1> QED BY <1>1, <1>2, <1>3, <1>4, <1>5 DEF Walk

-----------------------------------------------------------------------------
(* While the map is restored a character is at its Spawn, or one frame away*)
(* from it: in both cases only above cells beside the Spawn.               *)
Swept == sweeping => /\ Under(<<x, y>>) \subseteq Nearby(Spawn)
                     /\ ~moved => <<x, y>> = Spawn

CharacterInv ==
    /\ TypeOK /\ Sound(<<x, y>>)
    /\ NeverInWall /\ Swept

(* A place to start from is sound and above its own cell alone.            *)
LEMMA Starts ==
    ASSUME NEW p \in {Spawn, <<32, 32>>}
    PROVE  /\ Sound(p)
           /\ Under(p) \cap Wood = {}
           /\ Under(p) \subseteq Nearby(p)
  <1>1. PICK i \in Coords, j \in Coords : p = <<32 * i, 32 * j>>
    BY CharacterAssumption DEF CharacterAssumption, Coords
  <1>2. Cell(p[1]) = i /\ Cell(p[2]) = j
    BY <1>1 DEF Cell, Coords
  <1>3. <<i, j>> \notin Walls /\ Nearby(p) \cap Wood = {}
    BY <1>2, RoomAssumption DEF RoomAssumption
  <1>4. i \in 1 .. 14 /\ j \in 1 .. 14
    <2>1. i \notin {0, 15} /\ j \notin {0, 15}
      BY <1>3, Bordered
    <2> QED BY <2>1 DEF Coords
  <1>5. Under(p) = {<<i, j>>}
    BY <1>1, <1>4, Rowed DEF Under
  <1>6. <<i, j>> \in Nearby(p)
    <2>1. <<i + 1, j + 1>> \in Around(<<i, j>>)
      BY <1>4 DEF Around
    <2> QED BY <2>1, <1>2, <1>4 DEF Nearby, Cells, Coords
  <1>7. Sound(p)
    BY <1>1, <1>3, <1>4, <1>5, Rowed DEF Sound, Inner
  <1> QED BY <1>3, <1>5, <1>6, <1>7

(* One frame takes a character from its Spawn to cells beside it.          *)
LEMMA Leaves ==
    ASSUME Sound(<<x, y>>), Sound(<<x', y'>>), <<x, y>> = Spawn,
           NEW s \in 1 .. 31, NEW free, Walk(s, free)
    PROVE  Under(<<x', y'>>) \subseteq Nearby(Spawn)
  <1>1. PICK i \in Coords, j \in Coords : x = 32 * i /\ y = 32 * j
    BY CharacterAssumption DEF CharacterAssumption, Coords
  <1>2. i \in 1 .. 14 /\ j \in 1 .. 14
    BY <1>1 DEF Sound, Inner, Coords
  <1>3. Snap(x) = x /\ Snap(y) = y
    BY <1>1, <1>2 DEF Snap
  <1>4. /\ x' \in {x, x + s, x - s} /\ y' \in {y, y + s, y - s}
    <2>1. /\ (x + s) % 1024 = x + s /\ (y + s) % 1024 = y + s
          /\ Back(x, s) = x - s /\ Back(y, s) = y - s
      BY <1>1, <1>2 DEF Back
    <2> QED BY <1>3, <2>1 DEF Walk, Right, Left, Down, Up, Stay
  <1>5. /\ {x' \div 32, (x' + 31) \div 32} \subseteq i - 1 .. i + 1
        /\ {y' \div 32, (y' + 31) \div 32} \subseteq j - 1 .. j + 1
    BY <1>1, <1>2, <1>4
  <1>6. Cell(Spawn[1]) = i /\ Cell(Spawn[2]) = j
    <2>1. Spawn[1] = 32 * i /\ Spawn[2] = 32 * j
      BY <1>1
    <2> QED BY <1>2, <2>1 DEF Cell
  <1> SUFFICES ASSUME NEW a \in i - 1 .. i + 1, NEW b \in j - 1 .. j + 1
               PROVE  <<a, b>> \in Nearby(Spawn)
    BY <1>5 DEF Under
  <1>7. <<i + 1, j + 1>> \in Around(<<a, b>>)
    <2>1. i + 1 - a \in 0 .. 2 /\ j + 1 - b \in 0 .. 2
      BY <1>2
    <2>2. i + 1 = a + (i + 1 - a) /\ j + 1 = b + (j + 1 - b)
      BY <1>2
    <2> QED BY <2>1, <2>2 DEF Around
  <1> QED BY <1>2, <1>6, <1>7 DEF Nearby, Cells, Coords

LEMMA Initially == Init => CharacterInv
  <1> SUFFICES ASSUME Init PROVE CharacterInv
    OBVIOUS
  <1>1. x = 32 /\ y = 32 /\ wood = Wood /\ shut = {} /\ sweeping = FALSE /\ moved = FALSE
    BY DEF Init
  <1>2. TypeOK
    <2>1. x \in Pixels /\ y \in Pixels
      BY <1>1 DEF Pixels
    <2>2. sweeping \in BOOLEAN /\ moved \in BOOLEAN
      BY <1>1
    <2> QED BY <1>1, <2>1, <2>2 DEF TypeOK
  <1>3. Sound(<<x, y>>) /\ NeverInWall
    BY <1>1, Starts DEF NeverInWall, Sound
  <1> QED BY <1>1, <1>2, <1>3 DEF CharacterInv, Swept

LEMMA Kept == CharacterInv /\ [Next]_vars => CharacterInv'
  <1> SUFFICES ASSUME CharacterInv, [Next]_vars PROVE CharacterInv'
    OBVIOUS
  <1>0. /\ TypeOK /\ Sound(<<x, y>>) /\ NeverInWall /\ Swept
        /\ Walls \cap Wood = {} /\ Steps \subseteq 1 .. 31
    BY CharacterAssumption DEF CharacterInv, CharacterAssumption
  <1>1. CASE Frame
    <2>1. PICK s \in 1 .. 31 : Walk(s, Open)
      BY <1>0, <1>1 DEF Frame
    <2>2. Open \cap (Walls \union wood) = {}
      BY DEF Open
    <2>3. /\ Under(<<x', y'>>) \subseteq Under(<<x, y>>) \union Open
          /\ Sound(<<x', y'>>)
      BY <1>0, <2>1, <2>2, Entered
    <2>4. TypeOK'
      BY <1>0, <1>1, <2>3 DEF TypeOK, Frame, Sound, Inner, Pixels
    <2>5. NeverInWall'
      BY <1>0, <1>1, <2>2, <2>3 DEF NeverInWall, Frame
    <2>6. Swept'
      BY <1>1 DEF Swept, Frame
    <2> QED BY <2>3, <2>4, <2>5, <2>6 DEF CharacterInv
  <1>2. CASE FrameInSweep
    <2>1. PICK s \in 1 .. 31, n \in 0 .. 256 : Walk(s, OpenAt(n))
      BY <1>0, <1>2 DEF FrameInSweep
    <2>2. OpenAt(n) \cap Walls = {}
      BY DEF OpenAt, Open
    <2>3. Sound(<<x', y'>>)
      BY <1>0, <2>1, <2>2, Entered
    <2>4. Under(<<x', y'>>) \subseteq Nearby(Spawn)
      BY <1>0, <1>2, <2>1, <2>3, Leaves DEF FrameInSweep, Swept
    <2>5. TypeOK'
      BY <1>0, <1>2, <2>3 DEF TypeOK, FrameInSweep, Sound, Inner, Pixels
    <2>6. NeverInWall'
      BY <1>0, <1>2, <2>3, <2>4, RoomAssumption
      DEF NeverInWall, FrameInSweep, Sound, RoomAssumption, TypeOK
    <2>7. Swept'
      BY <1>2, <2>4 DEF Swept, FrameInSweep
    <2> QED BY <2>3, <2>5, <2>6, <2>7 DEF CharacterInv
  <1>3. ASSUME NEW c \in Cells, Occupy(c) PROVE CharacterInv'
    BY <1>0, <1>3 DEF CharacterInv, TypeOK, NeverInWall, Swept, Sound, Occupy
  <1>4. ASSUME NEW c \in Cells, Vacate(c) PROVE CharacterInv'
    BY <1>0, <1>4 DEF CharacterInv, TypeOK, NeverInWall, Swept, Sound, Vacate
  <1>5. CASE Reset
    <2>1. /\ <<x', y'>> = Spawn /\ wood' = wood /\ shut' = shut 
          /\ sweeping' = TRUE /\ moved' = FALSE
      BY <1>5, CharacterAssumption DEF Reset, CharacterAssumption
    <2>2. /\ Sound(<<x', y'>>)
          /\ Under(<<x', y'>>) \cap Wood = {}
          /\ Under(<<x', y'>>) \subseteq Nearby(Spawn)
      BY <2>1, Starts
    <2>3. TypeOK'
      <3>1. x' \in Pixels /\ y' \in Pixels
        BY <2>2 DEF Sound, Inner, Pixels
      <3>2. sweeping' \in BOOLEAN /\ moved' \in BOOLEAN
        BY <2>1
      <3> QED BY <1>0, <2>1, <3>1, <3>2 DEF TypeOK
    <2>4. NeverInWall'
      BY <1>0, <2>1, <2>2 DEF NeverInWall, Sound, TypeOK
    <2> QED BY <2>1, <2>2, <2>3, <2>4 DEF CharacterInv, Swept
  <1>6. CASE SweepEnds
    <2>1. Under(<<x, y>>) \cap Wood = {}
      BY <1>0, <1>6, RoomAssumption DEF SweepEnds, Swept, RoomAssumption
    <2>2. TypeOK' /\ NeverInWall'
      BY <1>0, <1>6, <2>1 DEF TypeOK, NeverInWall, SweepEnds, Sound
    <2> QED BY <1>0, <1>6, <2>2 DEF CharacterInv, Sound, Swept, SweepEnds
  <1>7. CASE UNCHANGED vars
    BY <1>0, <1>7 DEF CharacterInv, TypeOK, NeverInWall, Swept, Sound, vars
  <1> QED BY <1>1, <1>2, <1>3, <1>4, <1>5, <1>6, <1>7 DEF Next

LEMMA CharacterInvariant == Spec => []CharacterInv
  BY Initially, Kept, PTL DEF Spec

(* Positions keep the ten bits of their registers.                         *)
THEOREM CharacterTypeCorrect == Spec => []TypeOK
  <1>1. CharacterInv => TypeOK
    BY DEF CharacterInv
  <1> QED BY <1>1, CharacterInvariant, PTL

(* No character ever overlaps a wall or wood, whatever the map, the items, *)
(* the moves, the fires and the Resets.                                    *)
THEOREM CharacterNeverInWall == Spec => []NeverInWall
  <1>1. CharacterInv => NeverInWall
    BY DEF CharacterInv
  <1> QED BY <1>1, CharacterInvariant, PTL

(* A character is always in a row or in a column.                          *)
THEOREM CharacterOnGrid == Spec => []OnGrid
  <1>1. CharacterInv => OnGrid
    BY DEF CharacterInv, Sound, OnGrid
  <1> QED BY <1>1, CharacterInvariant, PTL

(* A frame takes a character only into cells that can be walked on.        *)
THEOREM CharacterEntersOnlyOpen == Spec => EntersOnlyOpen
  <1>1. CharacterInv /\ [Next]_vars
          => [Frame => Under(<<x, y>>)' \ Under(<<x, y>>) \subseteq Open]_vars
    <2> SUFFICES ASSUME CharacterInv, Frame
                 PROVE  Under(<<x, y>>)' \ Under(<<x, y>>) \subseteq Open
      OBVIOUS
    <2>1. PICK s \in 1 .. 31 : Walk(s, Open)
      BY CharacterAssumption DEF CharacterAssumption, Frame
    <2>2. Open \cap Walls = {}
      BY DEF Open
    <2>3. Under(<<x', y'>>) \subseteq Under(<<x, y>>) \union Open
      BY <2>1, <2>2, Entered DEF CharacterInv
    <2> QED BY <2>3
  <1> QED BY <1>1, CharacterInvariant, PTL DEF Spec, EntersOnlyOpen

-----------------------------------------------------------------------------
(***************************************************************************)
(* The effects of items.                                                   *)
(***************************************************************************)
\* The limits are met exactly: from Reset on the properties move in steps of
\* 8 from values that are a multiple of 8 away from both.
Eights == {16, 24, 32, 40, 48, 56, 64, 72, 80}
InSteps == wasReset => /\ step \in 1 .. 5 /\ size \in 0 .. 3
                       /\ delay \in Eights /\ cooldown \in Eights

LEMMA Below ==
  ASSUME NEW n \in Nat, NEW m \in Nat, n < m
  PROVE  n % m = n
OBVIOUS

LEMMA Wrapped ==
  ASSUME NEW v \in Nat, NEW n \in Nat, n <= v, NEW m \in Nat, v < m
  PROVE  (v + m - n) % m = v - n
<1>1. v - n \in Nat /\ v - n < m /\ v + m - n = (v - n) + m
  OBVIOUS
<1>. DEFINE d == v - n
<1>2. \A e \in Nat : e < m => (e + m) % m = e
  OBVIOUS
<1>. QED  BY <1>1, <1>2

\* Up or down by one step of n, the register does not wrap within the limits.
LEMMA StaysOnSteps ==
  /\ \A v \in 1 .. 5 : More(v, 1, 5) \in 1 .. 5 /\ Less(v, 1, 1) \in 1 .. 5
  /\ \A v \in Eights : More(v, 8, 80) \in Eights /\ Less(v, 8, 16) \in Eights
<1>1. \A v \in 1 .. 5 : /\ v # 5 => (v + 1) % BuffSpan = v + 1
                        /\ v # 1 => (v + BuffSpan - 1) % BuffSpan = v - 1
  <2>1. ASSUME NEW v \in 1 .. 5, v # 1 PROVE (v + BuffSpan - 1) % BuffSpan = v - 1
    BY <2>1, BuffAssumption, Wrapped DEF BuffAssumption
  <2>. QED  BY <2>1, BuffAssumption, Below DEF BuffAssumption
<1>2. \A v \in Eights : /\ v # 80 => (v + 8) % BuffSpan = v + 8
                        /\ v # 16 => (v + BuffSpan - 8) % BuffSpan = v - 8
  <2>1. ASSUME NEW v \in Eights, v # 16 PROVE (v + BuffSpan - 8) % BuffSpan = v - 8
    BY <2>1, BuffAssumption, Wrapped DEF BuffAssumption, Eights
  <2>. QED  BY <2>1, BuffAssumption, Below DEF BuffAssumption, Eights
<1>3. \A v \in Eights : (v # 80 => v + 8 \in Eights) /\ (v # 16 => v - 8 \in Eights)
  BY DEF Eights
<1>. QED  BY <1>1, <1>2, <1>3 DEF More, Less

\* From the first Reset on no sequence of items takes a property past its
\* limits.
THEOREM BuffsStayInRange == BuffSpec => []BuffsInRange
<1>. USE DEF step_max, step_min, delay_max, delay_min, cooldown_max, cooldown_min
<1>1. BuffInit => InSteps
  BY DEF BuffInit, InSteps
<1>2. InSteps /\ [BuffNext]_buffVars => InSteps'
  <2>. SUFFICES ASSUME InSteps, [BuffNext]_buffVars PROVE InSteps'
    OBVIOUS
  <2>1. CASE BuffReset
    BY <2>1 DEF BuffReset, InSteps, Eights
  <2>2. ASSUME NEW debuff \in BOOLEAN, ChangeStep(debuff) PROVE InSteps'
    BY <2>2, StaysOnSteps DEF ChangeStep, InSteps
  <2>3. ASSUME NEW debuff \in BOOLEAN, ChangeSize(debuff) PROVE InSteps'
    BY <2>3 DEF ChangeSize, InSteps
  <2>4. ASSUME NEW debuff \in BOOLEAN, ChangeDelay(debuff) PROVE InSteps'
    BY <2>4, StaysOnSteps DEF ChangeDelay, InSteps
  <2>5. ASSUME NEW debuff \in BOOLEAN, ChangeCooldown(debuff) PROVE InSteps'
    BY <2>5, StaysOnSteps DEF ChangeCooldown, InSteps
  <2>6. CASE UNCHANGED buffVars
    BY <2>6 DEF buffVars, InSteps
  <2>. QED  BY <2>1, <2>2, <2>3, <2>4, <2>5, <2>6 DEF BuffNext
<1>3. InSteps => BuffsInRange
  BY DEF InSteps, BuffsInRange, Eights
<1>. QED  BY <1>1, <1>2, <1>3, PTL DEF BuffSpec

(***************************************************************************)
(* The score.                                                              *)
(***************************************************************************)
Counted == points \in Nat /\ ScoreShown

\* Two digits of a number, and what the next number does to them.
Digits(n) == 16 * ((n \div 10) % 16) + (n % 10)

LEMMA DigitsOf ==
    ASSUME NEW n \in Nat
    PROVE  /\ Digits(n) \in 0 .. 255
           /\ Digits(n) % 16 = n % 10
           /\ Digits(n) \div 16 = (n \div 10) % 16
<1>1. (n \div 10) % 16 \in 0 .. 15 /\ n % 10 \in 0 .. 9
  <2>1. n \div 10 \in Nat
    OBVIOUS
  <2>. QED  BY <2>1
<1>2. \A p \in 0 .. 15, r \in 0 .. 9 :
        /\ 16 * p + r \in 0 .. 255
        /\ (16 * p + r) % 16 = r /\ (16 * p + r) \div 16 = p
  OBVIOUS
<1>. QED  BY <1>1, <1>2 DEF Digits

LEMMA Carries ==
    ASSUME NEW n \in Nat, n % 10 = 9
    PROVE  Digits(n + 1) = 16 * ((Digits(n) \div 16 + 1) % 16)
<1>. DEFINE q == n \div 10
<1>1. q \in Nat /\ (n + 1) \div 10 = q + 1 /\ (n + 1) % 10 = 0
  OBVIOUS
<1>2. Digits(n + 1) = 16 * ((q + 1) % 16)
  <2>1. 16 * ((q + 1) % 16) + 0 = 16 * ((q + 1) % 16)
    BY <1>1
  <2>. QED  BY <1>1, <2>1 DEF Digits
<1>3. \A k \in Nat : (k + 1) % 16 = ((k % 16) + 1) % 16
  OBVIOUS
<1>. QED  BY <1>1, <1>2, <1>3, DigitsOf

LEMMA CountsOn ==
    ASSUME NEW n \in Nat, n % 10 # 9
    PROVE  Digits(n + 1) = (Digits(n) + 1) % 256
<1>. DEFINE p == (n \div 10) % 16
            r == n % 10
<1>1. (n + 1) \div 10 = n \div 10 /\ (n + 1) % 10 = r + 1
  OBVIOUS
<1>2. p \in 0 .. 15 /\ r \in 0 .. 8
  <2>1. n \div 10 \in Nat
    OBVIOUS
  <2>. QED  BY <2>1
<1>3. Digits(n) = 16 * p + r /\ Digits(n + 1) = 16 * p + (r + 1)
  BY <1>1 DEF Digits
<1>4. \A d \in 0 .. 15, e \in 0 .. 8 : 16 * d + (e + 1) = (16 * d + e + 1) % 256
  OBVIOUS
<1>. QED  BY <1>2, <1>3, <1>4

\* The display shows the points, for every number of points.
THEOREM ScoreIsShown == ScoreSpec => []ScoreShown
<1>1. ScoreInit => Counted
  BY DEF ScoreInit, Counted, ScoreShown
<1>2. Counted /\ [ScoreStep]_scoreVars => Counted'
  <2>. SUFFICES ASSUME Counted, [ScoreStep]_scoreVars PROVE Counted'
    OBVIOUS
  <2>1. CASE ScoreCycle
    <3>1. PICK hits \in SUBSET Ports :
             /\ score' = ScoreNext(Gain(hits))
             /\ points' = IF Gain(hits) THEN points + 1 ELSE points
      BY <2>1 DEF ScoreCycle
    <3>2. CASE Gain(hits)
      <4>1. /\ points \in Nat /\ points' = points + 1
            /\ score = Digits(points)
        BY <3>1, <3>2 DEF Counted, ScoreShown, Digits
      <4>2. score' = IF score % 16 = 9 THEN 16 * ((score \div 16 + 1) % 16)
                     ELSE (score + 1) % 256
        BY <3>1, <3>2 DEF ScoreNext
      <4>3. score' = Digits(points + 1)
        BY <4>1, <4>2, DigitsOf, Carries, CountsOn
      <4>. QED  BY <4>1, <4>3 DEF Counted, ScoreShown, Digits
    <3>3. CASE ~Gain(hits)
      BY <3>1, <3>3 DEF ScoreNext, Counted, ScoreShown
    <3>. QED  BY <3>2, <3>3
  <2>2. CASE ScoreReset
    BY <2>2 DEF ScoreReset, Counted, ScoreShown
  <2>3. CASE ScoreTick \/ UNCHANGED scoreVars
    BY <2>3 DEF ScoreTick, scoreVars, Counted, ScoreShown
  <2>. QED  BY <2>1, <2>2, <2>3 DEF ScoreStep
<1>3. Counted => ScoreShown
  BY DEF Counted
<1>. QED  BY <1>1, <1>2, <1>3, PTL DEF ScoreSpec

(***************************************************************************)
(* The colour. While the player is red, time2 is the tick of the last hit, *)
(* so the timer tells how long ago that was: the window is shorter than a  *)
(* turn of the timer, and meets its end in one tick only.                  *)
(***************************************************************************)
Timed ==
    /\ timer \in 0 .. TimerSpan - 1 /\ time \in 0 .. TimerSpan - 1
    /\ since \in 0 .. Window + 1
    /\ state \in {"WAIT", "P"}
    /\ (state = "P" => red) /\ (state = "WAIT" => ~red)
    /\ state = "P" => /\ ~lost /\ timer = After(time, since)
                      /\ since <= Window /\ (since = Window => ticked)
    /\ state = "WAIT" => lost \/ since >= Window

LEMMA AfterFacts ==
    ASSUME NEW t \in 0 .. TimerSpan - 1
    PROVE  /\ After(t, 0) = t
           /\ \A k \in 0 .. Window : /\ After(t, k) \in 0 .. TimerSpan - 1
                                     /\ After(After(t, k), 1) = After(t, k + 1)
                                     /\ After(t, k) = After(t, Window) => k = Window
BY ScoreAssumption DEF After

\* A player is red for the window after the last hit, for every length of the
\* window and every width of the timer.
THEOREM RedShowsHits == ScoreSpec => []RedAfterHit
<1>1. ScoreInit => Timed
  BY ScoreAssumption DEF ScoreInit, Timed
<1>2. Timed /\ [ScoreStep]_scoreVars => Timed'
  <2>. SUFFICES ASSUME Timed, [ScoreStep]_scoreVars PROVE Timed'
    OBVIOUS
  <2>0. Window \in Nat /\ 0 < Window /\ TimerSpan \in Nat /\ Window + 1 < TimerSpan
    BY ScoreAssumption
  <2>t. timer \in 0 .. TimerSpan - 1 /\ time \in 0 .. TimerSpan - 1
    BY DEF Timed
  <2>1. ASSUME NEW hits \in SUBSET Ports,
               HitNext(Gain(hits)),
               since' = (IF Gain(hits) THEN 0 ELSE since),
               lost' = (IF Gain(hits) THEN Expires ELSE lost),
               ticked' = FALSE, timer' = timer
        PROVE  Timed'
    <3>1. CASE state = "WAIT"
      <4>1. CASE Gain(hits)
        <5>1. /\ state' = "P" /\ red' = TRUE /\ time' = timer
              /\ since' = 0 /\ lost' = FALSE
          BY <2>1, <3>1, <4>1 DEF HitNext, Expires
        <5>2. timer' = After(time', since')
          BY <2>1, <2>t, <5>1, AfterFacts
        <5>. QED  BY <2>0, <2>1, <2>t, <5>1, <5>2 DEF Timed
      <4>2. CASE ~Gain(hits)
        <5>1. /\ state' = "WAIT" /\ red' = FALSE /\ time' = timer
              /\ since' = since /\ lost' = lost
          BY <2>1, <3>1, <4>2 DEF HitNext
        <5>. QED  BY <2>0, <2>1, <3>1, <5>1 DEF Timed
      <4>. QED  BY <4>1, <4>2
    <3>2. CASE state = "P" /\ Expires
      <4>1. state' = "WAIT" /\ red' = FALSE /\ time' = timer
        BY <2>1, <3>2 DEF HitNext
      <4>2. since = Window
        <5>1. timer = After(time, since) /\ timer = After(time, Window) /\ since \in 0 .. Window
          BY <2>0, <3>2 DEF Timed, Expires
        <5>2. After(time, since) = After(time, Window) => since = Window
          BY <2>t, <5>1, AfterFacts
        <5>. QED  BY <5>1, <5>2
      <4>3. since' \in 0 .. Window + 1 /\ (lost' \/ since' >= Window)
        BY <2>0, <2>1, <3>2, <4>2
      <4>. QED  BY <2>1, <2>t, <4>1, <4>3 DEF Timed
    <3>3. CASE state = "P" /\ ~Expires
      <4>1. /\ state' = "P" /\ red' = TRUE
            /\ time' = IF Gain(hits) THEN timer ELSE time
        BY <2>1, <3>3 DEF HitNext
      <4>2. ~lost'
        BY <2>1, <3>3 DEF Timed
      <4>3. CASE Gain(hits)
        <5>1. time' = timer /\ since' = 0
          BY <2>1, <4>1, <4>3
        <5>2. timer' = After(time', since')
          BY <2>1, <2>t, <5>1, AfterFacts
        <5>. QED  BY <2>0, <2>1, <2>t, <4>1, <4>2, <5>1, <5>2 DEF Timed
      <4>4. CASE ~Gain(hits)
        <5>1. time' = time /\ since' = since
          BY <2>1, <4>1, <4>4
        <5>2. since # Window
          BY <3>3 DEF Timed, Expires
        <5>3. timer' = After(time', since') /\ since' <= Window /\ since' # Window
          BY <2>1, <3>3, <5>1, <5>2 DEF Timed, After
        <5>. QED  BY <2>0, <2>1, <2>t, <4>1, <4>2, <5>1, <5>3 DEF Timed
      <4>. QED  BY <4>3, <4>4
    <3>. QED  BY <3>1, <3>2, <3>3 DEF Timed
  <2>2. CASE ScoreReset
    <3>1. /\ state' = "WAIT" /\ red' = FALSE /\ since' = Window + 1 /\ timer' = timer
          /\ time' \in 0 .. TimerSpan - 1
      BY <2>2, <2>t DEF ScoreReset
    <3>. QED  BY <2>0, <2>t, <3>1 DEF Timed
  <2>3. CASE ScoreTick
    <3>1. /\ ~ticked /\ ticked' = TRUE /\ timer' = After(timer, 1)
          /\ since' = IF since > Window THEN since ELSE since + 1
          /\ state' = state /\ red' = red /\ time' = time /\ lost' = lost
      BY <2>3 DEF ScoreTick
    <3>2. After(timer, 0) = timer /\ After(timer, 1) \in 0 .. TimerSpan - 1
      BY <2>0, <2>t, AfterFacts
    <3>3. CASE state = "WAIT"
      BY <2>0, <2>t, <3>1, <3>2, <3>3 DEF Timed
    <3>4. CASE state = "P"
      <4>1. since \in 0 .. Window /\ since # Window /\ timer = After(time, since) /\ ~lost
        BY <2>0, <3>1, <3>4 DEF Timed
      <4>2. since' = since + 1 /\ since' \in 0 .. Window
        BY <2>0, <3>1, <4>1
      <4>3. timer' = After(time', since')
        <5>1. After(After(time, since), 1) = After(time, since + 1)
          BY <2>t, <4>1, AfterFacts
        <5>. QED  BY <3>1, <4>1, <4>2, <5>1
      <4>. QED  BY <2>0, <2>t, <3>1, <3>2, <3>4, <4>1, <4>2, <4>3 DEF Timed
    <3>. QED  BY <3>3, <3>4 DEF Timed
  <2>4. CASE UNCHANGED scoreVars
    BY <2>4 DEF scoreVars, Timed, After
  <2>5. CASE ScoreCycle
    BY <2>1, <2>5 DEF ScoreCycle
  <2>. QED  BY <2>2, <2>3, <2>4, <2>5 DEF ScoreStep
<1>3. Timed => RedAfterHit
  BY ScoreAssumption DEF Timed, RedAfterHit
<1>. QED  BY <1>1, <1>2, <1>3, PTL DEF ScoreSpec

-----------------------------------------------------------------------------
(***************************************************************************)
(* The items.  From the look at the map until the write of path has landed *)
(* the cell of the character counts for nothing: the item that may lie     *)
(* there is the one that took effect, and what else is put there in the    *)
(* meantime is lost.  Owed says that such a write is still to come.        *)
(***************************************************************************)
Orders == (0 .. 15) \X {"item", "path"}
Owed   == asks \/ \E i \in 1 .. Len(pending) : pending[i] = <<At(spot), "path">>

(* The items on the map that have not taken effect.                        *)
Lying == IF Owed THEN board \ {At(spot)} ELSE board

(* The items among the writes on their way; there are at most three.       *)
OnTheWay(s, i) == IF i \in 1 .. Len(s) /\ s[i][2] = "item" THEN 1 ELSE 0
Coming(s)      == OnTheWay(s, 1) + OnTheWay(s, 2) + OnTheWay(s, 3)

ItemsInv ==
    /\ asks \in BOOLEAN /\ slipped \in BOOLEAN
    /\ put \in Nat /\ taken \in Nat /\ spot \in Nat
    /\ pending \in Seq(Orders) /\ Len(pending) <= 3
    /\ asks => Len(pending) <= 2
    /\ IsFiniteSet(board)
    /\ ~slipped => taken + Cardinality(Lying) + Coming(pending) <= put

LEMMA CellOfPixel == \A p \in Nat : At(p) \in 0 .. 15
  BY DEF At

LEMMA ComingAppended ==
    ASSUME NEW s \in Seq(Orders), Len(s) <= 2, NEW e \in Orders
    PROVE  /\ Append(s, e) \in Seq(Orders)
           /\ Len(Append(s, e)) = Len(s) + 1
           /\ \A i \in 1 .. Len(s) : Append(s, e)[i] = s[i]
           /\ Append(s, e)[Len(s) + 1] = e
           /\ Coming(Append(s, e)) = Coming(s) + (IF e[2] = "item" THEN 1 ELSE 0)
  <1> DEFINE t == Append(s, e)
  <1>1. /\ t \in Seq(Orders) /\ Len(t) = Len(s) + 1 /\ t[Len(s) + 1] = e
        /\ \A i \in 1 .. Len(s) : t[i] = s[i]
    OBVIOUS
  <1>2. Len(s) \in {0, 1, 2}
    <2>1. Len(s) \in Nat
      OBVIOUS
    <2>2. \A n \in Nat : n <= 2 => n \in {0, 1, 2}
      OBVIOUS
    <2> QED BY <2>1, <2>2
  <1> HIDE DEF t
  <1>3. Coming(t) = Coming(s) + (IF e[2] = "item" THEN 1 ELSE 0)
    BY <1>1, <1>2 DEF Coming, OnTheWay
  <1> QED BY <1>1, <1>3 DEF t

LEMMA ComingLanded ==
    ASSUME NEW s \in Seq(Orders), Len(s) <= 3, s # <<>>
    PROVE  /\ Tail(s) \in Seq(Orders)
           /\ Len(Tail(s)) = Len(s) - 1 /\ Len(s) >= 1
           /\ \A i \in 1 .. Len(s) - 1 : Tail(s)[i] = s[i + 1]
           /\ Head(s) = s[1] /\ s[1] \in Orders
           /\ Coming(s) = Coming(Tail(s)) + (IF s[1][2] = "item" THEN 1 ELSE 0)
  <1> DEFINE t == Tail(s)
  <1>1. /\ t \in Seq(Orders) /\ Len(t) = Len(s) - 1 /\ Len(s) >= 1
        /\ \A i \in 1 .. Len(s) - 1 : t[i] = s[i + 1]
        /\ Head(s) = s[1] /\ s[1] \in Orders
    OBVIOUS
  <1>2. Len(s) \in {1, 2, 3}
    BY <1>1
  <1> HIDE DEF t
  <1>3. Coming(s) = Coming(t) + (IF s[1][2] = "item" THEN 1 ELSE 0)
    BY <1>1, <1>2 DEF Coming, OnTheWay
  <1> QED BY <1>1, <1>3 DEF t

LEMMA ComingIsNatural == \A s : Coming(s) \in Nat
  BY DEF Coming, OnTheWay

LEMMA LyingIsFinite ==
    ASSUME IsFiniteSet(board)
    PROVE  IsFiniteSet(Lying) /\ Cardinality(Lying) \in Nat
  <1>1. IsFiniteSet(Lying)
    BY FS_RemoveElement DEF Lying
  <1> QED BY <1>1, FS_CardinalityType

(* On a frame edge nothing is on its way; the item that takes effect does  *)
(* not count any more.                                                     *)
LEMMA EdgeOK ==
    ASSUME ItemsInv, ItemCycle(TRUE)
    PROVE  ItemsInv'
  <1>1. /\ ~asks /\ pending = <<>> /\ ~slipped
        /\ pending' = pending /\ board' = board /\ put' = put
        /\ spot' \in Nat
    <2>1. Line \in Nat
      BY ItemsAssumption
    <2> QED BY <2>1 DEF ItemCycle, Moves
  <1>2. Len(pending) = 0 /\ Coming(pending) = 0 /\ Lying = board
    BY <1>1 DEF Coming, OnTheWay, Lying, Owed
  <1>3. /\ taken + Cardinality(board) <= put
        /\ taken \in Nat /\ put \in Nat /\ Cardinality(board) \in Nat
    BY <1>1, <1>2, LyingIsFinite DEF ItemsInv
  <1>4. CASE At(spot) \in board
    <2>1. /\ asks' = TRUE /\ taken' = taken + 1
          /\ slipped' = (At(spot') # At(spot))
      BY <1>1, <1>4 DEF ItemCycle, Picks
    <2>2. ~slipped' => Lying' = board \ {At(spot)}
      BY <1>1, <2>1 DEF Lying, Owed
    <2>3. Cardinality(board \ {At(spot)}) = Cardinality(board) - 1
      BY <1>4, FS_RemoveElement DEF ItemsInv
    <2>4. Coming(pending') = 0 /\ Len(pending') <= 2
      BY <1>1, <1>2
    <2>5. ~slipped' => taken' + Cardinality(Lying') + Coming(pending') <= put'
      <3>1. ~slipped' => Cardinality(Lying') = Cardinality(board) - 1
        BY <2>2, <2>3
      <3>2. put' = put /\ Coming(pending') = 0 /\ taken' = taken + 1
        BY <1>1, <2>1, <2>4
      <3> QED BY ONLY <1>3, <3>1, <3>2
    <2> QED BY <1>1, <1>3, <2>1, <2>4, <2>5 DEF ItemsInv
  <1>5. CASE At(spot) \notin board
    <2>1. asks' = FALSE /\ taken' = taken /\ slipped' = FALSE
      BY <1>1, <1>5 DEF ItemCycle, Picks
    <2>2. Lying' = board
      BY <1>1, <1>2, <2>1 DEF Lying, Owed
    <2> QED BY <1>1, <1>2, <1>3, <2>1, <2>2 DEF ItemsInv
  <1> QED BY <1>4, <1>5

(* On any other edge a write that was asked for joins those on their way.  *)
LEMMA CycleOK ==
    ASSUME ItemsInv, ItemCycle(FALSE)
    PROVE  ItemsInv'
  <1>1. /\ asks' = FALSE /\ taken' = taken /\ spot' = spot
        /\ board' = board /\ put' = put
    BY DEF ItemCycle, Picks
  <1>2. slipped' = slipped
    BY DEF ItemCycle, Picks, ItemsInv
  <1>3. CASE asks
    <2>1. <<At(spot), "path">> \in Orders
      BY CellOfPixel DEF ItemsInv, Orders
    <2>2. pending' = Append(pending, <<At(spot), "path">>)
      BY <1>3 DEF ItemCycle
    <2>3. /\ pending' \in Seq(Orders) /\ Len(pending') = Len(pending) + 1
          /\ pending'[Len(pending) + 1] = <<At(spot), "path">>
          /\ Coming(pending') = Coming(pending)
      <3>1. pending \in Seq(Orders) /\ Len(pending) <= 2
        BY <1>3 DEF ItemsInv
      <3>2. Coming(pending') = Coming(pending) + 0
        BY <3>1, <2>1, <2>2, ComingAppended
      <3> QED BY <3>1, <3>2, <2>1, <2>2, ComingAppended, ComingIsNatural
    <2>4. Len(pending') \in 1 .. 3 /\ Owed'
      BY <1>1, <1>3, <2>3 DEF Owed, ItemsInv
    <2>5. Lying' = Lying
      BY <1>1, <1>3, <2>4 DEF Lying, Owed
    <2>6. Cardinality(Lying') = Cardinality(Lying) /\ Coming(pending)' = Coming(pending)
      BY <2>3, <2>5
    <2>7. Len(pending') <= 3
      <3>1. Len(pending) \in Nat /\ Len(pending) <= 2
        BY <1>3 DEF ItemsInv
      <3>2. Len(pending') = Len(pending) + 1
        BY <2>3
      <3> QED BY ONLY <3>1, <3>2
    <2>8. ~asks'
      BY ONLY <1>1
    <2> QED BY <1>1, <1>2, <2>3, <2>6, <2>7, <2>8 DEF ItemsInv
  <1>4. CASE ~asks
    <2>1. pending' = pending
      BY <1>4 DEF ItemCycle
    <2>2. Lying' = Lying
      BY <1>1, <1>4, <2>1 DEF Lying, Owed
    <2> QED BY <1>1, <1>2, <1>4, <2>1, <2>2 DEF ItemsInv
  <1> QED BY <1>3, <1>4

(* A write lands: an item on its way becomes one that lies there, or is    *)
(* lost on a cell that waits for path.                                     *)
LEMMA LandOK ==
    ASSUME ItemsInv, Land
    PROVE  ItemsInv'
  <1>1. /\ pending # <<>> /\ pending' = Tail(pending)
        /\ spot' = spot /\ asks' = asks /\ put' = put /\ taken' = taken /\ slipped' = slipped
        /\ pending \in Seq(Orders) /\ Len(pending) <= 3
    BY DEF Land, ItemsInv
  <1> DEFINE w == pending[1]
             c == At(spot)
  <1>2. /\ pending' \in Seq(Orders) /\ Len(pending') = Len(pending) - 1
        /\ \A i \in 1 .. Len(pending) - 1 : pending'[i] = pending[i + 1]
        /\ Len(pending) >= 1 /\ Head(pending) = w /\ w \in Orders
        /\ Coming(pending) = Coming(pending') + (IF w[2] = "item" THEN 1 ELSE 0)
    BY <1>1, ComingLanded
  <1>3. board' = IF w[2] = "item" THEN board \union {w[1]} ELSE board \ {w[1]}
    BY <1>2 DEF Land
  <1>4. IsFiniteSet(board') /\ IsFiniteSet(Lying) /\ Cardinality(Lying) \in Nat
    BY <1>3, LyingIsFinite, FS_AddElement, FS_RemoveElement DEF ItemsInv
  <1>5. w = <<w[1], w[2]>> /\ w[2] \in {"item", "path"}
    BY <1>2 DEF Orders
  <1> HIDE DEF w, c
  <1>6. w # <<c, "path">> => (Owed' <=> Owed)
    <2>1. \A i \in 1 .. Len(pending) : i = 1 \/ (i - 1 \in 1 .. Len(pending)'
                                                /\ pending'[i - 1] = pending[i])
      BY <1>1, <1>2
    <2>2. \A i \in 1 .. Len(pending)' : i + 1 \in 1 .. Len(pending) /\ pending'[i] = pending[i + 1]
      BY <1>1, <1>2
    <2> QED BY <1>1, <2>1, <2>2 DEF Owed, w, c
  <1>7. w = <<c, "path">> => Owed
    BY <1>1, <1>2 DEF Owed, w, c
  <1>8. \/ Lying' \subseteq Lying
        \/ w[2] = "item" /\ Lying' = Lying \union {w[1]}
    <2>1. CASE w = <<c, "path">>
      <3>1. board' = board \ {c} /\ Lying = board \ {c}
        BY <1>3, <1>7, <2>1 DEF Lying, c
      <3> QED BY <3>1 DEF Lying
    <2>2. CASE w # <<c, "path">> /\ w[2] = "path"
      BY <1>1, <1>3, <1>6, <2>2 DEF Lying, c
    <2>3. CASE w[2] = "item"
      <3>1. w # <<c, "path">>
        BY <2>3
      <3>2. CASE Owed
        <4>1. Lying = board \ {c} /\ Lying' = (board \union {w[1]}) \ {c}
          BY <1>1, <1>3, <1>6, <2>3, <3>1, <3>2 DEF Lying, c
        <4> QED BY <4>1, <2>3
      <3>3. CASE ~Owed
        BY <1>1, <1>3, <1>6, <2>3, <3>1, <3>3 DEF Lying
      <3> QED BY <3>2, <3>3
    <2> QED BY <1>5, <2>1, <2>2, <2>3
  <1>9. Cardinality(Lying') <= Cardinality(Lying) + (IF w[2] = "item" THEN 1 ELSE 0)
        /\ Cardinality(Lying') \in Nat
    <2>1. CASE Lying' \subseteq Lying
      <3>1. Cardinality(Lying') <= Cardinality(Lying) /\ IsFiniteSet(Lying')
        BY <1>4, <2>1, FS_Subset
      <3> QED BY <1>4, <3>1, FS_CardinalityType
    <2>2. CASE w[2] = "item" /\ Lying' = Lying \union {w[1]}
      <3>1. Cardinality(Lying') \in {Cardinality(Lying), Cardinality(Lying) + 1}
        BY <1>4, <2>2, FS_AddElement
      <3> QED BY <1>4, <2>2, <3>1
    <2> QED BY <1>8, <2>1, <2>2
  <1>10. ~slipped' => taken' + Cardinality(Lying') + Coming(pending') <= put'
    BY <1>1, <1>2, <1>4, <1>9, ComingIsNatural DEF ItemsInv
  <1>11. Len(pending') <= 3 /\ (asks' => Len(pending') <= 2)
    <2>1. asks => Len(pending) <= 2
      BY DEF ItemsInv
    <2> QED BY <1>1, <1>2, <2>1
  <1> QED BY <1>1, <1>2, <1>4, <1>10, <1>11 DEF ItemsInv

(* A write of an explosion joins those on their way.                       *)
LEMMA UncoverOK ==
    ASSUME ItemsInv, NEW cell \in Places, Uncover(cell)
    PROVE  ItemsInv'
  <1>1. cell \in 0 .. 15
    <2>1. Line \in Nat
      BY ItemsAssumption
    <2> QED BY <2>1, CellOfPixel DEF Places
  <1>2. PICK what \in {"item", "path"} :
           /\ pending' = Append(pending, <<cell, what>>)
           /\ put' = IF what = "item" THEN put + 1 ELSE put
    BY DEF Uncover
  <1>3. /\ Len(pending) < 2
        /\ spot' = spot /\ board' = board /\ asks' = asks /\ taken' = taken
        /\ slipped' = slipped
    BY DEF Uncover
  <1>4. pending \in Seq(Orders) /\ Len(pending) <= 2 /\ <<cell, what>> \in Orders
    <2>1. pending \in Seq(Orders) /\ Len(pending) \in Nat
      BY DEF ItemsInv
    <2>2. <<cell, what>> \in Orders
      BY <1>1 DEF Orders
    <2> QED BY <1>3, <2>1, <2>2
  <1>5. /\ pending' \in Seq(Orders) /\ Len(pending') = Len(pending) + 1
        /\ \A i \in 1 .. Len(pending) : pending'[i] = pending[i]
        /\ Coming(pending') = Coming(pending) + (IF what = "item" THEN 1 ELSE 0)
    BY <1>2, <1>4, ComingAppended
  <1>6. Owed => Owed'
    BY <1>3, <1>4, <1>5 DEF Owed
  <1>7. Lying' \subseteq Lying
    BY <1>3, <1>6 DEF Lying
  <1>8. IsFiniteSet(Lying) /\ Cardinality(Lying) \in Nat
    BY LyingIsFinite DEF ItemsInv
  <1>9. Cardinality(Lying') <= Cardinality(Lying) /\ Cardinality(Lying') \in Nat
    BY <1>7, <1>8, FS_Subset, FS_CardinalityType
  <1>10. ~slipped' => taken' + Cardinality(Lying') + Coming(pending') <= put'
    BY <1>2, <1>3, <1>5, <1>8, <1>9, ComingIsNatural DEF ItemsInv
  <1> QED BY <1>2, <1>3, <1>4, <1>5, <1>10 DEF ItemsInv

(* An item takes effect once, for every set of steps and length of the     *)
(* line and any number of items, unless the character slips out of its cell*)
(* in the very frame (buff.sv, BomberMan_top.sv:139-171).                  *)
THEOREM ItemsTakenOnce == ItemsInit /\ [][ItemsNext]_itemVars => []TakenOnce
  <1>1. ItemsInit => ItemsInv
    <2> SUFFICES ASSUME ItemsInit PROVE ItemsInv
      OBVIOUS
    <2>1. /\ board = {} /\ asks = FALSE /\ pending = <<>> /\ put = 0 /\ taken = 0
          /\ slipped = FALSE /\ spot = 0
      BY DEF ItemsInit
    <2>2. Lying = {} /\ Coming(pending) = 0
      BY <2>1 DEF Lying, Coming, OnTheWay
    <2>3. IsFiniteSet({}) /\ Cardinality({}) = 0
      BY FS_EmptySet
    <2>4. Len(pending) = 0 /\ pending \in Seq(Orders)
      BY <2>1
    <2>5. IsFiniteSet(board) /\ taken + Cardinality(Lying) + Coming(pending) <= put
      BY <2>1, <2>2, <2>3
    <2>6. /\ asks \in BOOLEAN /\ slipped \in BOOLEAN
          /\ put \in Nat /\ taken \in Nat /\ spot \in Nat
      BY <2>1
    <2>7. Len(pending) <= 3 /\ (asks => Len(pending) <= 2)
      BY <2>4
    <2> QED BY ONLY <2>4, <2>5, <2>6, <2>7 DEF ItemsInv
  <1>2. ItemsInv /\ [ItemsNext]_itemVars => ItemsInv'
    <2> SUFFICES ASSUME ItemsInv, [ItemsNext]_itemVars PROVE ItemsInv'
      OBVIOUS
    <2>1. CASE UNCHANGED itemVars
      BY <2>1 DEF itemVars, ItemsInv, Lying, Owed
    <2>2. CASE ItemCycle(TRUE) \/ ItemCycle(FALSE) \/ Land
      BY <2>2, EdgeOK, CycleOK, LandOK
    <2>3. CASE \E c \in Places : Uncover(c)
      BY <2>3, UncoverOK
    <2> QED BY <2>1, <2>2, <2>3 DEF ItemsNext
  <1>3. ItemsInv => TakenOnce
    <2> SUFFICES ASSUME ItemsInv, ~slipped, ~asks, pending = <<>>
                 PROVE  taken + Cardinality(board) <= put
      BY DEF TakenOnce
    <2>1. Coming(pending) = 0 /\ Lying = board
      BY DEF Coming, OnTheWay, Lying, Owed
    <2> QED BY <2>1, LyingIsFinite DEF ItemsInv
  <1> QED BY <1>1, <1>2, <1>3, PTL
=============================================================================
