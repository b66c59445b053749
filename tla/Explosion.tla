----------------------------- MODULE Explosion -----------------------------
(***************************************************************************)
(* explosion.sv: the state machine that burns the cross of a bomb into the *)
(* map, waits, and clears it again.  As in Queue and Editor a clock edge   *)
(* is an operator, here from the registers x and the inputs `in` of one    *)
(* explosion to its registers in the next cycle.                           *)
(*                                                                         *)
(* The sixteen states that differ only in their direction are four phases  *)
(* with an arm: ARM is UP, DOWN, LEFT, RIGHT; REPLACE is REPLACE_UP, ...;  *)
(* C_ARM is C_UP, ...; CLEAR is CLEAR_UP, ....                             *)
(***************************************************************************)
EXTENDS Naturals

CONSTANTS Stride,      \* addresses per row of the map: 16
          AddrSpan,    \* addresses: 256, the width of Address
          TimerSpan,   \* values of the timer: 1024
          FlameTicks   \* ticks a flame stays: 8

Players == {0, 1}

(* The identifiers a cell of the map can hold.                             *)
wall == 0          \* 8'h00
wood == 16         \* 8'h10
bomb == 96         \* 8'h60
path == 128        \* 8'h80
flame(p) == 64 + 8 * p         \* {4'h4, player, 3'b000}
item(p)  == 144 + (1 - p)      \* {4'h9, 3'b000, ~player}

Identifiers == {wall, wood, bomb, path} \union {flame(p) : p \in Players}
                                        \union {item(p) : p \in Players}

Phases == {"START", "ARM", "REPLACE", "MID", "WAIT", "C_ARM", "CLEAR", "C_MID"}
Arms   == 1 .. 4     \* up, down, left, right

ExplosionRegs ==
    [phase : Phases, arm : Arms, count : 0 .. 7, length : 0 .. 3,
     coords : 0 .. AddrSpan - 1, Address : 0 .. AddrSpan - 1, WE_O : BOOLEAN,
     Data_O : Identifiers, clear_time : 0 .. TimerSpan - 1]

ExplosionPowerUp ==
    [phase |-> "START", arm |-> 1, count |-> 0, length |-> 0, coords |-> 0,
     Address |-> 0, WE_O |-> FALSE, Data_O |-> wall, clear_time |-> 0]

Unclipped(arm, a) ==                                         \* mutant
    LET offset == <<AddrSpan - Stride, Stride, AddrSpan - 1, 1>>
    IN  a + offset[arm]
RightTwice(arm, a) ==                                        \* mutant
    LET offset == <<AddrSpan - Stride, Stride, 1, 1>>
    IN  (a + offset[arm]) % AddrSpan

(* The neighbour of address a in the direction of an arm.                  *)
Toward(arm, a) ==
    LET offset == <<AddrSpan - Stride, Stride, AddrSpan - 1, 1>>
    IN  (a + offset[arm]) % AddrSpan

(* count runs from here up to 4, which ends an arm of length + 1 cells.    *)
FirstCount(length) == 3 - length
ArmEnded(x) == x.count >= 4

(* The assignments before the case: no write, back to the centre.          *)
LatchedWE(x, p) == [x EXCEPT !.count = 7, !.Address = x.coords,   \* mutant
                             !.Data_O = flame(p), !.arm = 1]
Idle(x, p) == [x EXCEPT !.count = 7, !.Address = x.coords, !.WE_O = FALSE,
                        !.Data_O = flame(p), !.arm = 1]

(* When a fire that starts now is to be cleared: ten bits of a sum.        *)
Carried(timer) == timer + FlameTicks                       \* mutant
ClearTime(timer) == (timer + FlameTicks) % TimerSpan

(* START: a bomb is due.                                                   *)
Ignites(x, in) == x.phase = "START" /\ in.ready

StartNext(x, p, in) ==
    IF in.ready
    THEN [Idle(x, p) EXCEPT !.phase = "ARM", !.count = FirstCount(in.length),
                            !.coords = in.coordinate,
                            !.Address = in.coordinate, !.length = in.length,
                            !.clear_time = ClearTime(in.timer)]
    ELSE Idle(x, p)

(* UP .. RIGHT and C_UP .. C_RIGHT: look at the next cell of this arm, or  *)
(* turn to the next arm, and from the last one to the centre.              *)
ArmNext(x, p, look, centre) ==
    IF ~ArmEnded(x)
    THEN [Idle(x, p) EXCEPT !.phase = look, !.arm = x.arm, !.count = x.count + 1,
                            !.Address = Toward(x.arm, x.Address)]
    ELSE IF x.arm < 4
    THEN [Idle(x, p) EXCEPT !.arm = x.arm + 1, !.count = FirstCount(x.length)]
    ELSE [Idle(x, p) EXCEPT !.phase = centre, !.count = FirstCount(x.length)]

(* REPLACE_*: walls and bombs stop the fire, wood stops it and burns.      *)
WoodLetsPass(id) == id \in {wall, bomb}                      \* mutant
StopsFire(id)    == id \in {wall, bomb, wood}

ReplaceNext(x, p, in) ==
    [Idle(x, p) EXCEPT
        !.phase = "ARM", !.arm = x.arm, !.Address = x.Address,
        !.WE_O = in.Data_IN \notin {wall, bomb},
        !.count = IF StopsFire(in.Data_IN) THEN 7 ELSE x.count]

DarkCentre(x, p) ==                                          \* mutant
    [Idle(x, p) EXCEPT !.phase = "WAIT", !.count = x.count,
                       !.Address = x.Address]
MidNext(x, p) ==
    [Idle(x, p) EXCEPT !.phase = "WAIT", !.count = x.count,
                       !.Address = x.Address, !.WE_O = TRUE]

WaitNext(x, p, in) ==
    IF in.timer = x.clear_time
    THEN [Idle(x, p) EXCEPT !.phase = "C_ARM", !.count = FirstCount(x.length)]
    ELSE Idle(x, p)

(* What a cleared cell becomes, by the random bits of the cycle.           *)
Remains(p, in) == IF in.item_true THEN item(p) ELSE path

(* CLEAR_*: put out own flames; go on to the end of the arm or to a wall.  *)
FirstPlayers(p, id) == id = flame(0)                         \* mutant
Own(p, id)          == id = flame(p)

ClearNext(x, p, in) ==
    [Idle(x, p) EXCEPT
        !.phase = "C_ARM", !.arm = x.arm, !.Address = x.Address,
        !.WE_O = Own(p, in.Data_IN),
        !.Data_O = IF Own(p, in.Data_IN) THEN Remains(p, in) ELSE @,
        !.count = IF in.Data_IN = wall THEN 7 ELSE x.count]

(* C_MID: the centre is cleared whatever it holds by now.                  *)
ClearMidNext(x, p, in) ==
    [Idle(x, p) EXCEPT !.phase = "START", !.count = x.count,
                       !.Address = x.Address, !.WE_O = TRUE,
                       !.Data_O = Remains(p, in)]

(* One rising edge of Clk; there is no Reset input.                        *)
ExplosionNext(x, p, in) ==
    CASE x.phase = "START"   -> StartNext(x, p, in)
      [] x.phase = "ARM"     -> ArmNext(x, p, "REPLACE", "MID")
      [] x.phase = "REPLACE" -> ReplaceNext(x, p, in)
      [] x.phase = "MID"     -> MidNext(x, p)
      [] x.phase = "WAIT"    -> WaitNext(x, p, in)
      [] x.phase = "C_ARM"   -> ArmNext(x, p, "CLEAR", "C_MID")
      [] x.phase = "CLEAR"   -> ClearNext(x, p, in)
      [] x.phase = "C_MID"   -> ClearMidNext(x, p, in)

-----------------------------------------------------------------------------
(* The cell k steps from the centre in the direction of an arm.            *)
CellAt(c, arm, k) ==
    LET offset == <<AddrSpan - Stride, Stride, AddrSpan - 1, 1>>
    IN  (c + k * offset[arm]) % AddrSpan

(* All cells a bomb of this length can reach on an empty map.              *)
Cross(c, length) == {CellAt(c, arm, k) : arm \in Arms, k \in 0 .. length + 1}

(* The cells a bomb sets on fire on a given map: on each arm, up to the    *)
(* first wall or bomb, or up to and with the first wood.                   *)
BlastArea(map, c, length) ==
    {c} \union
    {CellAt(c, ak[1], ak[2]) : ak \in
        {ak \in Arms \X (1 .. length + 1) :
            /\ map[CellAt(c, ak[1], ak[2])] \notin {wall, bomb}
            /\ \A j \in 1 .. ak[2] - 1 :
                   map[CellAt(c, ak[1], j)] \notin {wall, bomb, wood}}}

=============================================================================
