----------------------------- MODULE Explosions -----------------------------
(***************************************************************************)
(* The two explosions of BombManager.sv, burning and clearing one map      *)
(* through MapEditor.  Which bombs are due in which tick is left open here *)
(* (BombManager decides it); MapEditor is the promise of WriteLog, which   *)
(* MapEditorProofs shows it to keep.                                       *)
(*                                                                         *)
(* A clock cycle reads the map before the write of the cycle lands: the    *)
(* copies of the map run on a clock of twice the frequency and read and    *)
(* write on its same edge.  A tick of the timer is four video frames,      *)
(* millions of cycles, and the work an explosion does between two waits is *)
(* less than a hundred: all of it is done when the next tick comes.        *)
(***************************************************************************)
EXTENDS Explosion, WriteLog

CONSTANTS Bombs,      \* the bombs that may fall due: [at, length]
          Maps,       \* the maps to start from
          Resets,     \* the values the Reset input may take
          Luck,       \* the values item_true may take in a cycle
          Budget      \* bound: ticks on which bombs fall due

(* The board has room for a cross: on the ring of the addresses its arms   *)
(* do not meet.  The longest arms have 4 cells, of 16 in a row and 256.    *)
Fits(length) == /\ length + 1 < Stride
                /\ 2 * (length + 1) * Stride < AddrSpan

ASSUME ExplosionsAssumption ==
    /\ Stride \in Nat \ {0} /\ TimerSpan \in Nat \ {0}
    /\ FlameTicks \in 1 .. TimerSpan - 1
    /\ AddrSpan = LastAddr + 1
    /\ Paced = Players
    /\ Data = Identifiers
    /\ Maps \subseteq [Addrs -> Identifiers]
    /\ Bombs \subseteq [at : Addrs, length : 0 .. 3]
    /\ \A b \in Bombs : Fits(b.length)
    /\ Budget \in Nat
    /\ Resets \subseteq BOOLEAN
    /\ Luck \subseteq BOOLEAN

VARIABLES x,        \* the registers of the two explosions
          log,      \* the requests on their way to the map
          map,
          timer,
          due,      \* per player, the bomb whose time is this tick, if any
          spared,   \* bound: ticks with bombs still to come
          start,    \* history: the map when the explosion of p began
          burned,   \* history: the cells it has set on fire
          alone,    \* history: it began undisturbed, and the other one has
                    \* rested ever since
          swept     \* history: Reset has been pressed

vars == <<x, log, map, timer, due, spared, start, burned, alone, swept>>

Other(p) == 1 - p

Init == /\ x = [p \in Players |-> ExplosionPowerUp]
        /\ log = EmptyLog
        /\ map \in Maps
        /\ timer = 0
        /\ due = [p \in Players |-> {}]
        /\ spared = Budget
        /\ start = [p \in Players |-> map]
        /\ burned = [p \in Players |-> {}]
        /\ alone = [p \in Players |-> FALSE]
        /\ swept = FALSE

(* The wires into the explosion of player p in this cycle.                 *)
Input(p, lucky) ==
    LET b == IF due[p] = {} THEN [at |-> 0, length |-> 0]
             ELSE CHOOSE d \in due[p] : TRUE
    IN  [ready |-> due[p] # {}, length |-> b.length, coordinate |-> b.at,
         timer |-> timer, Data_IN |-> map[x[p].Address], item_true |-> lucky]

Writing == {p \in Players : x[p].WE_O}
Asked   == [p \in Players |-> [addr |-> x[p].Address, data |-> x[p].Data_O]]

SetsFire(p) == x[p].WE_O /\ x[p].Data_O = flame(p)

(* The explosion of p neither moves along the map nor has a write left.    *)
Resting(p) == x[p].phase \in {"START", "WAIT"} /\ ~x[p].WE_O

(* No write is on its way to the map.                                      *)
Undisturbed == Writing = {} /\ log.pending = << >>

(* One cycle of Clk for both explosions, the editor and the map.           *)
Clock(reset, lucky) ==
    LET lit(p) == Ignites(x[p], Input(p, lucky))
    IN  /\ x' = [p \in Players |-> ExplosionNext(x[p], p, Input(p, lucky))]
        /\ log' = LogNext(log, reset, Writing, Asked)
        /\ map' = MapNext(map, LogWrites(log))
        /\ due' = [p \in Players |-> IF reset \/ lit(p) THEN {} ELSE due[p]]
        /\ start' = [p \in Players |-> IF lit(p) THEN map ELSE start[p]]
        /\ burned' = [p \in Players |->
              IF lit(p) THEN {}
              ELSE IF SetsFire(p) THEN burned[p] \union {x[p].Address}
              ELSE burned[p]]
        /\ alone' = [p \in Players |->
              /\ IF lit(p) THEN Undisturbed ELSE alone[p]
              /\ Resting(Other(p)) /\ ~lit(Other(p))]
        /\ swept' = (swept \/ reset)
        /\ UNCHANGED <<timer, spared>>

(* The explosions have done what this tick asks of them.                   *)
Rested == \A p \in Players :
              /\ Resting(p)
              /\ x[p].phase = "START" => due[p] = {}
              /\ x[p].phase = "WAIT" => timer # x[p].clear_time

(* Nothing is left to do in this tick, for the editor neither.             *)
Quiet == Rested /\ log = EmptyLog

(* The bombs of a tick.  Reset empties the queues of bombs, and a sweep is *)
(* over long before a bomb placed since can be due.                        *)
FallDue == {d \in [Players -> {{}} \union {{b} : b \in Bombs}] :
               \A p \in Players : \A b \in d[p] :
                   /\ map[b.at] \notin {wall, wood}
                   /\ ~log.sweeping}

(* The next tick; it may come in the middle of a sweep.  A bomb that fell  *)
(* due while its explosion was busy is not due any more.                   *)
Tick == /\ Rested
        /\ log.pending = << >>
        /\ timer' = (timer + 1) % TimerSpan
        /\ due' \in FallDue
        /\ spared' = IF \E p \in Players : due'[p] # {}
                     THEN spared - 1 ELSE spared
        /\ spared' >= 0
        /\ UNCHANGED <<x, log, map, start, burned, alone, swept>>

Work == /\ ~Quiet
        /\ \E lucky \in Luck : Clock(FALSE, lucky)

(* Reset is not an input of the explosions; it empties the queues of bombs *)
(* and starts the sweep.                                                   *)
Reset == /\ TRUE \in Resets
         /\ \E lucky \in Luck : Clock(TRUE, lucky)

Next == Work \/ Tick \/ Reset

(* Clk and the video clock run freely.                                     *)
Fairness == WF_vars(Work) /\ WF_vars(Tick)

Spec == Init /\ [][Next]_vars /\ Fairness

-----------------------------------------------------------------------------
TypeOK == /\ x \in [Players -> ExplosionRegs]
          /\ log \in LogStates
          /\ map \in [Addrs -> Identifiers]
          /\ timer \in 0 .. TimerSpan - 1
          /\ due \in [Players -> SUBSET Bombs]
          /\ spared \in 0 .. Budget

(* No flame outlives its explosion: once a tick's work is done, every      *)
(* flame on the map is in the cross of an explosion of its own colour that *)
(* still waits to clear it, whatever the other explosion and Reset did.    *)
FlamesAreLive ==
    Quiet => \A p \in Players, a \in Addrs :
                 map[a] = flame(p) => /\ x[p].phase = "WAIT"
                                      /\ a \in Cross(x[p].coords, x[p].length)

(* Until Reset is pressed, every explosion sets on fire at least the cells *)
(* the rules give it on the map on which it began, and exactly those if    *)
(* nothing was on its way to the map then and the other one rested.  Two   *)
(* that burn in one tick can reach further: one burns the wood, or a       *)
(* bomb's centre, and the other one passes where it stood.                 *)
BurnsBlastArea ==
    Quiet /\ ~swept => \A p \in Players :
        x[p].phase = "WAIT" =>
            LET area == BlastArea(start[p], x[p].coords, x[p].length)
            IN  /\ area \subseteq burned[p]
                /\ alone[p] => burned[p] = area

(* "Since this action only happens once per explosion, scores of players   *)
(* increment by at most one each time": no explosion sets fire to a cell   *)
(* twice, which is what a point is counted on.                             *)
OncePerCell ==
    \A p \in Players : SetsFire(p) => x[p].Address \notin burned[p]

(* What MapEditor relies on: the write port of an explosion is never high  *)
(* in two successive cycles.                                               *)
PortsPaced == [][\A p \in Players : x[p].WE_O => ~x'[p].WE_O]_vars

(* Every explosion burns, waits, clears its flames and is ready for the    *)
(* next bomb in the end, also when clear_time wraps.                       *)
EveryFlameCleared == \A p \in Players : []<>(x[p].phase = "START")

(* "clear the area when timer==clear_time" (explosion.sv:3): while an      *)
(* explosion waits for its clear_time, its area is on fire, in its own     *)
(* colour or in the other's.                                               *)
AreaBurnsUntilClearTime ==
    Quiet => \A p \in Players :
        x[p].phase = "WAIT" =>
            \A a \in burned[p] : map[a] \in {flame(q) : q \in Players}

=============================================================================
