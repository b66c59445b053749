---------------------------- MODULE BombManager ----------------------------
(***************************************************************************)
(* BombManager.sv: the key that places a bomb, the cooldown, the queues of *)
(* placed bombs, the timer that makes them due and the two explosions,     *)
(* with the map behind MapEditor as in Explosions.                         *)
(*                                                                         *)
(* The keys and Reset change at any cycle; the timer ticks when the work   *)
(* of the explosions and of the editor is done (a tick is millions of      *)
(* cycles, their work less than a hundred), but wherever the state machine *)
(* that places bombs happens to be.                                        *)
(***************************************************************************)
EXTENDS Explosion, WriteLog, Queue

CONSTANTS Spots,         \* per player, the cells the character may stand on
                         \* when the bomb key is down; none: no key
          Lengths,       \* the sizes, delays and cooldowns the buffs can
          Delays,        \* give a player at the moment a bomb is placed
          Cooldowns,
          CooldownSpan,  \* the cooldown compares 8 bits of the timer: 256
          Resets         \* the values the Reset input may take

ASSUME BombManagerAssumption ==
    /\ Stride \in Nat \ {0} /\ TimerSpan \in Nat \ {0}
    /\ FlameTicks \in 1 .. TimerSpan - 1
    /\ CooldownSpan \in 1 .. TimerSpan /\ TimerSpan % CooldownSpan = 0
    /\ AddrSpan = LastAddr + 1
    /\ Spots \in [Players -> SUBSET Addrs] /\ Lengths \subseteq 0 .. 3
    /\ Delays \subseteq Nat /\ Cooldowns \subseteq 0 .. CooldownSpan - 1
    /\ Paced = Players /\ Sporadic = {2, 3}
    /\ Data = Identifiers
    /\ Resets \subseteq BOOLEAN
    /\ Items = [at : Addrs, time : 0 .. TimerSpan - 1, length : 0 .. 3]

VARIABLES placing,   \* per player: state, time and ready of lines 39-69
          queue,     \* per player: the three queues of lines 26-32
          x,         \* the explosions, as in Explosions
          log, map,  \* the editor and the map
          timer,
          placed,    \* history: ticks since the player's last bomb
          due,       \* history: the cooldown that bomb imposed
          behind,    \* history: since Reset, the bombs of a player that stand
                     \* in the ring behind the ones `count` counts
          overrun    \* history: since Reset, a bomb was put where one stood

vars == <<placing, queue, x, log, map, timer, placed, due, behind, overrun>>

LongAgo == CooldownSpan   \* bound: where `placed` stops counting

PlacingRegs == [state : {"START", "SET", "WAIT"}, time : 0 .. TimerSpan - 1,
                ready : BOOLEAN]

Init == /\ placing = [p \in Players |->
                         [state |-> "START", time |-> 0, ready |-> FALSE]]
        /\ queue = [p \in Players |-> PowerUp]
        /\ x = [p \in Players |-> ExplosionPowerUp]
        /\ log = EmptyLog
        /\ map = InitialMap
        /\ timer = 0
        /\ placed = [p \in Players |-> LongAgo]
        /\ due = [p \in Players |-> 0]
        /\ behind = [p \in Players |-> 0]
        /\ overrun = [p \in Players |-> FALSE]

-----------------------------------------------------------------------------
(* The state machine that places bombs.  The cooldown ends in the tick     *)
(* whose low bits are those of the stored time.                            *)
Passed(s)       == timer % CooldownSpan >= s.time % CooldownSpan  \* mutant
CooldownEnds(s) == timer % CooldownSpan = s.time % CooldownSpan

StartPlacing(s, pressed, full) ==
    [s EXCEPT !.ready = @ \/ CooldownEnds(s),
              !.state = IF s.ready /\ pressed /\ ~full THEN "SET" ELSE @]

WideTime(s, cooldown) ==                                     \* mutant
    [state |-> "WAIT", time |-> timer + cooldown, ready |-> FALSE]
SetNext(s, cooldown) ==
    [state |-> "WAIT", time |-> (timer + cooldown) % TimerSpan,
     ready |-> FALSE]

ReleaseNext(s, pressed) ==
    [s EXCEPT !.ready = @ \/ CooldownEnds(s),
              !.state = IF pressed THEN @ ELSE "START"]

(* Reset takes the state back to START and leaves time and ready running.  *)
PlacingNext(s, pressed, full, cooldown, reset) ==
    LET n == CASE s.state = "START" -> StartPlacing(s, pressed, full)
               [] s.state = "SET"   -> SetNext(s, cooldown)
               [] s.state = "WAIT"  -> ReleaseNext(s, pressed)
    IN  IF reset THEN [n EXCEPT !.state = "START"] ELSE n

-----------------------------------------------------------------------------
Places(p) == placing[p].state = "SET"                   \* WE2, WE3

LastWaits(p) == queue[p].count > 1 /\ Out(queue[p]).time = timer  \* mutant
Trigger(p) == ~Empty(queue[p]) /\ Out(queue[p]).time = timer

Input(p) ==
    [ready |-> Trigger(p), length |-> Out(queue[p]).length,
     coordinate |-> Out(queue[p]).at, timer |-> timer,
     Data_IN |-> map[x[p].Address], item_true |-> FALSE]

(* The explosion takes the bomb at the head of the queue.                  *)
Takes(p) == Trigger(p) /\ x[p].phase = "START"

(* The ports of MapEditor: the explosions on 0 and 1, the bombs on 2, 3.   *)
Writing == {p \in Players : x[p].WE_O}
           \union {2 + p : p \in {r \in Players : Places(r)}}

Asked(bombs) ==
    [port \in Ports |->
        IF port \in Players
        THEN [addr |-> x[port].Address, data |-> x[port].Data_O]
        ELSE [addr |-> bombs[port - 2].at, data |-> bomb]]

(* A put that meets a take moves both pointers of the queue but counts as  *)
(* a take alone (NextCount): the last bomb of the ring is counted no more  *)
(* until another put counts it in place of its own.  A put beyond the      *)
(* words of the ring replaces the bomb at its head.                        *)
Meets(p)    == Places(p) /\ Takes(p)
Overruns(p) == /\ Places(p)
               /\ \/ Full(queue[p])
                  \/ ~Takes(p) /\ queue[p].count + behind[p] >= Words

RingHistory(reset) ==
    /\ behind' = [p \in Players |->
          IF reset THEN 0
          ELSE IF Meets(p) /\ ~overrun[p] THEN behind[p] + 1 ELSE behind[p]]
    /\ overrun' = [p \in Players |-> ~reset /\ (overrun[p] \/ Overruns(p))]

(* One cycle of Clk, no cell leaving an item.  `keys` are the players who  *)
(* hold their bomb key, bombs[p] is the bomb player p would place,         *)
(* cooldowns[p] what it costs.                                             *)
Clock(reset, keys, bombs, cooldowns) ==
    /\ placing' = [p \in Players |->
          PlacingNext(placing[p], p \in keys, Full(queue[p]), cooldowns[p],
                      reset)]
    /\ queue' = [p \in Players |->
          QueueNext(queue[p], reset, Places(p), bombs[p], Takes(p))]
    /\ x' = [p \in Players |-> ExplosionNext(x[p], p, Input(p))]
    /\ log' = LogNext(log, reset, Writing, Asked(bombs))
    /\ map' = MapNext(map, LogWrites(log))
    /\ placed' = [p \in Players |-> IF Places(p) THEN 0 ELSE placed[p]]
    /\ due' = [p \in Players |-> IF Places(p) THEN cooldowns[p] ELSE due[p]]
    /\ RingHistory(reset)
    /\ UNCHANGED timer

(* The choices of a cycle that matter: the bomb and its cooldown are       *)
(* looked at only in the cycle in which the bomb is placed, the key only   *)
(* in WAIT, and in START once the cooldown is over, and not during Reset.  *)
BombsOf(p) ==
    IF Places(p)
    THEN {[at |-> a, time |-> (timer + d) % TimerSpan, length |-> l] :
             a \in {s \in Spots[p] : map[s] \notin {wall, wood}},
             d \in Delays, l \in Lengths}
    ELSE {Blank}

CooldownsOf(p) == IF Places(p) THEN Cooldowns ELSE {0}

Listens(p) == /\ Spots[p] # {}
              /\ \/ placing[p].state = "WAIT"
                 \/ placing[p].state = "START" /\ placing[p].ready

AnyClock(reset) ==
    \E keys \in SUBSET {p \in Players : ~reset /\ Listens(p)},
       b0 \in BombsOf(0), b1 \in BombsOf(1), c0 \in CooldownsOf(0),
       c1 \in CooldownsOf(1) :
        Clock(reset, keys, [p \in Players |-> IF p = 0 THEN b0 ELSE b1],
                           [p \in Players |-> IF p = 0 THEN c0 ELSE c1])

(* The explosions and the editor have done what this tick asks of them.    *)
Rested == \A p \in Players :
              /\ x[p].phase \in {"START", "WAIT"} /\ ~x[p].WE_O
              /\ ~Takes(p)
              /\ x[p].phase = "WAIT" => timer # x[p].clear_time

Quiet == Rested /\ log = EmptyLog

Tick == /\ Rested
        /\ log.pending = << >>
        /\ timer' = (timer + 1) % TimerSpan
        /\ placed' = [p \in Players |->
              IF placed[p] < LongAgo THEN placed[p] + 1 ELSE LongAgo]
        /\ UNCHANGED <<placing, queue, x, log, map, due, behind, overrun>>

Step  == AnyClock(FALSE)
Reset == TRUE \in Resets /\ AnyClock(TRUE)

Next == Step \/ Reset \/ Tick

Spec == Init /\ [][Next]_vars

-----------------------------------------------------------------------------
TypeOK == /\ placing \in [Players -> PlacingRegs]
          /\ queue \in [Players -> QueueRegs]
          /\ x \in [Players -> ExplosionRegs]
          /\ log \in LogStates
          /\ map \in [Addrs -> Identifiers]
          /\ timer \in 0 .. TimerSpan - 1
          /\ behind \in [Players -> Nat]
          /\ overrun \in [Players -> BOOLEAN]

(* The bomb in place i of the ring, counted from its head, and the places  *)
(* of the bombs that have not exploded: the queue shows the first `count`  *)
(* of them, the last `behind` it has lost from view.                       *)
Bomb(p, i) == queue[p].mem[Wrap(queue[p].readPtr + i - 1)]
Stored(p)  == 1 .. queue[p].count + behind[p]

(* `delay` is the "time before explosion" (buff.sv:22): when a tick is     *)
(* over no bomb of the queue is left that was due in it.  A bomb that      *)
(* misses its tick stays for the 1024 ticks the timer takes to come round, *)
(* and all the bombs of its player placed after it stay with it.  Promised *)
(* only as long as, since Reset, no bomb was placed in the very cycle in   *)
(* which one was taken, and none beyond the words of the ring.             *)
DueBombsExplode ==
    Quiet => \A p \in Players : behind[p] = 0 /\ ~overrun[p] =>
                 \A i \in Stored(p) : Bomb(p, i).time # timer

(* The same without the exception, for queues that are never overrun.  The *)
(* code does not keep it: a bomb placed in the cycle in which another is   *)
(* taken is counted only when a later one is placed, and if its tick is    *)
(* over by then it stands before the later one for a round of the timer.   *)
EveryBombExplodes ==
    Quiet => \A p \in Players : ~overrun[p] =>
                 \A i \in Stored(p) : Bomb(p, i).time # timer

(* Every bomb on the map is in a ring: among the bombs the queue shows and *)
(* will trigger or, if placements met takes since Reset, among as many     *)
(* that stand behind them and explode only when later placements bring     *)
(* them back into view.  No bomb on the map is in neither place, whatever  *)
(* placements, fires, sweeps and Reset come together, unless a ring was    *)
(* overrun.                                                                *)
MarkedBombsPend ==
    Quiet /\ (\A p \in Players : ~overrun[p]) =>
        \A a \in Addrs : map[a] = bomb =>
            \E p \in Players : \E i \in Stored(p) : Bomb(p, i).at = a

(* `cooldown` is the "time before the second bomb can be placed after the  *)
(* first one" (buff.sv:23), whatever the key, the wrap of the timer and    *)
(* Reset do in between.                                                    *)
PlacementsSpaced == \A p \in Players : Places(p) => placed[p] >= due[p]

=============================================================================
