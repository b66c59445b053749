------------------------- MODULE BombManagerProofs -------------------------
(***************************************************************************)
(* Proofs about BombManager, for every map, every set of cells, delays and *)
(* cooldowns and every width of the timer: all registers keep their        *)
(* widths, no player places a bomb before the cooldown is over, no bomb    *)
(* misses its tick while no placement has met a take, and every bomb on    *)
(* the map is in the ring of a queue.                                      *)
(***************************************************************************)
EXTENDS BombManager, MapLemmas

-----------------------------------------------------------------------------
(***************************************************************************)
(* The registers.                                                          *)
(***************************************************************************)
LEMMA Board ==
    /\ SpansOK /\ Addrs = Cells /\ 0 \in Cells
    /\ Players = {0, 1} /\ Ports = {0, 1, 2, 3} /\ Data = Identifiers
    /\ CooldownSpan \in Nat \ {0} /\ TimerSpan % CooldownSpan = 0
    /\ Items = [at : Cells, time : Times, length : Sizes]
  <1>1. LastAddr \in Nat /\ AddrSpan = LastAddr + 1
    BY EditorAssumption, BombManagerAssumption
  <1>2. AddrSpan \in Nat \ {0} /\ Addrs = Cells /\ 0 \in Cells
    BY <1>1 DEF Addrs, Cells
  <1>3. SpansOK
    BY <1>2, BombManagerAssumption DEF SpansOK
  <1>4. CooldownSpan \in Nat \ {0}
    BY BombManagerAssumption
  <1>5. Ports = {0, 1, 2, 3}
    BY BombManagerAssumption DEF Ports, Players
  <1> QED BY <1>2, <1>3, <1>4, <1>5, BombManagerAssumption DEF Times, Sizes, Players

LEMMA QueueStays ==
    ASSUME NEW r \in QueueRegs, NEW reset \in BOOLEAN, NEW we \in BOOLEAN,
           NEW in \in Items, NEW next \in BOOLEAN
    PROVE  QueueNext(r, reset, we, in, next) \in QueueRegs
  <1>1. /\ r = [mem |-> r.mem, readPtr |-> r.readPtr, writePtr |-> r.writePtr,
                count |-> r.count]
        /\ r.mem \in [Slots -> Items] /\ r.readPtr \in Slots /\ r.writePtr \in Slots
        /\ r.count \in 0 .. FullAt
    BY DEF QueueRegs
  <1>2. 0 \in Slots /\ 0 \in 0 .. FullAt /\ \A i \in Slots : Wrap(i + 1) \in Slots
    BY QueueAssumption DEF Slots, Wrap
  <1> DEFINE push == we /\ ~Full(r)
             pop  == next /\ ~Empty(r)
  <1>3. NextCount(r, push, pop) \in 0 .. FullAt
    BY <1>1, QueueAssumption DEF NextCount, Full, Empty
  <1>4. (IF push THEN [r.mem EXCEPT ![r.writePtr] = in] ELSE r.mem) \in [Slots -> Items]
    BY <1>1
  <1>5. /\ (IF pop THEN Wrap(r.readPtr + 1) ELSE r.readPtr) \in Slots
        /\ (IF push THEN Wrap(r.writePtr + 1) ELSE r.writePtr) \in Slots
    BY <1>1, <1>2
  <1>6. CASE reset
    BY <1>1, <1>2, <1>6 DEF QueueNext, QueueRegs
  <1>7. CASE ~reset
    <2>1. QueueNext(r, reset, we, in, next) =
            [mem      |-> IF push THEN [r.mem EXCEPT ![r.writePtr] = in] ELSE r.mem,
             readPtr  |-> IF pop THEN Wrap(r.readPtr + 1) ELSE r.readPtr,
             writePtr |-> IF push THEN Wrap(r.writePtr + 1) ELSE r.writePtr,
             count    |-> NextCount(r, push, pop)]
      BY <1>7 DEF QueueNext
    <2> HIDE DEF push, pop
    <2> QED BY <1>3, <1>4, <1>5, <2>1 DEF QueueRegs
  <1> QED BY <1>6, <1>7

States == {"START", "SET", "WAIT"}

LEMMA PlacingAre == PlacingRegs = [state : States, time : Times, ready : BOOLEAN]
  BY DEF PlacingRegs, States, Times

LEMMA PlacingStays ==
    ASSUME NEW s \in PlacingRegs, NEW pressed \in BOOLEAN, NEW full \in BOOLEAN,
           NEW cooldown \in Nat, NEW reset \in BOOLEAN, timer \in Times
    PROVE  PlacingNext(s, pressed, full, cooldown, reset) \in PlacingRegs
  <1> DEFINE T == [state : States, time : Times, ready : BOOLEAN]
  <1>1. s \in T /\ s.state \in States /\ s.time \in Times /\ s.ready \in BOOLEAN
        /\ "START" \in States /\ "SET" \in States /\ "WAIT" \in States
    BY PlacingAre DEF States
  <1>2. (timer + cooldown) % TimerSpan \in Times
    <2>1. timer + cooldown \in Int /\ TimerSpan \in Nat \ {0}
      BY Board DEF Times, SpansOK
    <2> QED BY <2>1, RestInRange DEF Times
  <1>3. (s.ready \/ CooldownEnds(s)) \in BOOLEAN
    OBVIOUS
  <1>4. StartPlacing(s, pressed, full) \in T
    BY ONLY <1>1, <1>3 DEF StartPlacing
  <1>5. SetNext(s, cooldown) \in T
    BY ONLY <1>1, <1>2 DEF SetNext
  <1>6. ReleaseNext(s, pressed) \in T
    BY ONLY <1>1, <1>3 DEF ReleaseNext
  <1> DEFINE n == CASE s.state = "START" -> StartPlacing(s, pressed, full)
                    [] s.state = "SET"   -> SetNext(s, cooldown)
                    [] s.state = "WAIT"  -> ReleaseNext(s, pressed)
  <1>7. n \in T
    BY <1>1, <1>4, <1>5, <1>6 DEF States
  <1>8. PlacingNext(s, pressed, full, cooldown, reset)
          = IF reset THEN [n EXCEPT !.state = "START"] ELSE n
    BY DEF PlacingNext
  <1> HIDE DEF n
  <1>9. PlacingNext(s, pressed, full, cooldown, reset) \in T
    BY ONLY <1>1, <1>7, <1>8
  <1> QED BY <1>9, PlacingAre

LEMMA BombsAreItems ==
    ASSUME TypeOK, NEW p \in Players
    PROVE  BombsOf(p) \subseteq Items /\ CooldownsOf(p) \subseteq 0 .. CooldownSpan - 1
  <1>1. BombsOf(p) \subseteq Items
    <2>1. \A d \in Delays : (timer + d) % TimerSpan \in Times
      <3>1. \A d \in Delays : timer + d \in Int
        BY BombManagerAssumption DEF TypeOK
      <3> QED BY <3>1, RestInRange, Board DEF Times, SpansOK
    <2>2. \A a \in Spots[p] : a \in Cells
      BY Board, BombManagerAssumption
    <2>3. \A l \in Lengths : l \in Sizes
      BY BombManagerAssumption DEF Sizes
    <2>4. Blank \in Items
      BY QueueAssumption
    <2> QED BY <2>1, <2>2, <2>3, <2>4, Board DEF BombsOf
  <1>2. CooldownsOf(p) \subseteq 0 .. CooldownSpan - 1
    BY Board, BombManagerAssumption DEF CooldownsOf
  <1> QED BY <1>1, <1>2

LEMMA InputOK ==
    ASSUME TypeOK, NEW p \in Players
    PROVE  Input(p) \in Inputs
  <1>1. Out(queue[p]) \in [at : Cells, time : Times, length : Sizes]
    BY Board DEF TypeOK, QueueRegs, Out
  <1>2. Out(queue[p]).at \in Cells /\ Out(queue[p]).length \in Sizes
    BY <1>1
  <1>3. x[p].Address \in Addrs
    BY Board, RegsAre, RegsOf DEF TypeOK
  <1>4. map[x[p].Address] \in Identifiers /\ timer \in Times
        /\ FALSE \in BOOLEAN /\ Trigger(p) \in BOOLEAN
    BY <1>3 DEF TypeOK, Times, Trigger
  <1>5. Input(p) = [ready |-> Trigger(p), length |-> Out(queue[p]).length,
                    coordinate |-> Out(queue[p]).at, timer |-> timer,
                    Data_IN |-> map[x[p].Address], item_true |-> FALSE]
    BY DEF Input
  <1>6. Inputs = [ready : BOOLEAN, length : Sizes, coordinate : Cells, timer : Times,
                  Data_IN : Identifiers, item_true : BOOLEAN]
    BY DEF Inputs, Sizes, Cells, Times
  <1> QED BY ONLY <1>2, <1>4, <1>5, <1>6

LEMMA ClockStays ==
    ASSUME TypeOK, NEW reset \in BOOLEAN, NEW keys, NEW bombs, NEW cooldowns,
           \A p \in Players : bombs[p] \in Items /\ cooldowns[p] \in Nat,
           Clock(reset, keys, bombs, cooldowns)
    PROVE  TypeOK'
  <1>1. placing' \in [Players -> PlacingRegs]
    <2>1. placing' = [p \in Players |->
              PlacingNext(placing[p], p \in keys, Full(queue[p]), cooldowns[p], reset)]
      BY DEF Clock
    <2>2. timer \in Times
      BY DEF TypeOK, Times
    <2>3. ASSUME NEW p \in Players
          PROVE  PlacingNext(placing[p], p \in keys, Full(queue[p]), cooldowns[p], reset)
                   \in PlacingRegs
      <3>1. (p \in keys) \in BOOLEAN /\ Full(queue[p]) \in BOOLEAN
            /\ placing[p] \in PlacingRegs /\ cooldowns[p] \in Nat
        BY DEF Full, TypeOK
      <3> QED BY <2>2, <3>1, PlacingStays
    <2> QED BY ONLY <2>1, <2>3
  <1>2. queue' \in [Players -> QueueRegs]
    <2>1. queue' = [p \in Players |->
              QueueNext(queue[p], reset, Places(p), bombs[p], Takes(p))]
      BY DEF Clock
    <2>2. \A p \in Players :
              QueueNext(queue[p], reset, Places(p), bombs[p], Takes(p)) \in QueueRegs
      BY QueueStays DEF TypeOK, Places, Takes
    <2> QED BY ONLY <2>1, <2>2
  <1>3. x' \in [Players -> ExplosionRegs]
    <2>1. x' = [p \in Players |-> ExplosionNext(x[p], p, Input(p))]
      BY DEF Clock
    <2>2. \A p \in Players : ExplosionNext(x[p], p, Input(p)) \in ExplosionRegs
      BY InputOK, ExplosionStays, Board DEF TypeOK
    <2> QED BY ONLY <2>1, <2>2
  <1>4. log' \in LogStates
    <2>1. Writing \in SUBSET Ports
      BY Board DEF Writing
    <2>2. ASSUME NEW port \in Writing PROVE Asked(bombs)[port] \in Requests
      <3>1. port \in {0, 1, 2, 3} /\ port \in Ports
        BY <2>1, <2>2, Board
      <3>2. CASE port \in Players
        <4>1. x[port].Address \in Addrs /\ x[port].Data_O \in Data
          BY <3>2, Board, RegsAre, RegsOf DEF TypeOK
        <4>2. Asked(bombs)[port] = [addr |-> x[port].Address, data |-> x[port].Data_O]
          BY <3>1, <3>2 DEF Asked
        <4> QED BY <4>1, <4>2 DEF Requests
      <3>3. CASE port \notin Players
        <4>1. port - 2 \in Players
          BY <3>1, <3>3, Board
        <4>2. bombs[port - 2].at \in Addrs /\ bomb \in Data
          BY <4>1, Board DEF Identifiers
        <4>3. Asked(bombs)[port] = [addr |-> bombs[port - 2].at, data |-> bomb]
          BY <3>1, <3>3 DEF Asked
        <4> QED BY <4>2, <4>3 DEF Requests
      <3> QED BY <3>2, <3>3
    <2>3. log \in LogStates /\ log' = LogNext(log, reset, Writing, Asked(bombs))
      BY DEF TypeOK, Clock
    <2> QED BY <2>1, <2>2, <2>3, LogStays
  <1>5. map' \in [Addrs -> Identifiers]
    <2>1. map \in [Addrs -> Data] /\ log \in LogStates
          /\ map' = MapNext(map, LogWrites(log))
      BY Board DEF TypeOK, Clock
    <2> QED BY <2>1, WritesAreRequests, MapStays, Board
  <1>6. timer' \in 0 .. TimerSpan - 1
    BY DEF Clock, TypeOK
  <1>7. behind' \in [Players -> Nat] /\ overrun' \in [Players -> BOOLEAN]
    <2>1. RingHistory(reset)
      BY DEF Clock
    <2> QED BY <2>1 DEF RingHistory, TypeOK
  <1> QED BY <1>1, <1>2, <1>3, <1>4, <1>5, <1>6, <1>7 DEF TypeOK

LEMMA TickStays ==
    ASSUME TypeOK, Tick
    PROVE  TypeOK'
  <1>1. timer' \in 0 .. TimerSpan - 1
    <2>1. timer + 1 \in Int /\ TimerSpan \in Nat \ {0}
      BY Board DEF TypeOK, SpansOK
    <2> QED BY <2>1, RestInRange DEF Tick
  <1> QED BY <1>1 DEF Tick, TypeOK

LEMMA InitTypes == Init => TypeOK
  <1> SUFFICES ASSUME Init PROVE TypeOK
    OBVIOUS
  <1>1. 0 \in Times /\ 0 \in Cells /\ 0 \in Counts /\ 0 \in Sizes
    BY Board DEF Times, Counts, Sizes, SpansOK
  <1>2. ExplosionPowerUp \in ExplosionRegs
    <2>1. wall \in Identifiers /\ "START" \in Phases /\ 1 \in Arms
      BY DEF Identifiers, Phases, Arms
    <2> QED BY ONLY <1>1, <2>1, RegsAre DEF Regs, ExplosionPowerUp
  <1>3. PowerUp \in QueueRegs
    BY QueueAssumption DEF PowerUp, QueueRegs, Slots
  <1>4. [state |-> "START", time |-> 0, ready |-> FALSE] \in PlacingRegs
    <2>1. "START" \in States /\ FALSE \in BOOLEAN
      BY DEF States
    <2> QED BY ONLY <1>1, <2>1, PlacingAre
  <1>5. log \in LogStates
    BY EditorAssumption DEF Init, EmptyLog, LogStates
  <1>6. map \in [Addrs -> Identifiers]
    BY EditorAssumption, Board DEF Init
  <1>7. timer \in 0 .. TimerSpan - 1
    BY <1>1 DEF Init, Times
  <1>8. behind \in [Players -> Nat] /\ overrun \in [Players -> BOOLEAN]
    BY DEF Init
  <1> QED BY <1>2, <1>3, <1>4, <1>5, <1>6, <1>7, <1>8 DEF Init, TypeOK

-----------------------------------------------------------------------------
(***************************************************************************)
(* The cooldown.  It is over only when the tick comes whose low bits are   *)
(* those of the stored time; until then they are as many ticks ahead as    *)
(* the cooldown has left.                                                  *)
(***************************************************************************)
SpacedOK(p) ==
    /\ placed[p] \in Nat /\ due[p] \in 0 .. CooldownSpan - 1
    /\ placing[p].ready \/ placing[p].state = "SET" => placed[p] >= due[p]
    /\ placed[p] < due[p] =>
          placing[p].time % CooldownSpan = (timer + (due[p] - placed[p])) % CooldownSpan

IInv == TypeOK /\ \A p \in Players : SpacedOK(p)

LEMMA NotYet ==
    ASSUME TypeOK, NEW p \in Players, SpacedOK(p), placed[p] < due[p]
    PROVE  ~CooldownEnds(placing[p])
  <1> SUFFICES ASSUME CooldownEnds(placing[p]) PROVE FALSE
    OBVIOUS
  <1> DEFINE k == due[p] - placed[p]
  <1>1. k \in 1 .. CooldownSpan - 1 /\ timer \in Nat /\ CooldownSpan \in Nat \ {0}
        /\ timer + k \in Nat
    BY Board DEF SpacedOK, TypeOK
  <1>2. (timer + k) % CooldownSpan = timer % CooldownSpan
    BY DEF SpacedOK, CooldownEnds
  <1>3. PICK t \in Int : (timer + k) - timer = t * CooldownSpan
    BY ONLY <1>1, <1>2, SameRest
  <1> HIDE DEF k
  <1>4. k = t * CooldownSpan /\ k \in Int /\ -CooldownSpan < k /\ k < CooldownSpan
    BY <1>1, <1>3
  <1>5. k = 0
    BY ONLY <1>1, <1>4, SmallMultiple
  <1> QED BY <1>1, <1>5

(* What a clock edge does to the three registers.                          *)
LEMMA PlacingFields ==
    ASSUME NEW s \in PlacingRegs, NEW pressed, NEW full, NEW cooldown,
           NEW reset \in BOOLEAN
    PROVE  LET n == PlacingNext(s, pressed, full, cooldown, reset)
           IN  /\ s.state = "SET" => /\ n.time = (timer + cooldown) % TimerSpan
                                     /\ ~n.ready /\ n.state # "SET"
               /\ s.state # "SET" => /\ n.time = s.time
                                     /\ n.ready => s.ready \/ CooldownEnds(s)
                                     /\ n.state = "SET" => s.ready
  <1> DEFINE T == [state : States, time : Times, ready : BOOLEAN]
             y == CASE s.state = "START" -> StartPlacing(s, pressed, full)
                    [] s.state = "SET"   -> SetNext(s, cooldown)
                    [] s.state = "WAIT"  -> ReleaseNext(s, pressed)
             n == PlacingNext(s, pressed, full, cooldown, reset)
  <1>1. s \in T /\ s.state \in {"START", "SET", "WAIT"}
    BY PlacingAre DEF States
  <1>2. n = IF reset THEN [y EXCEPT !.state = "START"] ELSE y
    BY DEF PlacingNext
  <1>3. /\ DOMAIN y = {"state", "time", "ready"}
        /\ s.state = "SET" => /\ y.time = (timer + cooldown) % TimerSpan
                              /\ ~y.ready /\ y.state # "SET"
        /\ s.state # "SET" => /\ y.time = s.time
                              /\ y.ready => s.ready \/ CooldownEnds(s)
                              /\ y.state = "SET" => s.ready
    <2>1. CASE s.state = "START"
      <3>1. y = StartPlacing(s, pressed, full)
        BY <2>1
      <3> HIDE DEF y
      <3> QED BY <1>1, <2>1, <3>1 DEF StartPlacing
    <2>2. CASE s.state = "SET"
      <3>1. y = SetNext(s, cooldown)
        BY <2>2
      <3> HIDE DEF y
      <3> QED BY <1>1, <2>2, <3>1 DEF SetNext
    <2>3. CASE s.state = "WAIT"
      <3>1. y = ReleaseNext(s, pressed)
        BY <2>3
      <3> HIDE DEF y
      <3> QED BY <1>1, <2>3, <3>1 DEF ReleaseNext
    <2> QED BY <1>1, <2>1, <2>2, <2>3
  <1> HIDE DEF y, n
  <1>4. n.time = y.time /\ n.ready = y.ready /\ (n.state = y.state \/ n.state = "START")
    BY <1>2, <1>3
  <1>5. /\ s.state = "SET" => /\ n.time = (timer + cooldown) % TimerSpan
                              /\ ~n.ready /\ n.state # "SET"
        /\ s.state # "SET" => /\ n.time = s.time
                              /\ n.ready => s.ready \/ CooldownEnds(s)
                              /\ n.state = "SET" => s.ready
    BY <1>3, <1>4
  <1> QED BY <1>5 DEF n

LEMMA ClockSpaced ==
    ASSUME TypeOK, NEW p \in Players, SpacedOK(p),
           NEW reset \in BOOLEAN, NEW keys, NEW bombs, NEW cooldowns,
           cooldowns[p] \in 0 .. CooldownSpan - 1,
           Clock(reset, keys, bombs, cooldowns)
    PROVE  SpacedOK(p)'
  <1> DEFINE s == placing[p]
             n == placing'[p]
  <1>1. n = PlacingNext(s, p \in keys, Full(queue[p]), cooldowns[p], reset)
        /\ s \in PlacingRegs /\ timer' = timer
    BY DEF Clock, TypeOK
  <1>2. /\ s.state = "SET" => /\ n.time = (timer + cooldowns[p]) % TimerSpan
                              /\ ~n.ready /\ n.state # "SET"
        /\ s.state # "SET" => /\ n.time = s.time
                              /\ n.ready => s.ready \/ CooldownEnds(s)
                              /\ n.state = "SET" => s.ready
    BY <1>1, PlacingFields
  <1>3. placed'[p] = (IF Places(p) THEN 0 ELSE placed[p])
        /\ due'[p] = (IF Places(p) THEN cooldowns[p] ELSE due[p])
    BY DEF Clock
  <1>4. CASE s.state = "SET"
    <2>1. placed'[p] = 0 /\ due'[p] = cooldowns[p]
      BY <1>3, <1>4 DEF Places
    <2>2. n.time % CooldownSpan = (timer + cooldowns[p]) % CooldownSpan
      <3>1. timer + cooldowns[p] \in Nat /\ TimerSpan \in Nat \ {0}
            /\ CooldownSpan \in Nat \ {0} /\ TimerSpan % CooldownSpan = 0
        BY Board DEF TypeOK, SpansOK
      <3>2. ((timer + cooldowns[p]) % TimerSpan) % CooldownSpan
              = (timer + cooldowns[p]) % CooldownSpan
        BY ONLY <3>1, RestOfRest
      <3> QED BY <1>2, <1>4, <3>2
    <2>3. cooldowns[p] - 0 = cooldowns[p] /\ cooldowns[p] >= 0
      OBVIOUS
    <2> HIDE DEF n, s
    <2>4. /\ placed'[p] \in Nat /\ due'[p] \in 0 .. CooldownSpan - 1
          /\ n.ready \/ n.state = "SET" => placed'[p] >= due'[p]
          /\ n.time % CooldownSpan = (timer' + (due'[p] - placed'[p])) % CooldownSpan
      BY <1>1, <1>2, <1>4, <2>1, <2>2, <2>3
    <2> QED BY <2>4 DEF SpacedOK, n
  <1>5. CASE s.state # "SET"
    <2>1. placed'[p] = placed[p] /\ due'[p] = due[p]
      BY <1>3, <1>5 DEF Places
    <2>2. CooldownEnds(s) => placed[p] >= due[p]
      BY NotYet DEF SpacedOK
    <2>3. s.ready => placed[p] >= due[p]
      BY DEF SpacedOK
    <2>4. n.ready \/ n.state = "SET" => placed[p] >= due[p]
      BY <1>2, <1>5, <2>2, <2>3
    <2>5. n.time = s.time
      BY <1>2, <1>5
    <2> QED BY <1>1, <2>1, <2>4, <2>5 DEF SpacedOK
  <1> QED BY <1>4, <1>5

LEMMA TickSpaced ==
    ASSUME TypeOK, NEW p \in Players, SpacedOK(p), Tick
    PROVE  SpacedOK(p)'
  <1>1. /\ placing' = placing /\ due' = due /\ timer' = (timer + 1) % TimerSpan
        /\ placed'[p] = IF placed[p] < LongAgo THEN placed[p] + 1 ELSE LongAgo
    BY DEF Tick
  <1>2. CooldownSpan \in Nat \ {0} /\ TimerSpan \in Nat \ {0} /\ timer \in Nat
        /\ TimerSpan % CooldownSpan = 0
    BY Board DEF TypeOK, SpansOK
  <1>3. placed'[p] \in Nat /\ (placed[p] >= due[p] => placed'[p] >= due[p])
        /\ (placed'[p] < due[p] => placed'[p] = placed[p] + 1)
    BY <1>1, <1>2 DEF LongAgo, SpacedOK
  <1>4. ASSUME placed'[p] < due[p]
        PROVE  placing[p].time % CooldownSpan
                 = (timer' + (due[p] - placed'[p])) % CooldownSpan
    <2> DEFINE k == due[p] - placed[p] - 1
    <2>1. k \in Nat /\ placed[p] < due[p] /\ due[p] - placed'[p] = k
          /\ timer + (due[p] - placed[p]) = (timer + 1) + k
      BY <1>2, <1>3, <1>4 DEF SpacedOK
    <2>2. placing[p].time % CooldownSpan = ((timer + 1) + k) % CooldownSpan
      BY <2>1 DEF SpacedOK
    <2> HIDE DEF k
    <2>3. timer + 1 \in Nat
      BY <1>2
    <2>4. ((timer + 1) % TimerSpan) % CooldownSpan = (timer + 1) % CooldownSpan
      BY ONLY <1>2, <2>3, RestOfRest
    <2>5. timer' \in Nat
      BY <1>1, <1>2, <2>3, Rest
    <2>6. ((timer' % CooldownSpan) + k) % CooldownSpan = (timer' + k) % CooldownSpan
      BY ONLY <1>2, <2>1, <2>5, RestAdds
    <2>7. (((timer + 1) % CooldownSpan) + k) % CooldownSpan
            = ((timer + 1) + k) % CooldownSpan
      BY ONLY <1>2, <2>1, <2>3, RestAdds
    <2> QED BY <1>1, <2>1, <2>2, <2>4, <2>6, <2>7
  <1> QED BY <1>1, <1>3, <1>4 DEF SpacedOK

LEMMA Invariance == Spec => []IInv
  <1>1. Init => IInv
    <2> SUFFICES ASSUME Init, NEW p \in Players PROVE SpacedOK(p)
      BY InitTypes DEF IInv
    <2>1. placed[p] = CooldownSpan /\ due[p] = 0 /\ CooldownSpan \in Nat \ {0}
      BY Board DEF Init, LongAgo
    <2> QED BY <2>1 DEF SpacedOK
  <1>2. IInv /\ [Next]_vars => IInv'
    <2> SUFFICES ASSUME IInv, [Next]_vars PROVE IInv'
      OBVIOUS
    <2>1. CASE Step \/ Reset
      <3>1. PICK reset \in BOOLEAN : AnyClock(reset)
        BY <2>1 DEF Step, Reset
      <3>2. PICK keys \in SUBSET {p \in Players : ~reset /\ Listens(p)},
                 b0 \in BombsOf(0), b1 \in BombsOf(1), c0 \in CooldownsOf(0),
                 c1 \in CooldownsOf(1) :
               Clock(reset, keys, [p \in Players |-> IF p = 0 THEN b0 ELSE b1],
                                  [p \in Players |-> IF p = 0 THEN c0 ELSE c1])
        BY <3>1 DEF AnyClock
      <3> DEFINE bombs == [p \in Players |-> IF p = 0 THEN b0 ELSE b1]
                 cooldowns == [p \in Players |-> IF p = 0 THEN c0 ELSE c1]
      <3>3. b0 \in Items /\ b1 \in Items /\ c0 \in 0 .. CooldownSpan - 1
            /\ c1 \in 0 .. CooldownSpan - 1
        BY BombsAreItems, Board DEF IInv
      <3>4. \A p \in Players : /\ bombs[p] \in Items /\ cooldowns[p] \in Nat
                               /\ cooldowns[p] \in 0 .. CooldownSpan - 1
        BY <3>3
      <3> HIDE DEF bombs, cooldowns
      <3>5. Clock(reset, keys, bombs, cooldowns)
        BY <3>2 DEF bombs, cooldowns
      <3>6. TypeOK'
        BY <3>4, <3>5, ClockStays DEF IInv
      <3>7. \A p \in Players : SpacedOK(p)'
        BY <3>4, <3>5, ClockSpaced DEF IInv
      <3> QED BY <3>6, <3>7 DEF IInv
    <2>2. CASE Tick
      <3>1. \A p \in Players : SpacedOK(p)'
        BY <2>2, TickSpaced DEF IInv
      <3> QED BY <2>2, <3>1, TickStays DEF IInv
    <2>3. CASE UNCHANGED vars
      BY <2>3 DEF vars, IInv, TypeOK, SpacedOK
    <2> QED BY <2>1, <2>2, <2>3 DEF Next
  <1> QED BY <1>1, <1>2, PTL DEF Spec

(* The placement registers, the queues, the explosions, the editor, the    *)
(* map and the timer keep their widths (BombManager.sv, queue.sv,          *)
(* explosion.sv, Map.sv).                                                  *)
THEOREM BombManagerTypeCorrect == Spec => []TypeOK
  BY Invariance, PTL DEF IInv

(* No player places a bomb before the cooldown of the last one is over,    *)
(* for every cooldown that the compared bits of the timer can tell apart,  *)
(* whatever the key, the wrap of the timer and Reset do (BombManager.sv).  *)
THEOREM CooldownsKept == Spec => []PlacementsSpaced
  <1>1. IInv => PlacementsSpaced
    BY DEF IInv, SpacedOK, PlacementsSpaced, Places
  <1> QED BY <1>1, Invariance, PTL

-----------------------------------------------------------------------------
(***************************************************************************)
(* The ring of a queue: its pointers mark a window of k bombs, a put adds  *)
(* at the end of the window and a take moves its start on, whatever the    *)
(* counter makes of it.                                                    *)
(***************************************************************************)
RingOK(r, k) == k <= Words /\ r.writePtr = Wrap(r.readPtr + k)

Nth(r, i) == r.mem[Wrap(r.readPtr + i - 1)]

LEMMA Turns ==
    ASSUME NEW a \in Slots, NEW k \in 0 .. Words
    PROVE  Wrap(Wrap(a + k) + 1) = Wrap(Wrap(a + 1) + k)
  <1>1. Words \in Nat \ {0} /\ a \in 0 .. Words - 1
    BY QueueAssumption DEF Slots
  <1>2. CASE a + 1 < Words
    <2>1. Wrap(a + 1) = a + 1
      BY <1>1, <1>2 DEF Wrap
    <2>2. CASE a + k < Words
      BY <1>1, <2>1, <2>2 DEF Wrap
    <2>3. CASE a + k >= Words
      BY <1>1, <2>1, <2>3 DEF Wrap
    <2> QED BY <1>1, <2>2, <2>3
  <1>3. CASE a + 1 = Words
    BY <1>1, <1>3 DEF Wrap
  <1> QED BY <1>1, <1>2, <1>3

LEMMA Behind ==
    ASSUME NEW a \in Slots, NEW k \in 0 .. Words, NEW i \in 1 .. k - 1
    PROVE  /\ Wrap(Wrap(a + 1) + i - 1) = Wrap(a + (i + 1) - 1)
           /\ Wrap(a + (i + 1) - 1) \in Slots
           /\ Wrap(a + (i + 1) - 1) # Wrap(a + k)
  <1>1. Words \in Nat \ {0} /\ a \in 0 .. Words - 1 /\ i \in 1 .. Words - 1
    BY QueueAssumption DEF Slots
  <1>2. a + (i + 1) - 1 = a + i
    BY <1>1
  <1>3. Wrap(a + i) \in Slots /\ Wrap(a + i) # Wrap(a + k)
    BY <1>1 DEF Wrap, Slots
  <1>4. Wrap(Wrap(a + 1) + i - 1) = Wrap(a + i)
    BY <1>1 DEF Wrap
  <1> QED BY <1>2, <1>3, <1>4

(* n is r with one of its k bombs less at the start, with one more at the  *)
(* end, or with both.                                                      *)
Shorter(r, n, k) == /\ RingOK(n, k - 1)
                    /\ n.count = r.count - 1
                    /\ \A i \in 1 .. k - 1 : Nth(n, i) = Nth(r, i + 1)
Longer(r, n, k, in) == /\ RingOK(n, k + 1)
                       /\ n.count = r.count + 1
                       /\ \A i \in 1 .. k : Nth(n, i) = Nth(r, i)
                       /\ Nth(n, k + 1) = in
Turned(r, n, k, in) == /\ RingOK(n, k)
                       /\ n.count = r.count - 1
                       /\ \A i \in 1 .. k - 1 : Nth(n, i) = Nth(r, i + 1)
                       /\ Nth(n, k) = in

LEMMA Putting ==
    ASSUME NEW r \in QueueRegs, NEW k \in Nat, RingOK(r, k), k < Words,
           ~Full(r), NEW in \in Items,
           NEW n, n = QueueNext(r, FALSE, TRUE, in, FALSE)
    PROVE  Longer(r, n, k, in)
  <1>1. /\ r.mem \in [Slots -> Items] /\ r.readPtr \in Slots /\ r.writePtr \in Slots
        /\ r.count \in Nat /\ Words \in Nat \ {0} /\ FullAt \in Nat /\ Words <= FullAt
    BY QueueAssumption DEF QueueRegs
  <1>2. n = [mem |-> [r.mem EXCEPT ![r.writePtr] = in], readPtr |-> r.readPtr,
             writePtr |-> Wrap(r.writePtr + 1), count |-> r.count + 1]
    BY <1>1 DEF QueueNext, NextCount
  <1>4. /\ n.mem = [r.mem EXCEPT ![r.writePtr] = in] /\ n.readPtr = r.readPtr
        /\ n.writePtr = Wrap(r.writePtr + 1) /\ n.count = r.count + 1
    BY ONLY <1>2
  <1>5. RingOK(n, k + 1)
    <2>2. Wrap(r.writePtr + 1) = Wrap(r.readPtr + (k + 1))
      BY ONLY <1>1, k \in Nat, RingOK(r, k), k < Words DEF RingOK, Wrap, Slots
    <2> QED BY ONLY <1>1, <1>4, <2>2, k \in Nat, k < Words DEF RingOK
  <1>6. ASSUME NEW i \in 1 .. k PROVE Nth(n, i) = Nth(r, i)
    <2>1. Wrap(r.readPtr + i - 1) \in Slots /\ Wrap(r.readPtr + i - 1) # r.writePtr
      BY ONLY <1>1, k \in Nat, RingOK(r, k), k < Words, i \in 1 .. k
         DEF RingOK, Wrap, Slots
    <2> QED BY ONLY <1>1, <1>4, <2>1 DEF Nth
  <1>7. Nth(n, k + 1) = in
    <2>1. n.readPtr + (k + 1) - 1 = r.readPtr + k
      BY ONLY <1>1, <1>4, k \in Nat DEF Slots
    <2> QED BY ONLY <1>1, <1>4, <2>1, RingOK(r, k), in \in Items DEF Nth, RingOK
  <1> QED BY <1>4, <1>5, <1>6, <1>7 DEF Longer

LEMMA Taking ==
    ASSUME NEW r \in QueueRegs, NEW k \in Nat, RingOK(r, k), k > 0, ~Empty(r), NEW in,
           NEW n, n = QueueNext(r, FALSE, FALSE, in, TRUE)
    PROVE  Shorter(r, n, k)
  <1>1. /\ r.readPtr \in Slots /\ r.writePtr \in Slots
        /\ r.count \in Nat /\ Words \in Nat \ {0}
    BY QueueAssumption DEF QueueRegs
  <1>2. n = [mem |-> r.mem, readPtr |-> Wrap(r.readPtr + 1),
             writePtr |-> r.writePtr, count |-> r.count - 1]
    BY <1>1 DEF QueueNext, NextCount
  <1>3. /\ n.mem = r.mem /\ n.readPtr = Wrap(r.readPtr + 1)
        /\ n.writePtr = r.writePtr /\ n.count = r.count - 1
    BY ONLY <1>2
  <1>4. RingOK(n, k - 1)
    BY ONLY <1>1, <1>3, k \in Nat, RingOK(r, k), k > 0 DEF RingOK, Wrap, Slots
  <1>5. ASSUME NEW i \in 1 .. k - 1 PROVE Nth(n, i) = Nth(r, i + 1)
    <2>1. Wrap(n.readPtr + i - 1) = Wrap(r.readPtr + (i + 1) - 1)
      BY ONLY <1>1, <1>3, k \in Nat, i \in 1 .. k - 1, RingOK(r, k)
         DEF RingOK, Wrap, Slots
    <2> QED BY <1>3, <2>1 DEF Nth
  <1> QED BY <1>3, <1>4, <1>5 DEF Shorter

LEMMA Turning ==
    ASSUME NEW r \in QueueRegs, NEW k \in Nat, RingOK(r, k), k > 0,
           ~Empty(r), ~Full(r), NEW in \in Items,
           NEW n, n = QueueNext(r, FALSE, TRUE, in, TRUE)
    PROVE  Turned(r, n, k, in)
  <1>1. /\ r.mem \in [Slots -> Items] /\ r.readPtr \in Slots /\ r.writePtr \in Slots
        /\ r.count \in Nat /\ Words \in Nat \ {0}
    BY QueueAssumption DEF QueueRegs
  <1>2. n = [mem |-> [r.mem EXCEPT ![r.writePtr] = in], readPtr |-> Wrap(r.readPtr + 1),
             writePtr |-> Wrap(r.writePtr + 1), count |-> r.count - 1]
    BY <1>1 DEF QueueNext, NextCount
  <1>3. /\ n.mem = [r.mem EXCEPT ![r.writePtr] = in] /\ n.readPtr = Wrap(r.readPtr + 1)
        /\ n.writePtr = Wrap(r.writePtr + 1) /\ n.count = r.count - 1
    BY ONLY <1>2
  <1>k. k \in 0 .. Words /\ r.writePtr = Wrap(r.readPtr + k)
    BY <1>1 DEF RingOK
  <1>4. RingOK(n, k)
    <2>1. Wrap(Wrap(r.readPtr + k) + 1) = Wrap(Wrap(r.readPtr + 1) + k)
      BY <1>1, <1>k, Turns
    <2> QED BY <1>3, <1>k, <2>1 DEF RingOK
  <1>5. ASSUME NEW i \in 1 .. k - 1 PROVE Nth(n, i) = Nth(r, i + 1)
    <2>1. Wrap(n.readPtr + i - 1) = Wrap(r.readPtr + (i + 1) - 1)
          /\ Wrap(r.readPtr + (i + 1) - 1) \in Slots
          /\ Wrap(r.readPtr + (i + 1) - 1) # r.writePtr
      <3>1. /\ Wrap(Wrap(r.readPtr + 1) + i - 1) = Wrap(r.readPtr + (i + 1) - 1)
            /\ Wrap(r.readPtr + (i + 1) - 1) \in Slots
            /\ Wrap(r.readPtr + (i + 1) - 1) # Wrap(r.readPtr + k)
        BY <1>1, <1>k, Behind
      <3> QED BY <1>3, <1>k, <3>1
    <2> QED BY ONLY <1>1, <1>3, <2>1 DEF Nth
  <1>6. Nth(n, k) = in
    <2>1. Wrap(n.readPtr + k - 1) = r.writePtr
      BY ONLY <1>1, <1>3, k \in Nat, k > 0, RingOK(r, k) DEF RingOK, Wrap, Slots
    <2> QED BY ONLY <1>1, <1>3, <2>1, in \in Items DEF Nth
  <1> QED BY <1>3, <1>4, <1>5, <1>6 DEF Turned

LEMMA Staying ==
    ASSUME NEW r \in QueueRegs, NEW k, RingOK(r, k), NEW in,
           NEW reset \in BOOLEAN, NEW we \in BOOLEAN, NEW next \in BOOLEAN,
           ~reset, ~we, ~next,
           NEW n, n = QueueNext(r, reset, we, in, next)
    PROVE  RingOK(n, k) /\ n.count = r.count /\ \A i : Nth(n, i) = Nth(r, i)
  <1>1. n = [mem |-> r.mem, readPtr |-> r.readPtr, writePtr |-> r.writePtr,
             count |-> r.count]
    BY DEF QueueNext, NextCount
  <1>2. n.mem = r.mem /\ n.readPtr = r.readPtr /\ n.writePtr = r.writePtr
        /\ n.count = r.count
    BY ONLY <1>1
  <1> QED BY <1>2 DEF RingOK, Nth

LEMMA Emptying ==
    ASSUME NEW r \in QueueRegs, NEW we \in BOOLEAN, NEW in, NEW next \in BOOLEAN,
           NEW reset \in BOOLEAN, reset,
           NEW n, n = QueueNext(r, reset, we, in, next)
    PROVE  RingOK(n, 0) /\ n.count = 0
  <1>1. n = [r EXCEPT !.readPtr = 0, !.writePtr = 0, !.count = 0]
    BY DEF QueueNext
  <1>2. n.readPtr = 0 /\ n.writePtr = 0 /\ n.count = 0
    BY <1>1 DEF QueueRegs
  <1>3. RingOK(n, 0)
    BY ONLY <1>2, QueueAssumption DEF RingOK, Wrap
  <1> QED BY <1>2, <1>3

-----------------------------------------------------------------------------
(***************************************************************************)
(* The ticks that are left until the timer shows t.                        *)
(***************************************************************************)
Left(t) == IF t >= timer THEN t - timer ELSE t + TimerSpan - timer

LEMMA LeftInRange ==
    ASSUME timer \in Times, NEW t \in Times
    PROVE  Left(t) \in Times /\ (Left(t) = 0 <=> t = timer)
  <1>1. TimerSpan \in Nat \ {0}
    BY BombManagerAssumption
  <1> QED BY <1>1 DEF Left, Times

LEMMA LeftOf ==
    ASSUME timer \in Times, NEW d \in Times
    PROVE  (timer + d) % TimerSpan \in Times /\ Left((timer + d) % TimerSpan) = d
  <1>1. TimerSpan \in Nat \ {0} /\ timer \in 0 .. TimerSpan - 1 /\ d \in 0 .. TimerSpan - 1
    BY BombManagerAssumption DEF Times
  <1>2. timer + d \in Nat
    BY <1>1
  <1>3. (timer + d) % TimerSpan
          = IF timer + d < TimerSpan THEN timer + d ELSE timer + d - TimerSpan
    <2> DEFINE r == (timer + d) % TimerSpan
               q == (timer + d) \div TimerSpan
    <2>1. timer + d = q * TimerSpan + r /\ r \in 0 .. TimerSpan - 1 /\ q \in Nat
      BY ONLY <1>1, <1>2, Rest
    <2> HIDE DEF r, q
    <2>2. CASE timer + d < TimerSpan
      <3>1. timer + d = 0 * TimerSpan + (timer + d) /\ timer + d \in 0 .. TimerSpan - 1
        BY <1>1, <1>2, <2>2
      <3>2. r = timer + d
        BY ONLY <1>1, <2>1, <3>1, UniqueRest, 0 \in Int, q \in Int
      <3> QED BY <2>2, <3>2 DEF r
    <2>3. CASE timer + d >= TimerSpan
      <3>1. timer + d = 1 * TimerSpan + (timer + d - TimerSpan)
            /\ timer + d - TimerSpan \in 0 .. TimerSpan - 1
        BY <1>1, <1>2, <2>3
      <3>2. r = timer + d - TimerSpan
        BY ONLY <1>1, <2>1, <3>1, UniqueRest, 1 \in Int, q \in Int
      <3> QED BY <1>1, <2>3, <3>2 DEF r
    <2> QED BY <1>1, <2>2, <2>3
  <1> QED BY <1>1, <1>3 DEF Left, Times

LEMMA LeftTicks ==
    ASSUME timer \in Times, timer' = (timer + 1) % TimerSpan, NEW t \in Times, t # timer
    PROVE  Left(t)' = Left(t) - 1
  <1>1. TimerSpan \in Nat \ {0} /\ timer \in 0 .. TimerSpan - 1 /\ t \in 0 .. TimerSpan - 1
    BY BombManagerAssumption DEF Times
  <1>2. timer' = IF timer = TimerSpan - 1 THEN 0 ELSE timer + 1
    BY <1>1
  <1> QED BY <1>1, <1>2 DEF Left

-----------------------------------------------------------------------------
(***************************************************************************)
(* The bombs that wait.  They are due one after the other, and so far      *)
(* apart that the flames of each are cleared before the next one is due.   *)
(***************************************************************************)
(* Flames are out before a bomb is due that was placed after them, and no  *)
(* bomb overtakes the ones placed before it: what buff.sv gives a player   *)
(* as long as the delay varies by less than the cooldown exceeds the eight *)
(* ticks of the flames.                                                    *)
Steady == /\ \A d \in Delays : FlameTicks < d /\ d < TimerSpan
          /\ \A d, e \in Delays, c \in Cooldowns : e + FlameTicks < d + c

LeftOfNth(p, i) == Left(Nth(queue[p], i).time)

Busy(p) == x[p].phase # "START"

FlameOK(p) == Busy(p) => Left(x[p].clear_time) <= FlameTicks

(* No placement has met a take, none has come beyond the ring.             *)
InSequence(p) == behind[p] = 0 /\ ~overrun[p]

DueOK(p) ==
    /\ RingOK(queue[p], queue[p].count)
    /\ \A i \in 1 .. queue[p].count :
          /\ \A j \in i + 1 .. queue[p].count :
                LeftOfNth(p, i) + FlameTicks < LeftOfNth(p, j)
          /\ due[p] \in Cooldowns
          /\ \A d \in Delays, c \in Cooldowns :
                LeftOfNth(p, i) + placed[p] + FlameTicks < d + c
          /\ Busy(p) => Left(x[p].clear_time) < LeftOfNth(p, i)

DueInv == IInv /\ \A p \in Players : FlameOK(p) /\ (InSequence(p) => DueOK(p))

(* A fire that starts is to be cleared FlameTicks from now; nothing else   *)
(* changes when.                                                           *)
LEMMA FireTime ==
    ASSUME NEW y \in ExplosionRegs, NEW p \in Players, NEW in \in Inputs
    PROVE  LET n == ExplosionNext(y, p, in)
           IN  /\ y.phase = "START" /\ in.ready => n.clear_time = ClearTime(in.timer)
               /\ y.phase = "START" /\ ~in.ready => n.phase = "START"
               /\ y.phase # "START" => n.clear_time = y.clear_time
  <1> DEFINE z == Idle(y, p)
  <1>1. y \in Regs /\ z \in Regs
    BY RegsAre, IdleStays
  <1>2. z.phase = y.phase /\ z.clear_time = y.clear_time
    BY ONLY <1>1 DEF Regs, Idle, z
  <1> HIDE DEF z
  <1>3. CASE y.phase = "START"
    <2>1. ExplosionNext(y, p, in) = StartNext(y, p, in)
      BY <1>3 DEF ExplosionNext
    <2>2. CASE in.ready
      <3>1. StartNext(y, p, in)
              = [z EXCEPT !.phase = "ARM", !.count = FirstCount(in.length),
                          !.coords = in.coordinate,
                          !.Address = in.coordinate, !.length = in.length,
                          !.clear_time = ClearTime(in.timer)]
        BY <2>2 DEF StartNext, z
      <3>2. StartNext(y, p, in).clear_time = ClearTime(in.timer)
        BY ONLY <1>1, <3>1 DEF Regs
      <3> QED BY <1>3, <2>1, <2>2, <3>2
    <2>3. CASE ~in.ready
      <3>1. StartNext(y, p, in) = z
        BY <2>3 DEF StartNext, z
      <3> QED BY <1>2, <1>3, <2>1, <2>3, <3>1
    <2> QED BY <2>2, <2>3
  <1>4. CASE y.phase # "START"
    <2>1. \A look, centre : ArmNext(y, p, look, centre).clear_time = y.clear_time
      BY <1>1, <1>2 DEF ArmNext, Regs, z
    <2>2. ReplaceNext(y, p, in).clear_time = y.clear_time
      BY <1>1, <1>2 DEF ReplaceNext, Regs, z
    <2>3. MidNext(y, p).clear_time = y.clear_time
      BY <1>1, <1>2 DEF MidNext, Regs, z
    <2>4. WaitNext(y, p, in).clear_time = y.clear_time
      BY <1>1, <1>2 DEF WaitNext, Regs, z
    <2>5. ClearNext(y, p, in).clear_time = y.clear_time
      BY <1>1, <1>2 DEF ClearNext, Regs, z
    <2>6. ClearMidNext(y, p, in).clear_time = y.clear_time
      BY <1>1, <1>2 DEF ClearMidNext, Regs, z
    <2>7. y.phase \in Phases
      BY <1>1, RegsOf
    <2> QED BY <1>4, <2>1, <2>2, <2>3, <2>4, <2>5, <2>6, <2>7 DEF ExplosionNext, Phases
  <1> QED BY <1>3, <1>4

LEMMA NthIsBomb ==
    ASSUME TypeOK, NEW p \in Players, NEW i \in 1 .. queue[p].count,
           RingOK(queue[p], queue[p].count)
    PROVE  Nth(queue[p], i) \in Items /\ Nth(queue[p], i).time \in Times
           /\ LeftOfNth(p, i) \in Times
  <1>1. queue[p] \in QueueRegs
    BY DEF TypeOK
  <1>2. Wrap(queue[p].readPtr + i - 1) \in Slots
    BY <1>1, QueueAssumption DEF RingOK, QueueRegs, Wrap, Slots
  <1>3. Nth(queue[p], i) \in Items
    BY <1>1, <1>2 DEF Nth, QueueRegs
  <1>4. Nth(queue[p], i).time \in Times /\ timer \in Times
    BY <1>3, Board DEF TypeOK, Times
  <1> QED BY <1>3, <1>4, LeftInRange DEF LeftOfNth

(* The bomb at the output of the queue is the first one that waits.        *)
LEMMA OutIsFirst ==
    ASSUME TypeOK, NEW p \in Players
    PROVE  Out(queue[p]) = Nth(queue[p], 1)
  <1>1. queue[p].readPtr \in Slots
    BY DEF TypeOK, QueueRegs
  <1>2. Wrap(queue[p].readPtr + 1 - 1) = queue[p].readPtr
    BY <1>1, QueueAssumption DEF Wrap, Slots
  <1> QED BY <1>2 DEF Out, Nth

LEMMA ClockDue ==
    ASSUME Steady, TypeOK, NEW p \in Players, SpacedOK(p),
           FlameOK(p), InSequence(p) => DueOK(p),
           NEW reset \in BOOLEAN, NEW keys, NEW bombs, NEW cooldowns,
           bombs[p] \in Items,
           Places(p) => /\ \E d \in Delays : bombs[p].time = (timer + d) % TimerSpan
                        /\ cooldowns[p] \in Cooldowns,
           Clock(reset, keys, bombs, cooldowns)
    PROVE  FlameOK(p)' /\ (InSequence(p)' => DueOK(p)')
  <1> DEFINE r == queue[p]
             n == queue'[p]
  <1>0. Places(p) \in BOOLEAN /\ Takes(p) \in BOOLEAN
    BY DEF Places, Takes
  <1>1. /\ n = QueueNext(r, reset, Places(p), bombs[p], Takes(p))
        /\ r \in QueueRegs /\ timer' = timer /\ timer \in Times
        /\ placed'[p] = (IF Places(p) THEN 0 ELSE placed[p])
        /\ due'[p] = (IF Places(p) THEN cooldowns[p] ELSE due[p])
    BY DEF Clock, TypeOK, Times
  <1>2. /\ x[p] \in ExplosionRegs /\ x'[p] = ExplosionNext(x[p], p, Input(p))
        /\ Input(p) \in Inputs /\ (Input(p).ready <=> Trigger(p)) /\ Input(p).timer = timer
    BY InputOK DEF Clock, TypeOK, Input
  <1>3. \A t : Left(t)' = Left(t)
    BY <1>1 DEF Left
  <1>4. TimerSpan \in Nat \ {0} /\ FlameTicks \in Times /\ FlameTicks \in Nat
        /\ Left(ClearTime(timer)) = FlameTicks
    <2>1. TimerSpan \in Nat \ {0} /\ FlameTicks \in Times
      BY BombManagerAssumption DEF Times
    <2> QED BY <1>1, <2>1, LeftOf DEF ClearTime, Times
  <1>r. reset \in BOOLEAN /\ bombs[p] \in Items /\ r.count \in Nat
    BY <1>1, QueueAssumption DEF QueueRegs
  <1>h. /\ reset => RingOK(n, 0) /\ n.count = 0
        /\ ~reset /\ InSequence(p)' => InSequence(p) /\ ~Meets(p) /\ ~Overruns(p)
    <2>1. reset => RingOK(n, 0) /\ n.count = 0
      <3> HIDE DEF r, n
      <3> QED BY ONLY <1>0, <1>1, <1>r, Emptying
    <2>2. RingHistory(reset) /\ behind[p] \in Nat
      BY DEF Clock, TypeOK
    <2>3. ASSUME ~reset, InSequence(p)'
          PROVE  InSequence(p) /\ ~Meets(p) /\ ~Overruns(p)
      <3>1. ~overrun[p] /\ ~Overruns(p)
        BY <2>2, <2>3 DEF RingHistory, InSequence
      <3>2. 0 = IF Meets(p) THEN behind[p] + 1 ELSE behind[p]
        BY <2>2, <2>3, <3>1 DEF RingHistory, InSequence
      <3>3. behind[p] = 0 /\ ~Meets(p)
        BY <2>2, <3>2
      <3> QED BY <3>1, <3>3 DEF InSequence
    <2> QED BY <2>1, <2>3
  <1>5. CASE Takes(p)
    <2>1. x'[p].clear_time = ClearTime(timer) /\ Trigger(p) /\ r.count > 0 /\ ~Empty(r)
      <3>1. Trigger(p) /\ x[p].phase = "START"
        BY <1>5 DEF Takes
      <3>2. r.count # 0 /\ ~Empty(r)
        BY <1>1, <3>1 DEF Trigger, Empty
      <3>3. x'[p].clear_time = ClearTime(timer)
        BY <1>2, <3>1, FireTime
      <3> QED BY <1>r, <3>1, <3>2, <3>3
    <2>2. FlameOK(p)' /\ Left(x[p].clear_time)' = FlameTicks
      BY <1>3, <1>4, <2>1 DEF FlameOK
    <2>3. CASE reset
      <3> HIDE DEF r, n
      <3> QED BY <1>h, <2>2, <2>3 DEF DueOK, n
    <2>k. CASE ~InSequence(p)' /\ ~reset
      BY <2>2, <2>k
    <2>4. CASE ~reset /\ InSequence(p)'
      <3>1. DueOK(p) /\ ~Places(p)
        BY <1>5, <1>h, <2>4 DEF Meets
      <3>2. /\ RingOK(n, n.count) /\ n.count = r.count - 1
            /\ \A i \in 1 .. n.count : Nth(n, i) = Nth(r, i + 1)
        <4>0. RingOK(r, r.count)
          BY <3>1 DEF DueOK
        <4> HIDE DEF r, n
        <4>1. reset = FALSE /\ Places(p) = FALSE /\ Takes(p) = TRUE
          BY ONLY <1>0, <1>r, <1>5, <3>1, <2>4
        <4>2. n = QueueNext(r, FALSE, FALSE, bombs[p], TRUE)
          BY ONLY <1>1, <4>1
        <4>3. Shorter(r, n, r.count)
          BY ONLY <1>1, <1>r, <2>1, <4>0, <4>2, Taking
        <4>4. n.count = r.count - 1
          BY ONLY <4>3 DEF Shorter
        <4> QED BY ONLY <4>3, <4>4 DEF Shorter
      <3>3. LeftOfNth(p, 1) = 0
        <4>1. Nth(r, 1).time = timer
          BY <2>1, OutIsFirst DEF Trigger
        <4> QED BY <1>1, <4>1, LeftInRange DEF LeftOfNth
      <3>4. r.count \in Nat /\ r.count > 0
        BY <1>r, <2>1
      <3>5. ASSUME NEW i \in 1 .. n.count
            PROVE  LeftOfNth(p, i)' = LeftOfNth(p, i + 1) /\ i + 1 \in 1 .. r.count
                   /\ FlameTicks < LeftOfNth(p, i + 1)
        <4>1. i + 1 \in 1 .. r.count /\ 1 \in 1 .. r.count /\ i + 1 \in 1 + 1 .. r.count
          BY <3>2, <3>4
        <4>2. LeftOfNth(p, i)' = LeftOfNth(p, i + 1)
          BY <1>3, <3>2 DEF LeftOfNth
        <4>3. LeftOfNth(p, 1) + FlameTicks < LeftOfNth(p, i + 1)
          BY <3>1, <4>1 DEF DueOK
        <4> QED BY <1>4, <3>3, <4>1, <4>2, <4>3
      <3>6. ASSUME NEW i \in 1 .. n.count, NEW j \in i + 1 .. n.count
            PROVE  LeftOfNth(p, i)' + FlameTicks < LeftOfNth(p, j)'
        <4>1. j \in 1 .. n.count /\ i + 1 \in 1 .. r.count /\ j + 1 \in (i + 1) + 1 .. r.count
          BY <3>2, <3>4
        <4>2. LeftOfNth(p, i + 1) + FlameTicks < LeftOfNth(p, j + 1)
          BY <3>1, <4>1 DEF DueOK
        <4> QED BY <3>5, <4>1, <4>2
      <3>7. placed'[p] = placed[p] /\ due'[p] = due[p]
        BY <1>1, <3>1
      <3>8. ASSUME NEW i \in 1 .. n.count
            PROVE  /\ due'[p] \in Cooldowns
                   /\ \A d \in Delays, c \in Cooldowns :
                         LeftOfNth(p, i)' + placed'[p] + FlameTicks < d + c
        BY <3>1, <3>5, <3>7 DEF DueOK
      <3> HIDE DEF r, n
      <3> QED BY <2>2, <3>2, <3>5, <3>6, <3>8 DEF DueOK, n
    <2> QED BY <2>3, <2>k, <2>4
  <1>6. CASE ~Takes(p)
    <2>1. Busy(p)' => Busy(p) /\ x'[p].clear_time = x[p].clear_time
      BY <1>2, <1>6, FireTime DEF Busy, Takes
    <2>2. FlameOK(p)' /\ (Busy(p)' => Left(x[p].clear_time)' = Left(x[p].clear_time))
      BY <1>3, <2>1 DEF FlameOK
    <2>3. CASE reset
      <3> HIDE DEF r, n
      <3> QED BY <1>h, <2>2, <2>3 DEF DueOK, n
    <2>k. CASE ~InSequence(p)' /\ ~reset
      BY <2>2, <2>k
    <2>4. CASE ~reset /\ InSequence(p)' /\ Places(p)
      <3>1. DueOK(p) /\ behind[p] = 0
        BY <1>h, <2>4 DEF InSequence
      <3>2. r.count \in Nat /\ r.count < Words /\ ~Full(r)
        BY <1>r, <1>h, <1>6, <2>4, <3>1, QueueAssumption DEF Overruns
      <3>3. /\ RingOK(n, n.count) /\ n.count = r.count + 1
            /\ \A i \in 1 .. r.count : Nth(n, i) = Nth(r, i)
            /\ Nth(n, r.count + 1) = bombs[p]
        <4>0. RingOK(r, r.count)
          BY <3>1 DEF DueOK
        <4> HIDE DEF r, n
        <4>1. reset = FALSE /\ Places(p) = TRUE /\ Takes(p) = FALSE
          BY ONLY <1>0, <1>r, <1>6, <2>4
        <4>2. n = QueueNext(r, FALSE, TRUE, bombs[p], FALSE)
          BY ONLY <1>1, <4>1
        <4>4. Longer(r, n, r.count, bombs[p])
          BY ONLY <1>1, <1>r, <3>2, <4>0, <4>2, Putting
        <4>5. n.count = r.count + 1
          BY ONLY <4>4 DEF Longer
        <4> QED BY ONLY <4>4, <4>5 DEF Longer
      <3>k. PICK k \in Nat : k = r.count + 1
        BY <3>2
      <3>4. PICK d \in Delays : bombs[p].time = (timer + d) % TimerSpan
        BY <2>4
      <3>5. d \in Times /\ d \in Nat /\ FlameTicks < d
        BY <1>4, BombManagerAssumption DEF Steady, Times
      <3>6. LeftOfNth(p, k)' = d
        <4>1. Left(bombs[p].time) = d
          BY <1>1, <3>4, <3>5, LeftOf
        <4>2. Nth(n, k) = bombs[p]
          BY <3>3, <3>k
        <4>3. LeftOfNth(p, k)' = Left(Nth(n, k).time)
          BY <1>3 DEF LeftOfNth, Nth
        <4> QED BY <4>1, <4>2, <4>3
      <3>7. \A i \in 1 .. r.count : LeftOfNth(p, i)' = LeftOfNth(p, i)
        BY <1>3, <3>3 DEF LeftOfNth
      <3>8. placed'[p] = 0 /\ due'[p] \in Cooldowns
        BY <1>1, <2>4
      <3>9. placed[p] >= due[p] /\ placed[p] \in Nat /\ due[p] \in Nat
        BY <2>4 DEF SpacedOK, Places
      <3>10. ASSUME NEW i \in 1 .. r.count
             PROVE  /\ LeftOfNth(p, i) \in Nat
                    /\ LeftOfNth(p, i) + FlameTicks < d
                    /\ \A e \in Delays, c \in Cooldowns :
                          LeftOfNth(p, i) + 0 + FlameTicks < e + c
        <4>1. LeftOfNth(p, i) \in Nat
          BY <3>1, NthIsBomb DEF DueOK, Times
        <4>2. due[p] \in Cooldowns
              /\ \A e \in Delays, c \in Cooldowns :
                    LeftOfNth(p, i) + placed[p] + FlameTicks < e + c
          BY <3>1 DEF DueOK
        <4>3. LeftOfNth(p, i) + placed[p] + FlameTicks < d + due[p]
          BY <4>2
        <4>4. \A e \in Delays, c \in Cooldowns : e \in Nat /\ c \in Nat
          BY BombManagerAssumption, Board
        <4>5. LeftOfNth(p, i) + FlameTicks < d
          BY <1>4, <3>5, <3>9, <4>1, <4>3
        <4>6. \A e \in Delays, c \in Cooldowns :
                  LeftOfNth(p, i) + 0 + FlameTicks < e + c
          BY <1>4, <3>9, <4>1, <4>2, <4>4
        <4> QED BY <4>1, <4>5, <4>6
      <3>11. \A e \in Delays, c \in Cooldowns : d + 0 + FlameTicks < e + c
        BY <1>4, <3>5 DEF Steady
      <3>12. ASSUME NEW i \in 1 .. n.count, NEW j \in i + 1 .. n.count
             PROVE  LeftOfNth(p, i)' + FlameTicks < LeftOfNth(p, j)'
        <4>1. i \in 1 .. r.count /\ (j \in i + 1 .. r.count \/ j = k)
          BY <3>2, <3>3, <3>k
        <4>2. CASE j = k
          BY <3>6, <3>7, <3>10, <4>1, <4>2
        <4>3. CASE j \in i + 1 .. r.count
          <5>1. j \in 1 .. r.count
            BY <3>2, <4>1, <4>3
          <5> QED BY <3>1, <3>7, <4>1, <4>3, <5>1 DEF DueOK
        <4> QED BY <4>1, <4>2, <4>3
      <3>13. ASSUME NEW i \in 1 .. n.count
             PROVE  \A e \in Delays, c \in Cooldowns :
                       LeftOfNth(p, i)' + placed'[p] + FlameTicks < e + c
        <4>1. i \in 1 .. r.count \/ i = k
          BY <3>2, <3>3, <3>k
        <4>2. CASE i = k
          BY <3>6, <3>8, <3>11, <4>2
        <4>3. CASE i \in 1 .. r.count
          BY <3>7, <3>8, <3>10, <4>3
        <4> QED BY <4>1, <4>2, <4>3
      <3>14. ASSUME NEW i \in 1 .. n.count, Busy(p)'
             PROVE  Left(x[p].clear_time)' < LeftOfNth(p, i)'
        <4>1. i \in 1 .. r.count \/ i = k
          BY <3>2, <3>3, <3>k
        <4>2. Busy(p) /\ Left(x[p].clear_time)' = Left(x[p].clear_time)
              /\ Left(x[p].clear_time) <= FlameTicks /\ Left(x[p].clear_time) \in Nat
          <5>1. x[p].clear_time \in Times
            BY <1>2, RegsAre, RegsOf
          <5> QED BY <1>1, <2>1, <2>2, <3>14, <5>1, LeftInRange DEF FlameOK, Times
        <4>3. CASE i = k
          BY <1>4, <3>5, <3>6, <4>2, <4>3
        <4>4. CASE i \in 1 .. r.count
          BY <3>1, <3>7, <4>2, <4>4 DEF DueOK
        <4> QED BY <4>1, <4>3, <4>4
      <3> HIDE DEF r, n
      <3> QED BY <2>2, <3>3, <3>8, <3>12, <3>13, <3>14 DEF DueOK, n
    <2>5. CASE ~reset /\ InSequence(p)' /\ ~Places(p)
      <3>1. DueOK(p)
        BY <1>h, <2>5
      <3>2. RingOK(n, n.count) /\ n.count = r.count /\ \A i : Nth(n, i) = Nth(r, i)
        <4>0. RingOK(r, r.count)
          BY <3>1 DEF DueOK
        <4> HIDE DEF r, n
        <4>1. RingOK(n, r.count) /\ n.count = r.count /\ \A i : Nth(n, i) = Nth(r, i)
          BY ONLY <1>0, <1>1, <1>r, <1>6, <2>5, <4>0, Staying
        <4> QED BY ONLY <4>1
      <3>3. \A i \in 1 .. n.count : LeftOfNth(p, i)' = LeftOfNth(p, i)
        BY <1>3, <3>2 DEF LeftOfNth
      <3>4. placed'[p] = placed[p] /\ due'[p] = due[p]
        BY <1>1, <2>5
      <3>5. ASSUME NEW i \in 1 .. n.count, NEW j \in i + 1 .. n.count
            PROVE  LeftOfNth(p, i)' + FlameTicks < LeftOfNth(p, j)'
        <4>1. j \in 1 .. n.count
          BY <1>r, <3>2
        <4> QED BY <3>1, <3>2, <3>3, <4>1 DEF DueOK
      <3>6. ASSUME NEW i \in 1 .. n.count
            PROVE  /\ due'[p] \in Cooldowns
                   /\ \A d \in Delays, c \in Cooldowns :
                         LeftOfNth(p, i)' + placed'[p] + FlameTicks < d + c
                   /\ Busy(p)' => Left(x[p].clear_time)' < LeftOfNth(p, i)'
        BY <2>1, <2>2, <3>1, <3>2, <3>3, <3>4 DEF DueOK
      <3> HIDE DEF r, n
      <3> QED BY <2>2, <3>2, <3>5, <3>6 DEF DueOK, n
    <2> QED BY <2>3, <2>k, <2>4, <2>5
  <1> QED BY <1>5, <1>6

(* When the tick ends, every bomb that waits is still ahead: the first one *)
(* would be taken now, or else it waits for the flames to be out.          *)
LEMMA NoneIsDue ==
    ASSUME TypeOK, NEW p \in Players, DueOK(p), Rested, NEW i \in 1 .. queue[p].count
    PROVE  Nth(queue[p], i).time # timer
           /\ (Busy(p) => x[p].clear_time # timer)
  <1>1. /\ timer \in Times /\ x[p].clear_time \in Times
        /\ queue[p].count \in Nat /\ queue[p].count > 0
    <2>1. x[p].clear_time \in Times
      BY RegsAre, RegsOf DEF TypeOK
    <2>2. queue[p].count \in 0 .. FullAt
      BY DEF TypeOK, QueueRegs
    <2> QED BY <2>1, <2>2, QueueAssumption DEF TypeOK, Times
  <1>2. \A j \in 1 .. queue[p].count :
            LeftOfNth(p, j) \in Times /\ (LeftOfNth(p, j) = 0 <=> Nth(queue[p], j).time = timer)
    BY <1>1, NthIsBomb, LeftInRange DEF DueOK, LeftOfNth
  <1>3. FlameTicks \in Nat
    BY BombManagerAssumption
  <1>4. CASE Busy(p)
    <2>1. x[p].phase = "WAIT" /\ timer # x[p].clear_time
      BY <1>4 DEF Rested, Busy
    <2>2. Left(x[p].clear_time) \in Nat
      BY <1>1, LeftInRange DEF Times
    <2>3. Left(x[p].clear_time) < LeftOfNth(p, i)
      BY <1>4 DEF DueOK
    <2> QED BY <1>2, <2>1, <2>2, <2>3 DEF Times
  <1>5. CASE ~Busy(p)
    <2>1. ~Trigger(p)
      BY <1>5 DEF Rested, Takes, Busy
    <2>2. Nth(queue[p], 1).time # timer /\ 1 \in 1 .. queue[p].count
      BY <1>1, <2>1, OutIsFirst DEF Trigger, Empty
    <2>3. LeftOfNth(p, 1) # 0 /\ LeftOfNth(p, 1) \in Nat
      BY <1>2, <2>2 DEF Times
    <2>4. CASE i = 1
      BY <1>5, <2>2, <2>4
    <2>5. CASE i # 1
      <3>1. i \in 1 + 1 .. queue[p].count
        BY <2>5
      <3>2. LeftOfNth(p, 1) + FlameTicks < LeftOfNth(p, i)
        BY <2>2, <3>1 DEF DueOK
      <3> QED BY <1>2, <1>3, <1>5, <2>3, <3>2 DEF Times
    <2> QED BY <2>4, <2>5
  <1> QED BY <1>4, <1>5

LEMMA TickFlames ==
    ASSUME TypeOK, NEW p \in Players, FlameOK(p), Tick
    PROVE  /\ FlameOK(p)' /\ Busy(p)' = Busy(p)
           /\ Busy(p) => /\ Left(x[p].clear_time)' = Left(x[p].clear_time) - 1
                         /\ Left(x[p].clear_time) \in Nat
  <1>1. x' = x /\ Rested /\ timer' = (timer + 1) % TimerSpan
    BY DEF Tick
  <1>2. timer \in Times /\ x[p].clear_time \in Times /\ FlameTicks \in Nat
    <2>1. x[p].clear_time \in Times
      BY RegsAre, RegsOf DEF TypeOK
    <2> QED BY <2>1, BombManagerAssumption DEF TypeOK, Times
  <1>3. Busy(p)' = Busy(p)
    BY <1>1 DEF Busy
  <1>4. ASSUME Busy(p)
        PROVE  Left(x[p].clear_time)' = Left(x[p].clear_time) - 1
    <2>1. x[p].clear_time # timer
      BY <1>1, <1>4 DEF Rested, Busy
    <2> DEFINE t == x[p].clear_time
    <2>2. t' = t
      BY <1>1
    <2> QED BY <1>1, <1>2, <2>1, <2>2, LeftTicks DEF Left
  <1>5. Left(x[p].clear_time) \in Nat
    BY <1>2, LeftInRange DEF Times
  <1>6. FlameOK(p)'
    BY <1>2, <1>3, <1>4, <1>5 DEF FlameOK
  <1> QED BY <1>3, <1>4, <1>5, <1>6

LEMMA TickDue ==
    ASSUME TypeOK, NEW p \in Players, SpacedOK(p), FlameOK(p), DueOK(p), Tick
    PROVE  DueOK(p)'
  <1>1. /\ queue' = queue /\ x' = x /\ due' = due /\ Rested
        /\ timer' = (timer + 1) % TimerSpan
        /\ placed'[p] = IF placed[p] < LongAgo THEN placed[p] + 1 ELSE LongAgo
    BY DEF Tick
  <1>2. timer \in Times /\ x[p].clear_time \in Times /\ FlameTicks \in Nat
        /\ placed[p] \in Nat /\ LongAgo \in Nat /\ queue[p].count \in Nat
    <2>1. x[p].clear_time \in Times
      BY RegsAre, RegsOf DEF TypeOK
    <2>2. queue[p].count \in 0 .. FullAt
      BY DEF TypeOK, QueueRegs
    <2> QED BY <2>1, <2>2, Board, QueueAssumption, BombManagerAssumption
            DEF TypeOK, Times, SpacedOK, LongAgo
  <1>3. placed'[p] \in Nat /\ placed'[p] <= placed[p] + 1
    BY <1>1, <1>2
  <1>4. ASSUME NEW i \in 1 .. queue[p].count
        PROVE  LeftOfNth(p, i)' = LeftOfNth(p, i) - 1 /\ LeftOfNth(p, i) \in Nat
    <2>1. Nth(queue[p], i).time # timer
      BY <1>1, NoneIsDue
    <2>2. Nth(queue[p], i).time \in Times /\ LeftOfNth(p, i) \in Nat
      BY NthIsBomb DEF DueOK, Times
    <2>3. Left(Nth(queue[p], i).time)' = Left(Nth(queue[p], i).time) - 1
      <3> DEFINE t == Nth(queue[p], i).time
      <3>1. t' = t
        BY <1>1 DEF Nth
      <3> QED BY <1>1, <1>2, <2>1, <2>2, <3>1, LeftTicks DEF Left
    <2> QED BY <2>2, <2>3 DEF LeftOfNth
  <1>5. /\ Busy(p)' = Busy(p)
        /\ Busy(p) => /\ Left(x[p].clear_time)' = Left(x[p].clear_time) - 1
                      /\ Left(x[p].clear_time) \in Nat
    BY TickFlames
  <1>6. RingOK(queue[p], queue[p].count)'
    BY <1>1 DEF DueOK, RingOK
  <1>7. ASSUME NEW i \in 1 .. queue[p].count, NEW j \in i + 1 .. queue[p].count
        PROVE  LeftOfNth(p, i)' + FlameTicks < LeftOfNth(p, j)'
    <2>1. j \in 1 .. queue[p].count
      BY <1>2
    <2>2. LeftOfNth(p, i) + FlameTicks < LeftOfNth(p, j)
      BY DEF DueOK
    <2> QED BY <1>2, <1>4, <2>1, <2>2
  <1>8. ASSUME NEW i \in 1 .. queue[p].count, NEW d \in Delays, NEW c \in Cooldowns
        PROVE  LeftOfNth(p, i)' + placed'[p] + FlameTicks < d + c
    <2>1. LeftOfNth(p, i) + placed[p] + FlameTicks < d + c
      BY DEF DueOK
    <2>2. d + c \in Nat
      BY BombManagerAssumption, Board
    <2> QED BY <1>2, <1>3, <1>4, <2>1, <2>2
  <1>9. ASSUME NEW i \in 1 .. queue[p].count, Busy(p)
        PROVE  Left(x[p].clear_time)' < LeftOfNth(p, i)'
    <2>1. Left(x[p].clear_time) < LeftOfNth(p, i)
      BY <1>9 DEF DueOK
    <2> QED BY <1>4, <1>5, <1>9, <2>1
  <1>11. \A i \in 1 .. queue[p].count : due'[p] \in Cooldowns
    BY <1>1 DEF DueOK
  <1> QED BY <1>1, <1>5, <1>6, <1>7, <1>8, <1>9, <1>11 DEF DueOK

LEMMA DueInvariance == Steady => (Spec => []DueInv)
  <1> SUFFICES ASSUME Steady PROVE Spec => []DueInv
    OBVIOUS
  <1>1. Init /\ IInv => DueInv
    <2> SUFFICES ASSUME Init, NEW p \in Players
                 PROVE  DueOK(p) /\ FlameOK(p)
      BY DEF DueInv
    <2>1. queue[p].count = 0 /\ queue[p].readPtr = 0 /\ queue[p].writePtr = 0
          /\ x[p].phase = "START"
      BY DEF Init, PowerUp, ExplosionPowerUp
    <2>2. RingOK(queue[p], queue[p].count)
      BY <2>1, QueueAssumption DEF RingOK, Wrap
    <2> QED BY <2>1, <2>2 DEF DueOK, FlameOK, Busy
  <1>3. DueInv /\ [Next]_vars
          => \A p \in Players : FlameOK(p)' /\ (InSequence(p)' => DueOK(p)')
    <2> SUFFICES ASSUME IInv, \A q \in Players : FlameOK(q) /\ (InSequence(q) => DueOK(q)),
                        [Next]_vars, NEW p \in Players
                 PROVE  FlameOK(p)' /\ (InSequence(p)' => DueOK(p)')
      BY DEF DueInv
    <2>1. CASE Step \/ Reset
      <3>1. PICK reset \in BOOLEAN : AnyClock(reset)
        BY <2>1 DEF Step, Reset
      <3>2. PICK keys \in SUBSET {q \in Players : ~reset /\ Listens(q)},
                 b0 \in BombsOf(0), b1 \in BombsOf(1), c0 \in CooldownsOf(0),
                 c1 \in CooldownsOf(1) :
               Clock(reset, keys, [q \in Players |-> IF q = 0 THEN b0 ELSE b1],
                                  [q \in Players |-> IF q = 0 THEN c0 ELSE c1])
        BY <3>1 DEF AnyClock
      <3> DEFINE bombs == [q \in Players |-> IF q = 0 THEN b0 ELSE b1]
                 cooldowns == [q \in Players |-> IF q = 0 THEN c0 ELSE c1]
      <3>3. bombs[p] \in BombsOf(p) /\ cooldowns[p] \in CooldownsOf(p)
        BY <3>2, Board
      <3> HIDE DEF bombs, cooldowns
      <3>4. Clock(reset, keys, bombs, cooldowns)
        BY <3>2 DEF bombs, cooldowns
      <3>5. bombs[p] \in Items
        BY <3>3, BombsAreItems DEF IInv
      <3>6. Places(p) => /\ \E d \in Delays : bombs[p].time = (timer + d) % TimerSpan
                         /\ cooldowns[p] \in Cooldowns
        BY <3>3 DEF BombsOf, CooldownsOf
      <3> QED BY <3>4, <3>5, <3>6, ClockDue DEF IInv
    <2>2. CASE Tick
      <3>1. InSequence(p)' => InSequence(p)
        BY <2>2 DEF Tick, InSequence
      <3> QED BY <2>2, <3>1, TickDue, TickFlames DEF IInv
    <2>3. CASE UNCHANGED vars
      BY <2>3 DEF vars, RingOK, DueOK, FlameOK, InSequence, LeftOfNth, Left, Busy
    <2> QED BY <2>1, <2>2, <2>3 DEF Next
  <1>4. DueInv /\ IInv' /\ [Next]_vars => DueInv'
    BY <1>3 DEF DueInv
  <1> QED BY <1>1, <1>4, Invariance, PTL DEF Spec

(* When the work of a tick is done, none of the bombs of a player was due  *)
(* in it, as long as, since Reset, none of his placements met a take or    *)
(* went beyond the ring: for every ring, timer and map, if the delays      *)
(* differ by less than a cooldown exceeds the life of the flames.  The     *)
(* runs BombManager_delays and BombManager_meet show a bomb that misses    *)
(* its tick when they do not, and when a placement has met a take          *)
(* (BombManager.sv, queue.sv, explosion.sv, buff.sv).                      *)
THEOREM BombsExplodeWhenDue == ASSUME Steady PROVE Spec => []DueBombsExplode
  <1>1. DueInv => DueBombsExplode
    <2> SUFFICES ASSUME DueInv, Quiet, NEW p \in Players, InSequence(p), NEW i \in Stored(p)
                 PROVE  Bomb(p, i).time # timer
      BY DEF DueBombsExplode, InSequence
    <2>1. queue[p].count + behind[p] = queue[p].count
      <3>1. queue[p].count \in 0 .. FullAt /\ behind[p] = 0
        BY DEF InSequence, DueInv, IInv, TypeOK, QueueRegs
      <3> QED BY <3>1, QueueAssumption
    <2>2. i \in 1 .. queue[p].count /\ Bomb(p, i) = Nth(queue[p], i)
      BY <2>1 DEF Stored, Bomb, Nth
    <2> QED BY <2>2, NoneIsDue DEF DueInv, IInv, Quiet
  <1> QED BY <1>1, DueInvariance, PTL

-----------------------------------------------------------------------------
(***************************************************************************)
(* The bombs on the map.  A cell that holds one is the cell of a bomb in a *)
(* ring, or of a fire whose write has not come through, or about to be    *)
(* swept.                                                                  *)
(***************************************************************************)
NoBombsYet == \A a \in Addrs : InitialMap[a] # bomb

Size(p) == queue[p].count + behind[p]

Waits(a) == \E q \in Players : \E i \in 1 .. Size(q) : Nth(queue[q], i).at = a

Burns(a) == \E q \in Players :
                \/ x[q].phase \in {"ARM", "REPLACE", "MID"} /\ x[q].coords = a
                \/ x[q].WE_O /\ x[q].Address = a

(* A request that waits after the k-th one takes the bomb from the map.    *)
Erased(a, k) == \E j \in k + 1 .. Len(log.pending) :
                    log.pending[j].addr = a /\ log.pending[j].data # bomb

Pends(a, k) == Waits(a) \/ Burns(a) \/ Erased(a, k)

MapMarks == \A a \in Addrs : map[a] = bomb => Pends(a, 0)

LogMarks == \A k \in 1 .. Len(log.pending) :
                log.pending[k].data = bomb => Pends(log.pending[k].addr, k)

MarkOK == IF log.sweeping
          THEN log.pending = << >> /\ \A a \in Addrs : a < log.at => map[a] # bomb
          ELSE (\A p \in Players : ~overrun[p]) => MapMarks /\ LogMarks

RingKept(p) == ~overrun[p] => RingOK(queue[p], Size(p))

FireOK(p) == /\ x[p].Data_O # bomb
             /\ x[p].phase = "MID" => x[p].Address = x[p].coords

MarkInv == /\ IInv /\ MarkOK
           /\ \A p \in Players : RingKept(p) /\ FireOK(p)

(* A fire goes round its arms and then, whatever it met there, writes its  *)
(* centre; no fire ever writes a bomb.                                     *)
LEMMA FireSteps ==
    ASSUME NEW y \in ExplosionRegs, NEW p \in Players, NEW in \in Inputs
    PROVE  LET n == ExplosionNext(y, p, in)
           IN  /\ n.Data_O # bomb
               /\ n.phase = "MID" => n.Address = n.coords
               /\ y.phase = "START" /\ in.ready =>
                     n.phase = "ARM" /\ n.coords = in.coordinate
               /\ y.phase \in {"ARM", "REPLACE"} =>
                     n.phase \in {"ARM", "REPLACE", "MID"} /\ n.coords = y.coords
               /\ y.phase = "MID" => n.WE_O /\ n.Address = y.Address
  <1> DEFINE z == Idle(y, p)
  <1>1. y \in Regs /\ z \in Regs
    BY RegsAre, IdleStays
  <1>2. z.phase = y.phase /\ z.coords = y.coords /\ z.Address = y.coords
        /\ z.Data_O = flame(p)
    BY ONLY <1>1 DEF Regs, Idle, z
  <1> HIDE DEF z
  <1>3. flame(p) # bomb /\ Remains(p, in) # bomb
    BY DEF flame, bomb, Remains, item, path, Players
  <1>4. CASE y.phase = "START"
    <2>1. ExplosionNext(y, p, in) = StartNext(y, p, in)
      BY <1>4 DEF ExplosionNext
    <2>2. CASE in.ready
      <3>1. StartNext(y, p, in)
              = [z EXCEPT !.phase = "ARM", !.count = FirstCount(in.length),
                          !.coords = in.coordinate,
                          !.Address = in.coordinate, !.length = in.length,
                          !.clear_time = ClearTime(in.timer)]
        BY <2>2 DEF StartNext, z
      <3>2. /\ StartNext(y, p, in).phase = "ARM"
            /\ StartNext(y, p, in).coords = in.coordinate
            /\ StartNext(y, p, in).Data_O = z.Data_O
        BY ONLY <1>1, <3>1 DEF Regs
      <3> QED BY <1>2, <1>3, <1>4, <2>1, <2>2, <3>2
    <2>3. CASE ~in.ready
      <3>1. StartNext(y, p, in) = z
        BY <2>3 DEF StartNext, z
      <3> QED BY <1>2, <1>3, <1>4, <2>1, <2>3, <3>1
    <2> QED BY <2>2, <2>3
  <1>5. ASSUME NEW look \in Phases \ {"MID"}, NEW centre \in Phases, y.phase \in Phases
        PROVE  LET n == ArmNext(y, p, look, centre)
               IN  /\ n.Data_O = flame(p) /\ n.coords = y.coords
                   /\ n.phase \in {y.phase, look, centre}
                   /\ y.phase # "MID" /\ n.phase = "MID" => n.Address = n.coords
    <2> DEFINE n == ArmNext(y, p, look, centre)
    <2>1. CASE ~ArmEnded(y)
      <3>1. n = [z EXCEPT !.phase = look, !.arm = y.arm, !.count = y.count + 1,
                          !.Address = Toward(y.arm, y.Address)]
        BY <2>1 DEF ArmNext, z
      <3> HIDE DEF n
      <3>2. n.phase = look /\ n.Data_O = z.Data_O /\ n.coords = z.coords
        BY ONLY <1>1, <3>1 DEF Regs
      <3> QED BY <1>2, <3>2 DEF n
    <2>2. CASE ArmEnded(y) /\ y.arm < 4
      <3>1. n = [z EXCEPT !.arm = y.arm + 1, !.count = FirstCount(y.length)]
        BY <2>2 DEF ArmNext, z
      <3> HIDE DEF n
      <3>2. n.phase = z.phase /\ n.Data_O = z.Data_O /\ n.coords = z.coords
        BY ONLY <1>1, <3>1 DEF Regs
      <3> QED BY <1>2, <3>2 DEF n
    <2>3. CASE ArmEnded(y) /\ ~(y.arm < 4)
      <3>1. n = [z EXCEPT !.phase = centre, !.count = FirstCount(y.length)]
        BY <2>3 DEF ArmNext, z
      <3> HIDE DEF n
      <3>2. n.phase = centre /\ n.Data_O = z.Data_O /\ n.coords = z.coords
            /\ n.Address = z.Address
        BY ONLY <1>1, <3>1 DEF Regs
      <3> QED BY <1>2, <3>2 DEF n
    <2> QED BY <2>1, <2>2, <2>3
  <1>6. CASE y.phase = "ARM"
    <2>1. ExplosionNext(y, p, in) = ArmNext(y, p, "REPLACE", "MID")
      BY <1>6 DEF ExplosionNext
    <2>2. "REPLACE" \in Phases \ {"MID"} /\ "MID" \in Phases /\ y.phase \in Phases
      BY <1>6 DEF Phases
    <2> QED BY <1>3, <1>5, <1>6, <2>1, <2>2
  <1>7. CASE y.phase = "C_ARM"
    <2>1. ExplosionNext(y, p, in) = ArmNext(y, p, "CLEAR", "C_MID")
      BY <1>7 DEF ExplosionNext
    <2>2. "CLEAR" \in Phases \ {"MID"} /\ "C_MID" \in Phases /\ y.phase \in Phases
      BY <1>7 DEF Phases
    <2> QED BY <1>3, <1>5, <1>7, <2>1, <2>2
  <1>8. CASE y.phase = "REPLACE"
    <2> DEFINE n == ReplaceNext(y, p, in)
    <2>1. ExplosionNext(y, p, in) = n
      BY <1>8 DEF ExplosionNext
    <2>2. n.phase = "ARM" /\ n.Data_O = z.Data_O /\ n.coords = z.coords
      BY <1>1 DEF ReplaceNext, Regs, z
    <2> HIDE DEF n
    <2> QED BY <1>2, <1>3, <1>8, <2>1, <2>2
  <1>9. CASE y.phase = "MID"
    <2> DEFINE n == MidNext(y, p)
    <2>1. ExplosionNext(y, p, in) = n
      BY <1>9 DEF ExplosionNext
    <2>2. n.phase = "WAIT" /\ n.Data_O = z.Data_O /\ n.WE_O /\ n.Address = y.Address
      BY <1>1 DEF MidNext, Regs, z
    <2> HIDE DEF n
    <2> QED BY <1>2, <1>3, <1>9, <2>1, <2>2
  <1>10. CASE y.phase = "WAIT"
    <2> DEFINE n == WaitNext(y, p, in)
    <2>1. ExplosionNext(y, p, in) = n
      BY <1>10 DEF ExplosionNext
    <2>2. n.phase \in {"WAIT", "C_ARM"} /\ n.Data_O = z.Data_O
      BY <1>1, <1>2, <1>10 DEF WaitNext, Regs, z
    <2> HIDE DEF n
    <2> QED BY <1>2, <1>3, <1>10, <2>1, <2>2
  <1>11. CASE y.phase = "CLEAR"
    <2> DEFINE n == ClearNext(y, p, in)
    <2>1. ExplosionNext(y, p, in) = n
      BY <1>11 DEF ExplosionNext
    <2>2. n.phase = "C_ARM" /\ n.Data_O \in {z.Data_O, Remains(p, in)}
      BY <1>1 DEF ClearNext, Regs, z
    <2> HIDE DEF n
    <2> QED BY <1>2, <1>3, <1>11, <2>1, <2>2
  <1>12. CASE y.phase = "C_MID"
    <2> DEFINE n == ClearMidNext(y, p, in)
    <2>1. ExplosionNext(y, p, in) = n
      BY <1>12 DEF ExplosionNext
    <2>2. n.phase = "START" /\ n.Data_O = Remains(p, in)
      BY <1>1 DEF ClearMidNext, Regs, z
    <2> HIDE DEF n
    <2> QED BY <1>2, <1>3, <1>12, <2>1, <2>2
  <1>13. y.phase \in Phases
    BY <1>1, RegsOf
  <1> QED BY <1>4, <1>6, <1>7, <1>8, <1>9, <1>10, <1>11, <1>12, <1>13 DEF Phases

(* What a clock edge does to the bombs of a ring: the first is taken by    *)
(* the explosion, the others stay, and one that is placed comes in, also   *)
(* when both happen in one cycle.                                          *)
LEMMA ClockRing ==
    ASSUME TypeOK, NEW p \in Players, RingKept(p),
           NEW reset \in BOOLEAN, NEW keys, NEW bombs, NEW cooldowns,
           bombs[p] \in Items, Clock(reset, keys, bombs, cooldowns)
    PROVE  /\ RingKept(p)'
           /\ ~reset /\ ~overrun'[p] =>
                 /\ ~overrun[p]
                 /\ \A i \in 1 .. Size(p) :
                       \/ Takes(p) /\ i = 1
                       \/ \E j \in 1 .. Size(p)' : Nth(queue'[p], j) = Nth(queue[p], i)
                 /\ Places(p) => \E j \in 1 .. Size(p)' : Nth(queue'[p], j) = bombs[p]
  <1> DEFINE r == queue[p]
             n == queue'[p]
             b == behind[p]
             c == behind'[p]
             k == r.count + b
  <1>1. /\ n = QueueNext(r, reset, Places(p), bombs[p], Takes(p))
        /\ r \in QueueRegs /\ bombs[p] \in Items
        /\ Places(p) \in BOOLEAN /\ Takes(p) \in BOOLEAN /\ reset \in BOOLEAN
    BY DEF Clock, TypeOK, Places, Takes
  <1>2. r.count \in Nat /\ b \in Nat /\ k \in Nat /\ Words \in Nat
    <2>1. r.count \in 0 .. FullAt /\ b \in Nat
      BY <1>1 DEF QueueRegs, TypeOK
    <2> QED BY <2>1, QueueAssumption
  <1>3. Takes(p) => ~Empty(r) /\ r.count > 0 /\ k > 0
    <2>1. Takes(p) => ~Empty(r) /\ r.count # 0
      BY DEF Takes, Trigger, Empty
    <2> QED BY <1>2, <2>1
  <1>4. /\ reset => c = 0
        /\ ~reset /\ ~overrun'[p] =>
              /\ ~overrun[p] /\ ~Overruns(p)
              /\ c = IF Places(p) /\ Takes(p) THEN b + 1 ELSE b
    <2>1. RingHistory(reset) /\ overrun[p] \in BOOLEAN
      BY DEF Clock, TypeOK
    <2> QED BY <2>1 DEF RingHistory, Meets
  <1>5. ~Overruns(p) /\ Places(p) => ~Full(r) /\ (Takes(p) \/ k < Words)
    BY <1>2 DEF Overruns
  <1>6. Size(p) = k /\ Size(p)' = n.count + c
    BY DEF Size
  <1> HIDE DEF r, n, b, c, k
  <1>7. CASE reset
    <2>1. RingOK(n, 0) /\ n.count = 0
      BY ONLY <1>1, <1>7, Emptying
    <2>2. Size(p)' = 0
      BY <1>4, <1>6, <1>7, <2>1
    <2> QED BY <1>7, <2>1, <2>2 DEF RingKept, n
  <1>8. CASE ~reset /\ overrun'[p]
    BY <1>8 DEF RingKept
  <1>9. CASE ~reset /\ ~overrun'[p]
    <2>1. RingOK(r, k) /\ c = (IF Places(p) /\ Takes(p) THEN b + 1 ELSE b)
      BY <1>4, <1>6, <1>9 DEF RingKept, r
    <2>2. Places(p) => ~Full(r) /\ (Takes(p) \/ k < Words)
      BY <1>4, <1>5, <1>9
    <2>3. reset = FALSE
      BY <1>1, <1>9
    <2> DEFINE z == Size(p)'
    <2>4. /\ RingOK(n, z)
          /\ \A i \in 1 .. k :
                \/ Takes(p) /\ i = 1
                \/ \E j \in 1 .. z : Nth(n, j) = Nth(r, i)
          /\ Places(p) => \E j \in 1 .. z : Nth(n, j) = bombs[p]
      <3>1. z = n.count + c
        BY <1>6
      <3> HIDE DEF z
      <3>2. CASE Takes(p) /\ ~Places(p)
        <4>1. Places(p) = FALSE /\ Takes(p) = TRUE
          BY ONLY <1>1, <3>2
        <4>2. n = QueueNext(r, FALSE, FALSE, bombs[p], TRUE)
          BY ONLY <1>1, <2>3, <4>1
        <4>3. Shorter(r, n, k)
          BY ONLY <1>1, <1>2, <1>3, <2>1, <3>2, <4>2, Taking
        <4>4. RingOK(n, k - 1) /\ n.count = r.count - 1
              /\ \A i \in 1 .. k - 1 : Nth(n, i) = Nth(r, i + 1)
          BY ONLY <4>3 DEF Shorter
        <4>5. z = k - 1
          BY <1>2, <2>1, <3>1, <3>2, <4>4 DEF k
        <4>6. ASSUME NEW i \in 1 .. k, i # 1
              PROVE  \E j \in 1 .. z : Nth(n, j) = Nth(r, i)
          <5>1. i - 1 \in 1 .. z /\ i - 1 \in 1 .. k - 1 /\ (i - 1) + 1 = i
            BY ONLY <1>2, <4>5, <4>6
          <5>2. Nth(n, i - 1) = Nth(r, i)
            BY <4>4, <5>1
          <5> QED BY <5>1, <5>2
        <4> QED BY <3>2, <4>4, <4>5, <4>6
      <3>3. CASE ~Takes(p) /\ Places(p)
        <4>1. Places(p) = TRUE /\ Takes(p) = FALSE
          BY ONLY <1>1, <3>3
        <4>2. n = QueueNext(r, FALSE, TRUE, bombs[p], FALSE)
          BY ONLY <1>1, <2>3, <4>1
        <4>3. Longer(r, n, k, bombs[p])
          BY ONLY <1>1, <1>2, <2>1, <2>2, <3>3, <4>2, Putting
        <4>4. RingOK(n, k + 1) /\ n.count = r.count + 1
              /\ (\A i \in 1 .. k : Nth(n, i) = Nth(r, i)) /\ Nth(n, k + 1) = bombs[p]
          BY ONLY <4>3 DEF Longer
        <4>5. z = k + 1
          BY <1>2, <2>1, <3>1, <3>3, <4>4 DEF k
        <4>6. ASSUME NEW i \in 1 .. k
              PROVE  \E j \in 1 .. z : Nth(n, j) = Nth(r, i)
          <5>1. i \in 1 .. z
            BY ONLY <1>2, <4>5, <4>6
          <5> QED BY <4>4, <5>1
        <4>7. k + 1 \in 1 .. z
          BY ONLY <1>2, <4>5
        <4> QED BY <4>4, <4>5, <4>6, <4>7
      <3>4. CASE Takes(p) /\ Places(p)
        <4>1. Places(p) = TRUE /\ Takes(p) = TRUE
          BY ONLY <1>1, <3>4
        <4>2. n = QueueNext(r, FALSE, TRUE, bombs[p], TRUE)
          BY ONLY <1>1, <2>3, <4>1
        <4>3. Turned(r, n, k, bombs[p])
          BY ONLY <1>1, <1>2, <1>3, <2>1, <2>2, <3>4, <4>2, Turning
        <4>4. RingOK(n, k) /\ n.count = r.count - 1
              /\ (\A i \in 1 .. k - 1 : Nth(n, i) = Nth(r, i + 1)) /\ Nth(n, k) = bombs[p]
          BY ONLY <4>3 DEF Turned
        <4>5. z = k
          BY <1>2, <2>1, <3>1, <3>4, <4>4 DEF k
        <4>6. ASSUME NEW i \in 1 .. k, i # 1
              PROVE  \E j \in 1 .. z : Nth(n, j) = Nth(r, i)
          <5>1. i - 1 \in 1 .. z /\ i - 1 \in 1 .. k - 1 /\ (i - 1) + 1 = i
            BY ONLY <1>2, <4>5, <4>6
          <5>2. Nth(n, i - 1) = Nth(r, i)
            BY <4>4, <5>1
          <5> QED BY <5>1, <5>2
        <4>7. k \in 1 .. z
          BY ONLY <1>2, <1>3, <3>4, <4>5
        <4> QED BY <3>4, <4>4, <4>5, <4>6, <4>7
      <3>5. CASE ~Takes(p) /\ ~Places(p)
        <4>1. RingOK(n, k) /\ n.count = r.count /\ \A i : Nth(n, i) = Nth(r, i)
          BY ONLY <1>1, <1>9, <2>1, <3>5, Staying
        <4>2. z = k
          BY <1>2, <2>1, <3>1, <3>5, <4>1 DEF k
        <4> QED BY <3>5, <4>1, <4>2
      <3> QED BY <1>1, <3>2, <3>3, <3>4, <3>5
    <2>5. RingKept(p)'
      BY <2>4 DEF RingKept, n
    <2>6. /\ \A i \in 1 .. Size(p) :
                \/ Takes(p) /\ i = 1
                \/ \E j \in 1 .. Size(p)' : Nth(queue'[p], j) = Nth(queue[p], i)
          /\ Places(p) => \E j \in 1 .. Size(p)' : Nth(queue'[p], j) = bombs[p]
      BY <1>6, <2>4 DEF n, r
    <2> QED BY <1>4, <1>9, <2>5, <2>6
  <1> QED BY <1>7, <1>8, <1>9

LEMMA ClockFire ==
    ASSUME TypeOK, NEW p \in Players,
           NEW reset, NEW keys, NEW bombs, NEW cooldowns,
           Clock(reset, keys, bombs, cooldowns)
    PROVE  /\ FireOK(p)'
           /\ Takes(p) => x'[p].phase = "ARM" /\ x'[p].coords = Nth(queue[p], 1).at
           /\ x[p].phase \in {"ARM", "REPLACE"} =>
                 x'[p].phase \in {"ARM", "REPLACE", "MID"} /\ x'[p].coords = x[p].coords
           /\ x[p].phase = "MID" => x'[p].WE_O /\ x'[p].Address = x[p].Address
  <1>1. /\ x[p] \in ExplosionRegs /\ x'[p] = ExplosionNext(x[p], p, Input(p))
        /\ Input(p) \in Inputs /\ (Input(p).ready <=> Trigger(p))
        /\ Input(p).coordinate = Nth(queue[p], 1).at
    BY InputOK, OutIsFirst DEF Clock, TypeOK, Input
  <1>2. Takes(p) => x[p].phase = "START" /\ Input(p).ready
    BY <1>1 DEF Takes
  <1> QED BY <1>1, <1>2, FireSteps DEF FireOK

(* The bomb of a cell is not forgotten: what waits or burns there still    *)
(* does, or its request to write the cell has come in.                     *)
LEMMA StillPends ==
    ASSUME TypeOK, \A p \in Players : RingKept(p) /\ FireOK(p) /\ ~overrun'[p],
           NEW reset \in BOOLEAN, ~reset, ~log.sweeping,
           NEW keys, NEW bombs, NEW cooldowns,
           \A p \in Players : bombs[p] \in Items,
           Clock(reset, keys, bombs, cooldowns),
           Moved(log.pending, log'.pending, Writing, Asked(bombs)),
           NEW a, Waits(a) \/ Burns(a),
           NEW k \in 0 .. StillWaiting(log.pending)
    PROVE  Pends(a, k)'
  <1>1. CASE Waits(a)
    <2>1. PICK p \in Players : \E i \in 1 .. Size(p) : Nth(queue[p], i).at = a
      BY <1>1 DEF Waits
    <2>2. PICK i \in 1 .. Size(p) : Nth(queue[p], i).at = a
      BY <2>1
    <2>3. \/ Takes(p) /\ i = 1
          \/ \E j \in 1 .. Size(p)' : Nth(queue'[p], j) = Nth(queue[p], i)
      BY ClockRing
    <2>4. CASE Takes(p) /\ i = 1
      <3>1. x'[p].phase = "ARM" /\ x'[p].coords = a
        BY <2>2, <2>4, ClockFire
      <3> QED BY <3>1 DEF Pends, Burns
    <2>5. CASE \E j \in 1 .. Size(p)' : Nth(queue'[p], j) = Nth(queue[p], i)
      <3>1. PICK j \in 1 .. Size(p)' : Nth(queue'[p], j).at = a
        BY <2>2, <2>5
      <3>2. Waits(a)'
        BY <3>1 DEF Waits, Nth
      <3> QED BY <3>2 DEF Pends
    <2> QED BY <2>3, <2>4, <2>5
  <1>2. CASE Burns(a)
    <2>1. PICK p \in Players : \/ x[p].phase \in {"ARM", "REPLACE", "MID"} /\ x[p].coords = a
                               \/ x[p].WE_O /\ x[p].Address = a
      BY <1>2 DEF Burns
    <2>2. CASE x[p].phase \in {"ARM", "REPLACE"} /\ x[p].coords = a
      <3>1. x'[p].phase \in {"ARM", "REPLACE", "MID"} /\ x'[p].coords = a
        BY <2>2, ClockFire
      <3> QED BY <3>1 DEF Pends, Burns
    <2>3. CASE x[p].phase = "MID" /\ x[p].coords = a
      <3>1. x'[p].WE_O /\ x'[p].Address = a
        BY <2>3, ClockFire DEF FireOK
      <3> QED BY <3>1 DEF Pends, Burns
    <2>4. CASE x[p].WE_O /\ x[p].Address = a
      <3> DEFINE m == StillWaiting(log.pending)
                 t == log'.pending
      <3>1. p \in Writing /\ p \in Ports
        BY <2>4, Board DEF Writing
      <3>2. Asked(bombs)[p].addr = a /\ Asked(bombs)[p].data # bomb
        <4>1. Asked(bombs)[p] = [addr |-> x[p].Address, data |-> x[p].Data_O]
          BY <3>1 DEF Asked
        <4> QED BY <2>4, <4>1 DEF FireOK
      <3>3. PICK j \in m + 1 .. Len(t) : t[j] = Asked(bombs)[p]
        BY <3>1 DEF Moved
      <3>4. m \in Nat /\ Len(t) \in Nat
        BY DEF Moved
      <3>5. j \in k + 1 .. Len(t)
        BY <3>4
      <3>6. Erased(a, k)'
        BY <3>2, <3>3, <3>5 DEF Erased
      <3> QED BY <3>6 DEF Pends
    <2> QED BY <2>1, <2>2, <2>3, <2>4
  <1> QED BY <1>1, <1>2

(* A clock edge on which the editor runs.                                  *)
LEMMA ClockMarks ==
    ASSUME TypeOK, \A p \in Players : RingKept(p) /\ FireOK(p) /\ ~overrun'[p],
           MarkOK, NEW reset \in BOOLEAN, ~reset, ~log.sweeping,
           NEW keys, NEW bombs, NEW cooldowns,
           \A p \in Players : bombs[p] \in Items,
           Clock(reset, keys, bombs, cooldowns),
           ~log'.sweeping, Moved(log.pending, log'.pending, Writing, Asked(bombs))
    PROVE  MarkOK'
  <1> DEFINE s == log.pending
             t == log'.pending
             m == StillWaiting(s)
  <1>1. /\ s \in Seq(Requests) /\ log \in LogStates
        /\ m \in Nat /\ Len(t) \in Nat /\ m <= Len(t)
        /\ \A k \in 1 .. m : t[k] = s[k + 1]
        /\ m = IF s = << >> THEN 0 ELSE Len(s) - 1
    BY DEF TypeOK, LogStates, Moved, StillWaiting
  <1>2. Len(s) \in Nat /\ (s = << >> <=> Len(s) = 0)
    BY <1>1
  <1>3. ASSUME NEW a, NEW k \in 1 .. Len(s), Pends(a, k)
        PROVE  Pends(a, k - 1)' /\ k - 1 \in 0 .. m
    <2>1. k - 1 \in 0 .. m
      BY <1>1, <1>2
    <2>2. CASE Waits(a) \/ Burns(a)
      BY <2>1, <2>2, StillPends
    <2>3. CASE Erased(a, k)
      <3>1. PICK j \in k + 1 .. Len(s) : s[j].addr = a /\ s[j].data # bomb
        BY <2>3 DEF Erased
      <3>2. j - 1 \in 1 .. m /\ (j - 1) + 1 = j /\ j - 1 \in (k - 1) + 1 .. Len(t)
        BY <1>1, <1>2, <3>1
      <3>3. t[j - 1] = s[j]
        BY <1>1, <3>2
      <3>4. Erased(a, k - 1)'
        BY <3>1, <3>2, <3>3 DEF Erased
      <3> QED BY <2>1, <3>4 DEF Pends
    <2> QED BY <1>3, <2>2, <2>3 DEF Pends
  <1>4. MapMarks /\ LogMarks
    <2>1. \A p \in Players : ~overrun[p]
      BY ClockRing
    <2> QED BY <2>1 DEF MarkOK
  <1>5. ASSUME NEW a \in Addrs, map'[a] = bomb
        PROVE  Pends(a, 0)'
    <2>1. map'[a] = IF s # << >> /\ s[1].addr = a THEN s[1].data ELSE map[a]
      BY <1>1, CellNext DEF Clock
    <2>2. CASE s # << >> /\ s[1].addr = a
      <3>1. 1 \in 1 .. Len(s) /\ s[1].data = bomb /\ 1 - 1 = 0
        BY <1>2, <1>5, <2>1, <2>2
      <3>2. Pends(a, 1)
        BY <1>4, <2>2, <3>1 DEF LogMarks
      <3>3. Pends(a, 1 - 1)'
        BY <1>3, <3>1, <3>2
      <3> QED BY <3>1, <3>3
    <2>3. CASE ~(s # << >> /\ s[1].addr = a)
      <3>1. Pends(a, 0)
        BY <1>4, <1>5, <2>1, <2>3 DEF MapMarks
      <3>2. CASE Waits(a) \/ Burns(a)
        <4>1. 0 \in 0 .. m
          BY <1>1
        <4> QED BY <3>2, <4>1, StillPends
      <3>3. CASE Erased(a, 0)
        <4>1. PICK j \in 0 + 1 .. Len(s) : s[j].addr = a /\ s[j].data # bomb
          BY <3>3 DEF Erased
        <4>2. j # 1 /\ s # << >>
          BY <1>2, <2>3, <4>1
        <4>3. j \in 1 + 1 .. Len(s) /\ 1 \in 1 .. Len(s) /\ 1 - 1 = 0
          BY <1>2, <4>1, <4>2
        <4>4. Pends(a, 1)
          BY <4>1, <4>3 DEF Pends, Erased
        <4>5. Pends(a, 1 - 1)'
          BY <1>3, <4>3, <4>4
        <4> QED BY <4>3, <4>5
      <3> QED BY <3>1, <3>2, <3>3 DEF Pends
    <2> QED BY <2>2, <2>3
  <1>6. ASSUME NEW k \in 1 .. Len(t), t[k].data = bomb, NEW a, a = t[k].addr
        PROVE  Pends(a, k)'
    <2>1. CASE k \in 1 .. m
      <3>1. k + 1 \in 1 .. Len(s) /\ (k + 1) - 1 = k /\ t[k] = s[k + 1]
        BY <1>1, <1>2, <2>1
      <3>2. Pends(s[k + 1].addr, k + 1)
        BY <1>4, <1>6, <3>1 DEF LogMarks
      <3>3. Pends(a, k + 1)
        BY <1>6, <3>1, <3>2
      <3>4. Pends(a, (k + 1) - 1)'
        BY <1>3, <3>1, <3>3
      <3> QED BY <3>1, <3>4
    <2>2. CASE k \notin 1 .. m
      <3>1. k \in m + 1 .. Len(t)
        BY <1>1, <2>2
      <3>2. PICK port \in Writing : t[k] = Asked(bombs)[port]
        BY <3>1 DEF Moved
      <3>3. port \in Ports /\ port \in {0, 1, 2, 3}
        BY Board DEF Writing
      <3>4. port \notin Players
        <4>1. ASSUME port \in Players PROVE FALSE
          <5>1. Asked(bombs)[port] = [addr |-> x[port].Address, data |-> x[port].Data_O]
            BY <3>3, <4>1 DEF Asked
          <5>2. t[k].data # bomb
            BY <3>2, <4>1, <5>1 DEF FireOK
          <5> QED BY <1>6, <5>2
        <4> QED BY <4>1
      <3>5. PICK p \in Players : port - 2 = p
        BY <3>3, <3>4, Board
      <3>6. Places(p)
        BY <3>2, <3>3, <3>4, <3>5, Board DEF Writing
      <3>7. a = bombs[p].at
        <4>1. Asked(bombs)[port] = [addr |-> bombs[port - 2].at, data |-> bomb]
          BY <3>3, <3>4 DEF Asked
        <4> QED BY <1>6, <3>2, <3>5, <4>1
      <3>8. PICK j \in 1 .. Size(p)' : Nth(queue'[p], j) = bombs[p]
        BY <3>6, ClockRing
      <3>9. Waits(a)'
        BY <3>7, <3>8 DEF Waits, Nth
      <3> QED BY <3>9 DEF Pends
    <2> QED BY <2>1, <2>2
  <1>7. MapMarks'
    BY <1>5 DEF MapMarks
  <1>8. LogMarks'
    BY <1>6 DEF LogMarks, Pends, Waits, Burns, Erased
  <1> QED BY <1>7, <1>8 DEF MarkOK

(* Reset leaves the map as it is and starts the sweep; the sweep leaves no *)
(* bomb behind it.                                                         *)
LEMMA SweepMarks ==
    ASSUME NoBombsYet, TypeOK, MarkOK, NEW reset \in BOOLEAN, reset \/ log.sweeping,
           NEW keys, NEW bombs, NEW cooldowns,
           Clock(reset, keys, bombs, cooldowns)
    PROVE  MarkOK'
  <1>1. /\ log' = LogNext(log, reset, Writing, Asked(bombs)) /\ log \in LogStates
        /\ map' = MapNext(map, LogWrites(log)) /\ SweepLast \in Nat
        /\ log.at \in 0 .. SweepLast /\ LastAddr \in Nat /\ LastAddr <= SweepLast
    BY EditorAssumption DEF Clock, TypeOK, LogStates
  <1>2. CASE reset
    <2>1. log' = [sweeping |-> TRUE, at |-> 0, pending |-> << >>]
      BY <1>1, <1>2 DEF LogNext
    <2>2. log'.sweeping /\ log'.at = 0 /\ log'.pending = << >>
      BY <2>1
    <2>3. \A a \in Addrs : ~(a < 0)
      BY <1>1 DEF Addrs
    <2> QED BY <2>2, <2>3 DEF MarkOK
  <1>3. CASE ~reset
    <2>1. log.sweeping /\ log.pending = << >> /\ \A a \in Addrs : a < log.at => map[a] # bomb
      BY <1>3 DEF MarkOK
    <2>2. ASSUME NEW a \in Addrs
          PROVE  map'[a] = IF a = log.at THEN InitialMap[a] ELSE map[a]
      <3>1. log \in LogStates /\ log.sweeping
        BY <1>1, <2>1
      <3>2. /\ a = log.at => MapNext(map, LogWrites(log))[a] = InitialMap[a]
            /\ a # log.at => MapNext(map, LogWrites(log))[a] = map[a]
        BY ONLY <2>2, <3>1, CellSwept
      <3> QED BY ONLY <1>1, <3>2
    <2>3. ASSUME NEW a \in Addrs, a <= log.at
          PROVE  map'[a] # bomb
      <3>1. a < log.at \/ a = log.at
        BY <1>1, <2>3 DEF Addrs
      <3> QED BY <2>1, <2>2, <3>1 DEF NoBombsYet
    <2>4. CASE log.at = SweepLast
      <3>1. log' = EmptyLog
        BY <1>1, <1>3, <2>1, <2>4 DEF LogNext
      <3>2. ~log'.sweeping /\ log'.pending = << >>
        BY <3>1 DEF EmptyLog
      <3>3. \A a \in Addrs : a <= log.at
        BY <1>1, <2>4 DEF Addrs
      <3>4. MapMarks'
        BY <2>3, <3>3 DEF MapMarks
      <3>5. LogMarks'
        BY <3>2 DEF LogMarks
      <3> QED BY <3>2, <3>4, <3>5 DEF MarkOK
    <2>5. CASE log.at # SweepLast
      <3>1. log' = [log EXCEPT !.at = log.at + 1]
        BY <1>1, <1>3, <2>1, <2>5 DEF LogNext
      <3>2. log'.sweeping /\ log'.pending = << >> /\ log'.at = log.at + 1
        BY <1>1, <2>1, <3>1 DEF LogStates
      <3>3. \A a \in Addrs : a < log.at + 1 => a <= log.at
        BY <1>1 DEF Addrs
      <3> QED BY <2>3, <3>2, <3>3 DEF MarkOK
    <2> QED BY <2>4, <2>5
  <1> QED BY <1>2, <1>3

LEMMA AskedAreRequests ==
    ASSUME TypeOK, NEW bombs, \A p \in Players : bombs[p] \in Items
    PROVE  Writing \in SUBSET Ports /\ \A port \in Writing : Asked(bombs)[port] \in Requests
  <1>1. Writing \in SUBSET Ports
    BY Board DEF Writing
  <1>2. ASSUME NEW port \in Writing PROVE Asked(bombs)[port] \in Requests
    <2>1. port \in {0, 1, 2, 3} /\ port \in Ports
      BY <1>1, <1>2, Board
    <2>2. CASE port \in Players
      <3>1. x[port].Address \in Addrs /\ x[port].Data_O \in Data
        BY <2>2, Board, RegsAre, RegsOf DEF TypeOK
      <3>2. Asked(bombs)[port] = [addr |-> x[port].Address, data |-> x[port].Data_O]
        BY <2>1, <2>2 DEF Asked
      <3> QED BY <3>1, <3>2 DEF Requests
    <2>3. CASE port \notin Players
      <3>1. port - 2 \in Players
        BY <2>1, <2>3, Board
      <3>2. bombs[port - 2].at \in Addrs /\ bomb \in Data
        BY <3>1, Board DEF Identifiers
      <3>3. Asked(bombs)[port] = [addr |-> bombs[port - 2].at, data |-> bomb]
        BY <2>1, <2>3 DEF Asked
      <3> QED BY <3>2, <3>3 DEF Requests
    <2> QED BY <2>2, <2>3
  <1> QED BY <1>1, <1>2

LEMMA MarkInvariance == NoBombsYet => (Spec => []MarkInv)
  <1> SUFFICES ASSUME NoBombsYet PROVE Spec => []MarkInv
    OBVIOUS
  <1>1. Init /\ IInv => MarkInv
    <2>1. ASSUME Init, NEW p \in Players
          PROVE  RingKept(p) /\ FireOK(p)
      <3>1. queue[p].count = 0 /\ queue[p].readPtr = 0 /\ queue[p].writePtr = 0
            /\ behind[p] = 0 /\ x[p].phase = "START" /\ x[p].Data_O = wall
        BY <2>1 DEF Init, PowerUp, ExplosionPowerUp
      <3>2. RingKept(p)
        BY <3>1, QueueAssumption DEF RingKept, RingOK, Size, Wrap
      <3>3. FireOK(p)
        BY <3>1 DEF FireOK, wall, bomb
      <3> QED BY <3>2, <3>3
    <2>2. Init => MarkOK
      <3>1. Init => map = InitialMap /\ ~log.sweeping /\ log.pending = << >>
        BY DEF Init, EmptyLog
      <3> QED BY <3>1 DEF MarkOK, MapMarks, LogMarks, NoBombsYet
    <2> QED BY <2>1, <2>2 DEF MarkInv
  <1>3. MarkInv /\ [Next]_vars
          => MarkOK' /\ \A p \in Players : (RingKept(p) /\ FireOK(p))'
    <2> SUFFICES ASSUME IInv, MarkOK, [Next]_vars,
                        \A q \in Players : RingKept(q) /\ FireOK(q)
                 PROVE  MarkOK' /\ \A p \in Players : (RingKept(p) /\ FireOK(p))'
      BY DEF MarkInv
    <2>1. CASE Step \/ Reset
      <3>1. PICK reset \in BOOLEAN : AnyClock(reset)
        BY <2>1 DEF Step, Reset
      <3>2. PICK keys \in SUBSET {q \in Players : ~reset /\ Listens(q)},
                 b0 \in BombsOf(0), b1 \in BombsOf(1), c0 \in CooldownsOf(0),
                 c1 \in CooldownsOf(1) :
               Clock(reset, keys, [q \in Players |-> IF q = 0 THEN b0 ELSE b1],
                                  [q \in Players |-> IF q = 0 THEN c0 ELSE c1])
        BY <3>1 DEF AnyClock
      <3> DEFINE bombs == [q \in Players |-> IF q = 0 THEN b0 ELSE b1]
                 cooldowns == [q \in Players |-> IF q = 0 THEN c0 ELSE c1]
      <3>3. b0 \in Items /\ b1 \in Items
        BY BombsAreItems, Board DEF IInv
      <3>4. \A p \in Players : bombs[p] \in Items
        BY <3>3
      <3> HIDE DEF bombs, cooldowns
      <3>5. Clock(reset, keys, bombs, cooldowns)
        BY <3>2 DEF bombs, cooldowns
      <3>6. \A p \in Players : (RingKept(p) /\ FireOK(p))'
        <4>1. ASSUME NEW p \in Players PROVE RingKept(p)'
          BY <3>4, <3>5, ClockRing DEF IInv
        <4>2. ASSUME NEW p \in Players PROVE FireOK(p)'
          BY <3>5, ClockFire DEF IInv
        <4> QED BY <4>1, <4>2
      <3>7. CASE reset \/ log.sweeping
        BY <3>5, <3>6, <3>7, SweepMarks DEF IInv
      <3>8. CASE ~reset /\ ~log.sweeping
        <4>1. Writing \in SUBSET Ports /\ \A port \in Writing : Asked(bombs)[port] \in Requests
          BY <3>4, AskedAreRequests DEF IInv
        <4>2. log \in LogStates /\ log' = LogNext(log, reset, Writing, Asked(bombs))
          BY <3>5 DEF Clock, IInv, TypeOK
        <4>3. ~log'.sweeping /\ Moved(log.pending, log'.pending, Writing, Asked(bombs))
          BY <3>8, <4>1, <4>2, LogMoves
        <4>4. CASE \A p \in Players : ~overrun'[p]
          <5>1. MarkOK'
            BY <3>4, <3>5, <3>8, <4>3, <4>4, ClockMarks DEF IInv
          <5> QED BY <3>6, <5>1
        <4>5. CASE ~ \A p \in Players : ~overrun'[p]
          <5>1. MarkOK'
            BY <4>3, <4>5 DEF MarkOK
          <5> QED BY <3>6, <5>1
        <4> QED BY <4>4, <4>5
      <3> QED BY <3>7, <3>8
    <2>2. CASE Tick
      <3>1. queue' = queue /\ x' = x /\ log' = log /\ map' = map
            /\ behind' = behind /\ overrun' = overrun
        BY <2>2 DEF Tick
      <3> QED BY <3>1 DEF RingKept, RingOK, Size, FireOK, MarkOK, MapMarks,
                          LogMarks, Pends, Waits, Burns, Erased, Nth
    <2>3. CASE UNCHANGED vars
      <3>1. queue' = queue /\ x' = x /\ log' = log /\ map' = map
            /\ behind' = behind /\ overrun' = overrun
        BY <2>3 DEF vars
      <3> QED BY <3>1 DEF RingKept, RingOK, Size, FireOK, MarkOK, MapMarks,
                          LogMarks, Pends, Waits, Burns, Erased, Nth
    <2> QED BY <2>1, <2>2, <2>3 DEF Next
  <1>4. MarkInv /\ IInv' /\ [Next]_vars => MarkInv'
    BY <1>3 DEF MarkInv
  <1> QED BY <1>1, <1>4, Invariance, PTL DEF Spec

(* Every bomb on the map is in the ring of a player, among the bombs that  *)
(* his queue shows or among as many behind them as placements met takes    *)
(* since Reset, however placements, fires, two bombs on one cell and Reset *)
(* come together, until a bomb is placed beyond the words of a ring; the   *)
(* map the game starts with must hold none (BombManager.sv, queue.sv,      *)
(* Map.sv, explosion.sv).                                                  *)
THEOREM MarksHaveBombs == ASSUME NoBombsYet PROVE Spec => []MarkedBombsPend
  <1>1. MarkInv => MarkedBombsPend
    <2> SUFFICES ASSUME MarkInv, Quiet, \A p \in Players : ~overrun[p],
                        NEW a \in Addrs, map[a] = bomb
                 PROVE  \E p \in Players : \E i \in Stored(p) : Bomb(p, i).at = a
      BY DEF MarkedBombsPend
    <2>1. log.pending = << >> /\ ~log.sweeping
      BY DEF Quiet, EmptyLog
    <2>2. Pends(a, 0) /\ ~Erased(a, 0)
      BY <2>1 DEF MarkInv, MarkOK, MapMarks, Erased
    <2>3. ~Burns(a)
      BY DEF Quiet, Rested, Burns
    <2>4. PICK p \in Players : \E i \in 1 .. Size(p) : Nth(queue[p], i).at = a
      BY <2>2, <2>3 DEF Pends, Waits
    <2>5. PICK i \in 1 .. Size(p) : Nth(queue[p], i).at = a
      BY <2>4
    <2>6. i \in Stored(p) /\ Bomb(p, i) = Nth(queue[p], i)
      BY DEF Stored, Size, Bomb, Nth
    <2> QED BY <2>5, <2>6
  <1> QED BY <1>1, MarkInvariance, PTL

=============================================================================
