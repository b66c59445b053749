# Dr. Boom: a verification project for FPGAbomberman

The repository is a Bomberman for two players on a DE2-115 board: SystemVerilog
under `src/project_1/*.sv`, and a C program for the NIOS II that reads a USB
keyboard (`src/project_1/software/usb_kb`), built on the board support package in
`software/usb_kb_bsp`. The rest of the tree is generated (Quartus databases, the
Qsys system) or data.

This directory models what decides the game - the map and who writes it, the
bombs and who explodes them, the players - and what brings the keys to it: the
keyboard program, its bus, and the parts of the board support package it rests on.
TLC checks the TLA+ modules on small instances; eight modules of proofs show, with
TLAPS, that every invariant the passing runs check, and every action property and
refinement, holds for all values of the constants. Liveness is left to TLC.

Contents: 1 the system, 2 the modules, 3 the runs, 4 the proofs, 5 what is not
modelled, and the plan.

## 1. The system

All hardware runs on `Clk` (50 MHz). The copies of the map memory run on
`ROM_Clk`, of twice that frequency: a read issued in a cycle of `Clk` sees the
map as it was before the write of that cycle. The frame clock `VGA_VS` (60 Hz)
drives the characters, the items and `timer_64Hz`; the game uses bits 11:2 of
the timer, a *tick* of four frames, some three million cycles. Keys and `Reset`
change at any cycle. The processor runs the keyboard program as a single thread,
which talks to the USB controller through parallel ports and to the hardware of
the game through six registers of key codes; only the board support package has
interrupts.

| Component | State | Operations | Talks to |
|---|---|---|---|
| `queue` (queue.sv) | `mem`, `readPtr`, `writePtr`, `count` | put (`we`), take (`next`), Reset | BombManager: three per player, in lockstep |
| `explosion` (explosion.sv) | state of 21, `count`, `length`, `coords`, `Address`, `WE_O`, `Data_O`, `clear_time` | start on `ready`; burn four arms and the centre; wait; clear | reads a copy of the map, writes through ports 0 and 1; no Reset |
| `BombManager` (BombManager.sv) | per player: START/SET/WAIT, `time`, `ready` | place a bomb; end of cooldown; trigger | six queues, two explosions, ports 2 and 3, scores |
| `MapEditor` (Map.sv) | ring of 32 requests, pointers, `count`, RUNNING/RESETTING, `reset_addr` | up to six puts and one write per cycle; sweep | the write port of all copies of `Map` |
| `Map` (Map.sv) | 256 identifiers | read, write | everything that looks at the board |
| `buff` (buff.sv) | `step`, `size`, `delay`, `cooldown`, `WE` | pick an item up on a frame edge | ports 4 and 5; Character, BombManager |
| `Character`, `NeighborID` | position in pixels, motion, `dir` | move on a frame edge if two probes are free | map, movement, buff |
| `movement` (movement.sv) | none | decode six key slots | Character, BombManager |
| `hit`, `ScoreBoard` | red window, BCD scores | count `p1gain`, `p2gain` | BombManager |
| `RNG` | four shift registers | shift, reseed | explosion, buff |
| `VGA_controller`, `timer_64Hz` | counters | pixel, frame, tick | everything with a frame clock |
| Keyboard program (main.c, usb.c) | how far the enumeration is, the key slots; lists in the memory of the controller | initialise, nine requests, polling, hot plug | CY7C67200 through the HPI; movement |
| HPI (io_handler.c, usb.c, hpi_io_intf.sv) | the parallel ports, the pins one clock behind them | `UsbRead`, `UsbWrite` | the keyboard program; CY7C67200 |
| JTAG UART driver (altera_avalon_jtag_uart_*.c) | two rings, interrupt mask, timeout | write, read, close, ioctl; interrupt; alarm | printf of the keyboard program; the host PC |
| Alarms (alt_tick.c, alt_alarm_start.c, alt_llist.h) | a doubly linked list, `alt_nticks`, time and roll-over of each alarm | start, stop, tick, callback | drivers |
| File descriptors (alt_open.c, alt_close.c, alt_ioctl.c, alt_fd_lock.c ...) | `alt_fd_list`, `alt_max_fd`, flags | open, close, lock, unlock, F_SETFL, redirection | the C library; device drivers |
| Rendering | none | look-up of colours | VGA |

What is hard here: six writers share one write port; a bomb is recorded in two
places (queue and map) by two paths; two explosions read, decide and write one
map concurrently with a latency of a few cycles; Reset reaches some of the
machines and not others; all times are compared for equality on a counter that
wraps; the keyboard program and the controller share a memory, a flag and a
message without a lock while the user pulls the plug; the UART driver and its
interrupt routine share two rings. The full list, with lines, is under
`hazards` in PROJECT.json.

What makes each component correct:

- queue: it is a FIFO; the count that decides `empty` is the number of bombs.
- MapEditor: every request reaches the map once, in order; a sweep restores it.
- explosion: it burns the cells of the rules and no other, each once, and clears
  every flame; no flame is left without somebody who will clear it.
- BombManager: each bomb explodes in its tick; what the map shows as a bomb is in a
  queue; cooldowns are kept.
- Character: its box never overlaps a wall or wood; a frame enters open cells only.
- buff and items: an item takes effect once; no property leaves its range after Reset.
- hit and ScoreBoard: the display is the number of points; a player is red for a
  window after the last hit.
- RNG: no seed stops it.
- Keyboard program: a keyboard hears the requests in order and is polled only when it
  has heard all of them; each list is whole when the controller executes it; one that
  is put in and stays is served, and what it reports last is shown; a held key keeps
  moving its player; no key is shown that was not reported.
- HPI: a word goes to its address and comes back from it.
- UART driver: characters arrive in order, none is lost or doubled; no wakeup is
  lost; a call comes back.
- Alarms: each rings in its tick, a stopped one not at all; file descriptors: exclusive
  access is given to one descriptor, and then obeyed.

## 2. The modules

Registers are transferred by *operators* from the state and the inputs of a
clock cycle to the state of the next (`QueueNext`, `EditorNext`,
`ExplosionNext`), as the always_ff and always_comb blocks of the source do. A
module with VARIABLES clocks one or several of them on one edge.

| Module | What it is |
|---|---|
| `Queue` | queue.sv: registers and `QueueNext` |
| `Fifo` | the abstract FIFO the report promises |
| `BombQueue` | one queue under any sequence of `we`, `next`, `Reset`; the history `outstanding` is what was put and not taken |
| `BombQueueProofs` | theorems about `BombQueue` |
| `Editor` | MapEditor and the map memory: `EditorNext`, `EditorWrites`, `MapNext` |
| `WriteLog` | what MapEditor promises: an unbounded sequence of requests and a sweep, no ring, no pointers |
| `MapEditor` | MapEditor driven by its ports, next to its promise |
| `MapEditorProofs` | theorems about `MapEditor` |
| `Explosion` | explosion.sv: `ExplosionNext`; and the rules of the game, `BlastArea` |
| `Explosions` | both explosions on one map through the promise of MapEditor |
| `BombManager` | placement, cooldown, queues, triggers, both explosions, map |
| `MapLemmas` | facts about addresses, priorities and register transfers that three modules of proofs need |
| `ExplosionsProofs` | theorems about `Explosions` |
| `BombManagerProofs` | theorems about `BombManager` |
| `Character` | Character.sv and NeighborID: one character, the map and whoever else changes it |
| `Score` | hit.sv and ScoreBoard.sv, with `p1gain` as BombManager.sv forms it |
| `Buff` | buff.sv: what a picked-up item does |
| `Items` | picking up: the look on the frame edge, the write cycles later, a character that moves and explosions that put items down and burn them |
| `Rng` | the four shift registers of RNG.sv, bit by bit |
| `Players` | the composition of the five modules above |
| `PlayersProofs` | theorems about `Character`, `Buff`, `Score` and `Items` |
| `UsbLists` | the requests of usb.c as lists of descriptors in the memory of the controller, and what makes a list executable |
| `KeySlots` | the six registers of key codes, and movement.sv, which decodes them |
| `UsbHost` | the keyboard program, the USB controller, the keyboard and the user |
| `UsbHostProofs` | theorems about `UsbHost` and the lists of `UsbLists` |
| `Hpi` | io_handler.c and hpi_io_intf.sv between the processor and the controller |
| `JtagUart` | the UART driver: one thread, the interrupt routine, the alarm, the host |
| `AlarmClock` | what `alt_tick` promises of alarms: ticks left, no list, no wrapping counter |
| `Alarms` | alt_tick.c, alt_alarm_start.c and alt_llist.h |
| `DeviceLocks` | what exclusive access promises: holders and owner of each device |
| `Files` | the descriptor table |
| `Firmware` | the composition of `Alarms`, `Files`, `Hpi` and `JtagUart` |
| `FirmwareProofs` | theorems about `Alarms`, `Files`, `Hpi` and `JtagUart` |
| `MC_*` | the constants of the instances TLC checks; `MC_Rings`, `MC_Bombs`, `MC_Sessions` and `MC_Explosions` also put two instances or scenes into one run |

`Explosions` and `BombManager` use `WriteLog` in the place of `Editor`, and `Items`
a sequence of its own that is read the same way. What makes that sound is
`WritesAsPromised` - proved in `MapEditorProofs` for ports that keep a certain
pace - and `PortsPaced`, proved in `ExplosionsProofs`, which says that the explosions
do keep it. The pace of
the other ports follows from the cooldown (bombs) and the frame edge (items).

`Players` and `Firmware` put parts side by side that share no register: the constant
variable `part` says which of them runs, the others rest in an initial state. A
conjunction of independent specifications would have the product of their states and say
no more. `MC_Rings` does the same for `MapEditor` and `BombQueue`. `MC_Bombs`,
`MC_Sessions` and `MC_Explosions` check two scenes in one run, told apart by a variable
that does not change (`solo`, `calm`, `board`): what is cheap to explore with two
players, two faults or large boards, and what is not. Each part has a specification of
its own (`ScoreSpec`, `BuffSpec`, `AlarmsSpec`, `FilesSpec`, `HpiSpec`), about which the
proofs are.

The state machine of explosion.sv writes its four directions out: UP, DOWN,
LEFT, RIGHT, and the same for REPLACE, C and CLEAR. The model has these sixteen
states as four phases with an arm. The casex tables of MapEditor, which list who
comes first, second, ... sixth for every combination of ports, are modelled by
the rank of a port: the number of ports of higher priority that write too.
`Rank` and `Batch` were read off the tables; `Batch` states the order a second
time, without offsets into a ring.

Definitions marked `\* mutant` are not part of the model. Each is a plausible bug
in the definition that follows it, kept to show that some property notices it.

### Time

A burst or a clearing takes less than 80 cycles, a sweep 256, a tick millions.
`Tick` therefore waits for the explosions to finish what the present tick asks
of them and for the editor's queue to drain, but not for a sweep, which Reset may
start at any moment, nor for the state machine that places bombs. `Quiet` is the
moment when all of that is done; most invariants of `Explosions` and
`BombManager` are about what is true then. That a sweep is longer than a burst is
kept in the scaled instances.

### Queue and its memory

`mem` is declared `[ADDR_WIDTH]`: 8 words, while the pointers have 8 bits and
`full` compares the count with 256. The synthesised memory decodes three address
bits (`output_files/BomberMan_top.map.rpt`), so the model keeps the pointers
modulo `Words` and has `FullAt` as a constant of its own. Two things break the
FIFO: a put that meets a take, and more than `Words` waiting bombs. `BombQueue`
has a specification without either (`DisciplinedSpec`, proved correct) and one
with each (`RoomySpec` allows the first, `ApartSpec` the second; see the limits
below). `BombManager` has both: nothing in its actions keeps a placement from
meeting a take or the ring from being overrun, and two histories per player record what
came of it since Reset. `behind` is the number of bombs that stand in the ring behind
the ones `count` counts (one more for each placement that met a take), `overrun` says
that a bomb was put where another stood. The histories enter no guard; properties that
do not hold across such a placement name them.

### A character and the map

`Character` has one character: the two do not see each other. A frame is an action
with any direction and any step, because buff.sv may change the step between two
frames. What the players' bombs, the explosions and the items write is `Occupy` and
`Vacate` of any cell that is no wall; which cells in which order does not matter to a
character. A sweep is the time from `Reset` to `SweepEnds`; the one frame that may
begin in it (256 cycles against some 833 000) sees the initial map below an address and
the old one above. `moved` bounds that. `RoomAssumption` says of the map that there is
room and no wood around the two starting points, which map2.csv fulfils.

### The keyboard program

`UsbHost` has an action for every stretch of the program between two accesses to
something the controller may change: the flag of the status register, the message
(SIE1msg), the control word of the first descriptor at 0x508, the memory the lists
are in. `step` numbers the nine requests and the poll; `pc` is the place in the one
pattern that main.c repeats for each of them, with what is different from request to
request as conditions on `step` (who starts over, who asks again, who sleeps first).
`mem` holds the descriptors by slot, so what is left of a longer list, what the
received bytes overwrite and the five words main.c writes over the endpoint
descriptor are all there.

A request is sent again as long as no message has come, so a message may let the
program go on while the controller has the second sending still before it. What comes
then is in the model: the next list is written in two steps (`BeginList`, the first
descriptor with the word at 0x508; `EndList`, the rest), between which the controller
may take the old request, the new one or some words of each, and `taken` is the request
it took. Its acknowledgement sets 0x508 and posts a message whatever list lies in memory
by then, and the keyboard has heard `taken`, not what the program believes. A torn list
(`taken = 0`) is one no keyboard answers; what a controller might make of its bytes is
not modelled. The history `late` says that a list was overtaken like this since the bus
reset, `strays` that the report shown was read after that.

CY7C67200 and the keyboard are not in the repository. Their actions are everything
the program is written to meet: a list is taken at the start of a USB frame, may be
taken anew if the pointer is written again, ends in TDListDone whether it succeeded or
not, and its first descriptor is done at the first attempt, at a later one, or never. A
device that is not addressed does not answer. The user pulls the plug at any moment
and puts it back, also before the program looks.

### The UART driver

Every access of the thread to a pointer the interrupt routine moves is an action.
One turn of the loop in the interrupt routine is one action: nothing of the driver can
come in between, and what the host does meanwhile can as well happen after it.
Characters are numbered modulo `Numbers` and the two histories count what is under
way. Both configurations of the driver are there: with a system clock (a timeout of a
few seconds and an alarm), and without, as in this system, where `alt_alarm_start`
fails, the timeout is `INT_MAX` and the host is taken for present for ever.

## 3. The runs

| Run | Shows | Bounds |
|---|---|---|
| `Rings` | TypeOK, NeverOverflows, WritesAsPromised, SweepRestores, with all six ports; QueueTypeOK, HoldsOutstanding, and that the disciplined queue implements `Fifo` | ring of requests: 8 words, which is tight (2 + 4 requests and the ones arriving wrap all the time), a map of 2 cells, each port writes its own mark. Ring of bombs: 3 words, three items, the pointers wrap in both directions of the discipline |
| `Explosions` | TypeOK, BurnsBlastArea, OncePerCell, FlamesAreLive, PortsPaced, EveryFlameCleared | two boards of 5x5 cells. Without Reset: wall, wood, a bomb and an item; bombs of both lengths that fit, on three cells. With one Reset, at any cycle: a corridor of three cells, the first player's bombs at its left end, sweep of 25 cycles. On both two ticks with bombs, so that bursts and clearings meet in the same tick and in different ones; timer of 4 values, so that clear_time wraps |
| `Character` | NeverInWall, OnGrid, EntersOnlyOpen; ScoreShown, RedAfterHit; BuffsInRange; TakenOnce; KeepsDrawing | map: a row and a column of three cells that meet, wood at both ends, a turn behind one; steps of 3 and 5, which between snaps reach every offset at which the probes differ; every address of the sweep. Score: 165 points, past 99 and 159; a timer of 6 ticks with a window of 3, so that both wrap. Buffs: from the zeros of power-up, registers of 96 values, so that a property can pass a limit and come round; Reset at any time. Items: two cells, three items. Shift registers: real widths, every seed |
| `BombManager` | TypeOK, DueBombsExplode, PlacementsSpaced, MarkedBombsPend, with a constant delay and placements that meet takes | corridor of four cells; all times an eighth of the real ones; timer of 8, cooldown compare of 4 values: both wrap. Two scenes (`solo`): two players without Reset, followed up to the first placement that meets a take (`InSight`); one player with two cooldowns and Reset at any cycle, up to one bomb behind the count of the queue (`InTheRing`) |
| `BombManager_meet` | **violated**: EveryBombExplodes | one player, a constant delay, no Reset |
| `BombManager_delays` | **violated**: DueBombsExplode when the delay varies | one player, delays of 2 and 4 |
| `UsbHost` | TypeOK, RequestsInOrder, ListsAreSound, HeldMoveStays, NoPhantomKeys; CalmEnumerates, CalmLatestShown | the real requests, addresses and six registers; any number of list repetitions and lists overtaken; three reports with real key codes in which the keys of two players join, leave and move up. Calm sessions: two disturbed requests and two removals. Others: one request that is disturbed or answered after the sleep, or one removal |
| `UsbHost_late` | **violated**: NoneSkipped | one late answer, the keyboard stays in |
| `UsbHost_failed` | **violated**: FailedIsSentAgain | one failure, one removal, with fairness |
| `Firmware` | RingsOnTime, TicksEnd; LocksObeyed; WordsAsWritten; InOrder, NoLostWakeup, CallsReturn, Delivered | alarms: three, a careful program, tick counter of 4 values, all delays and periods up to Span - 1. Descriptors: six, two devices. Bus: two addresses, two values, two clocks between accesses, the button at any clock. UART: rings of 3 bytes, which wrap and fill all the time; device FIFOs of one character; calls of up to 2; with and without a system clock |
| `Firmware_stops` | **violated**: RingsOnTime when callbacks stop any alarm | two alarms |
| `Firmware_locks` | **violated**: LocksExclusive | as `Firmware` |

`Rings` and the three runs of `BombManager` use a VIEW that hides registers
nothing reads before they are written: ring and queue words outside the window (bombs
behind the count are inside it, and a queue that is overrun is looked at whole), and the
registers of an explosion that rests in START. Only invariants, one action property and
the FIFO are checked under a VIEW; the liveness properties are not. Deadlock is checked
everywhere but in the runs of `UsbHost`, whose program does come to a place from which
it does not move (see below).

Some properties in words:

- **BurnsBlastArea.** When the burst of a tick is over, the cells an explosion set
  on fire include every cell the rules give it on the map it started from, and
  are exactly those if the other explosion rested meanwhile. The qualification is
  real: when two bombs explode in one tick, one of them may burn the wood at which
  the other would have stopped, and the other reaches past it.
- **FlamesAreLive.** Between bursts each flame on the map is inside the cross of an
  explosion of its colour that waits to clear it, in spite of Reset, sweeps and the
  other explosion. It is why no flame stays on the board for ever.
- **OncePerCell.** Points are counted when a flame is written on the cell of a
  player; the report argues from it that a player gets one point per explosion.
- **MarkedBombsPend.** A bomb on the map is in the ring of a queue: among the bombs the
  queue counts or, if placements met takes, among as many that stand behind them. The
  latter explode only when later placements bring them back into the count, but no bomb
  on the map is nowhere, and none is in the ring by luck: their number is exact. It
  relates the two paths a bomb is recorded by, across explosions of others, sweeps and
  Resets, until a ring is overrun. The converse does not hold: a bomb placed on the
  burning centre of the previous one is erased from the map when that centre is
  cleared, and explodes unseen.
- **NeverInWall.** Between two cells NeighborID looks at both, and near a cell only at
  that one, while the character snaps to the nearer: the three roundings (bits 4 and
  3 or-ed, and-ed, bit 4) have to fit each other at each of 32 offsets and for each
  step. And a sweep restores wood while a character moves away from its start.
- **EntersOnlyOpen.** It does not say that a character never stands on a bomb - it
  does, on its own - but that it never steps on one.
- **DueBombsExplode.** No bomb is left behind by its tick. It holds when a player's
  delay is constant, because the cooldown (at least 16 ticks) exceeds the time a
  flame stays (8), up to the first of his placements that meets a take or overruns the
  ring, and again from the next Reset on. **EveryBombExplodes** is the same without the
  exception for placements that meet a take: the code does not keep it.
- **BuffsInRange.** From the first Reset on. Before it the properties are 0, below the
  limits of delay and cooldown, and an item would take them further down; a step of 0
  keeps the character from reaching one.
- **TakenOnce.** The map is read on the frame edge and written cycles later, at the
  position the character has by then, while an explosion may burn the item or put
  another one down.
- **RequestsInOrder.** The program takes the flag for the end of the request it sent
  last. A request that is sent twice, a message that was answered before it was
  cleared, a keyboard that was exchanged between two looks could all make it go on
  before the keyboard heard it. As long as no list is overtaken (`late`) none of them
  does; **NoneSkipped** is the promise without that premise, and is broken.
- **ListsAreSound.** All requests share 0x500 and the buffers behind it; none clears
  what the one before left. The property is why that does no harm: the list the
  controller took is in memory, whole and executable, as long as none is overtaken.
- **HeldMoveStays.** The six registers are written one after the other, while
  movement.sv decodes them: a held key that moves to a lower place is in both for a
  moment, and never in none, because they are written upwards.
- **NoPhantomKeys.** The first poll of a keyboard that has nothing to report shows
  what the enumeration left where the report belongs: codes 0x20, 0x05, 0x88, 0x08.
  No key of the game is among them.
- **NoLostWakeup, InOrder.** Both sides of a ring work without a lock: each moves one
  pointer, reads the other once, and enables or masks interrupts on what it saw.
- **RingsOnTime.** `time` is compared with a counter that wraps, with one bit of
  memory per alarm that each tick updates; callbacks change the list and the times
  while the tick walks them. The program is one that takes care (`CarefulAlarms`): it
  starts no alarm that is in the list or rings, uses no delay of 2^32 - 1, and no
  callback stops the alarm after its own. The last of these nobody would guess from the
  interface: `Firmware_stops` shows what it is needed for.
- **LocksExclusive, LocksObeyed.** The comments promise a lock to a descriptor that is
  alone on its device (`DeviceLocks!Spec`); the code grants it beside at most one other,
  of a higher number, and then keeps its word: no open, no second claim
  (`DeviceLocks!WeakSpec`).

### What the violations show

1. `BombManager_delays`: a bomb that falls due while its player's explosion is busy,
   or that stands behind a later one, misses its tick and waits for 1024 more.
2. `BombManager_meet`: the counter of queue.sv is assigned twice in one always_ff block
   and the second assignment wins (queue.sv:20-28). A bomb placed in the cycle in which
   another one of the player is taken is in the ring but not counted. If no other bomb
   is, the queue shows itself empty, the bomb's tick passes, and the next placement makes
   it the head that everything behind it waits for.
3. `UsbHost_failed`: from the third request on, a request that failed is not sent
   again: the program waits in `UsbGetRetryCnt` for another message, which nobody
   will post. A keyboard that is pulled out, or fails, between the second request
   and the key loop leaves the program there until it is reset.
4. `UsbHost_late`: request 2 is sent twice, because its answer takes longer than the
   sleep. The message of the first sending lets the program go on and write request 3;
   meanwhile the controller executes the second sending of 2. Its acknowledgement is in
   the word 0x508 and its message sets the flag when the program looks for those of 3:
   it goes on to 4. The keyboard hears 1, 2, 4.
5. `Firmware_stops`: alt_tick holds the pointer to the next alarm while a callback runs
   (alt_tick.c:102,140). A callback that stops that alarm makes the walk go on to a node
   that is in no list: it rings, and as it points to itself, again and again.
6. `Firmware_locks`: the search of alt_fd_lock ends before `alt_max_fd`
   (alt_fd_lock.c:61, where alt_file_locked includes it), so the lock is granted while
   the highest descriptor is open on the device.

### Known limits, and premises of the properties

These are replayed by giving the named cfg another SPECIFICATION or INVARIANT line;
TLC finds each of them.

- A put that meets a take, in a queue on its own: module `BombQueue` with the
  last four constants of `Rings.cfg`, SPECIFICATION RoomySpec, INVARIANT
  CountsOutstanding.
- More than 8 waiting bombs overwrite each other, `full` rises at 256
  (queue.sv:9-16). It takes nine waiting bombs, which a player collects when a bomb
  misses its tick and blocks the queue. `BombQueue` as above, SPECIFICATION ApartSpec,
  INVARIANT HoldsOutstanding.
- A bomb that explodes in the tick in which another fire is cleared from the same
  cells is put out as it is lit (explosion.sv:3). `Explosions.cfg` with INVARIANT
  AreaBurnsUntilClearTime.
- Two stores of the processor at consecutive clocks overtake hpi_io_intf:
  `Firmware.cfg` with Gap = 1 violates WordsAsWritten. The NIOS II needs more than one
  clock for each.

And these are premises or exceptions, written into the properties:

- Keyboard: `Enumerates` and `LatestReportShown` are asked of calm sessions, in which
  `upset` stays FALSE (`CalmEnumerates` and `CalmLatestShown` say so): the keyboard
  fails no request after the second, each is answered within the 10 ms the program
  sleeps (`Sleep`), and the controller does not answer to the five words main.c points
  it at as a list (if it does, the program takes the answer for that of the next
  request). In the other sessions keyboards are slow and fail at any
  request, and the safety properties are checked there too. A message of a slow keyboard may
  also come between the reading and the clearing of the message before (usb.c:541), and
  the program then waits for it for ever. If
  every SetAddress is sent twice and both are executed, the second finds no device at
  address 0: `FramesDrift` excludes that this goes on for ever. A replug between two
  looks of the program leaves a keyboard without an address, which is polled in vain; a
  removal after the second request makes a later one fail.
  While no keyboard is there, the keys last shown stay shown.
- Toggle bit: the control word of the poll alternates whether or not a report came, so
  a report may be dropped; the model has this as a poll that brings nothing new.
- UART: a write that waits gives up when the host has missed one second, whatever the
  timeout (write.c:183-187). Without a system clock a write to a host that has stopped
  reading blocks for ever: `CallsReturn` needs one or the other.
- Alarms: `AlarmsSpec` lets the program and the callbacks start and stop what they like,
  with any delay; three things do not go well and `CarefulAlarms` leaves them out: stopping
  the alarm after one's own in a callback (violation 5), starting an alarm that is in the
  list already or from its own callback (it corrupts the list, or is undone by the return
  value), and a delay of 2^32 - 1, whose time is the current tick. `StopsSpec` allows the
  first only.
- Descriptors: see violation 6. `Obeyed` in FirmwareProofs shows why a lock, once
  granted, is nevertheless not granted a second time.
- Bus: after a reset that met a call nothing is promised (`cut`): the controller may
  have got a word for an old address.
- Items: a character that leaves the cell in the pick-up frame leaves the item behind
  (`slipped`; buff.sv:79), which can then be taken again.
- Hits: one in the very cycle in which the red window ends is lost (`lost`; hit.sv:43).
  The left digit of the score runs to F, and both start again after 159. A player hit
  by both explosions in one cycle gives one point: `points` counts cycles with a hit.

### Fairness

The clocks of the hardware run freely, so a cycle with work to do happens:
`WF(Work)` and `WF(Tick)` in `Explosions`, `WF(RngClock)` in `Players`. Nothing is
assumed about Reset or about which bombs fall due.

`UsbHost` assumes that the program runs (`WF(Program)`; it has one thread and every
action of it is deterministic or a choice of the controller), that the controller goes
on with a list it was given (`WF(Controller)`), and that COMM_ACK comes now and then
(`SF(InitAcknowledged)`: strong, because main.c starts over when it does not). Nothing
makes the controller start a list over, or the user plug or unplug anything. `FairSpec`
is `Spec` with this fairness. In a calm session only the steps are taken that leave `upset`
FALSE; as `upset` is never taken back, these are the behaviours of `FairSpec` with
`[]~upset`.

The UART driver in `Firmware`: the thread runs on within a call, a pending interrupt is
served, the alarm comes (`WF` of `Goes`, `Interrupt`, `Timeout`). What the host does is
a premise of the properties. The alarms: the handler of the timer interrupt runs to its
end (`WF(Walks)`), which is how an interrupt handler runs; it is in the specification of
the violated runs as well.

## 4. The proofs

`BombQueueProofs` proves, for every number of words, every set of items and every
`FullAt >= Words` (`QueueAssumption`):

- `QueueHoldsOutstanding`: DisciplinedSpec => []HoldsOutstanding. The window alone
  is not inductive, since two windows with the same content can have different
  write pointers. The strengthening adds `PointersAgree`: the count is at most
  `Words`, and the write pointer is the read pointer plus the count.
- `QueueIsFifo`: DisciplinedSpec => FifoPromise, step by step: an edge is a Put, a
  Take, a Clear or a stutter of the window. The argument needs only `QueueTypeOK` and
  `PointersAgree`.

`MapEditorProofs` proves, for every set of at most two paced ports, every finite
set of sporadic ports that fits the ring with two words to spare, every ring, map
and choice of requests (`EditorAssumption`, `AsksAssumption`, `FitsAssumption`):

- `EditorTypeCorrect`, `EditorNeverOverflows`, `EditorKeepsPromise`: one inductive
  invariant. `count <= 2 + |spent|` is not inductive: it needs that a paced port
  that wrote in this cycle cannot write in the next, so the invariant also bounds
  the count by the ports that wrote last. The rest says that the window of the ring is
  the pending sequence of the promise, which needs that the ranks of the ports that
  write are 0 .. n-1 without gaps or repetitions (a lemma by cardinalities).
- `EditorSweepRestores`: an action property, from the invariant that the cells
  below `reset_addr` are restored while RESETTING.

`ExplosionsProofs`, for every map, every width of the timer, and every set of bombs on
whose cells a cross fits (`Fits`: the arms do not meet on the ring of the addresses; the
board of the game has room for all lengths):

- `ExplosionsTypeCorrect`, `FiresOncePerCell`, `WritePortsPaced`: the invariant relates
  the arm, the count and the address of a walk to the set of cells it has burned, so
  that the cell it writes next is not in it (`FireOK`).
- `FlamesStayLive`: Spec => []FlamesAreLive, with Reset in any cycle, if the map the
  game starts with, the one a sweep restores and every map of the run hold no flame, and
  the latter two have the same walls (`NoFlamesYet`; all copies of `Map` and the ROM of
  the sweep are loaded from map2.csv, which holds 00, 10 and 80 only). The invariant
  follows a flame from the write port through the requests to the map and back off it:
  every flame that nothing is about to overwrite is in reach of its explosion
  (`InReach`), and ahead of the clearing walk (`Ahead`). What carries it over is that
  the fire stops only at walls, and walls are never written, so that the walk that
  clears comes as far as the one that burned.
- `RulesAreKept`: Spec => []BurnsBlastArea, which says something until Reset is pressed
  (`swept`; a sweep puts wood back in front of a fire). The invariant says for each
  phase which part of the area of the rules is on fire (`AreaOK`), that nothing solid
  comes to the map (`OpensOK`), and that the map changes only where this explosion burns
  while the other rests (`AloneOK`). The last part was false of an earlier model: its
  history `alone` was true while the last write of the other explosion was still on its
  way, and could be left over from the explosion before. With a bomb on the map under
  the other fire TLC then found BurnsBlastArea violated. `alone` now begins
  `Undisturbed`.

`BombManagerProofs`, for every ring, map, width of the timer and sets of cells, delays and
cooldowns (`BombManagerAssumption`; the cooldown compares a divisor of the timer's span
and a cooldown is below it, which holds for the 8 of 10 bits and 16 .. 80 of the code):

- `BombManagerTypeCorrect`, `CooldownsKept`: while a cooldown runs, the low bits of the
  stored time are exactly as far ahead of the timer as the cooldown has left
  (`SpacedOK`), over wraps and ticks inside SET.
- `BombsExplodeWhenDue`, if the delays differ by less than a cooldown exceeds the life of
  the flames (`Steady`): the bombs of a queue are due in order, more than that life
  apart, and the fire that burns is cleared before the first of them (`DueOK`). For each
  player it is carried through the cycles in which his queue is in sequence (`behind` = 0,
  not `overrun`), and Reset establishes it anew; what happens otherwise is no part of the
  invariant. The runs `BombManager_delays` and `BombManager_meet` show the bombs that are
  missed when a premise fails.
- `MarksHaveBombs`, if the game starts on a map without bombs (`NoBombsYet`): a cell that
  holds a bomb is in a ring, or is the centre of a fire whose write has not come, or
  is about to be overwritten by a request that waits, or to be swept (`MarkOK`). The ring
  is looked at as a window of `count + behind` words (`RingKept`), for which a put that
  meets a take is a put and a take: both pointers move on, and only the history knows the
  length.

`MapLemmas` holds what these three modules share: addresses and ticks modulo a span,
ranks of ports, and that every register transfer stays within its widths.

`PlayersProofs`, about the parts of `Players`. `Character`, for every map with a wall
around it, every start with room (`CharacterAssumption`, `RoomAssumption`) and steps up
to 31 pixels, one less than a cell:

- `CharacterNeverInWall`, `CharacterOnGrid`, `CharacterTypeCorrect`: one inductive
  invariant. NeverInWall alone is not inductive: a sweep restores wood, so the
  invariant says that during one the character is above cells beside its start, and the
  coordinates need the walls of the border to stay below 449, where the guards
  `> 479` of Character.sv alone would let the box leave the board by up to 31 pixels.
- `CharacterEntersOnlyOpen`: an action property; the heart of it is the lemma
  `Entered` about one frame, from three lemmas of integer arithmetic.

The others:

- `BuffsStayInRange`, from the first Reset on, from `InSteps`: delay and cooldown are
  multiples of 8 between their limits. The range alone is not inductive, since the
  limits are compared for equality and a value beside one would step over it.
- `ScoreIsShown`, for any number of points: two digits of a number, what a carry makes
  of them, and that the right one overflows at 9 and no other time (lemmas `DigitsOf`,
  `Carries`, `CountsOn`).
- `RedShowsHits`, for every window that is shorter than a turn of the timer
  (`ScoreAssumption`): while the player is red, `time2` is the tick of the last hit,
  so the tick in which the comparison matches is that of the window's end.
- `ItemsTakenOnce`, for any number of items: what has taken effect, the items that lie on
  the map and those on their way to it are together no more than were put down. The
  item that took effect still lies there until its own write comes (`Owed`).

`FirmwareProofs`, about the board support package and the bus:

- `OnTime`, for every width of the tick counter, every set of alarms, all delays and all
  periods (`AlarmsAssumption`): CarefulAlarms => RingsOnTime, the refinement of
  `AlarmClock` by a program that takes care. Of `AlarmsSpec` it is false. The invariant
  has three parts: `next` and `previous` are inverse to each other and `behind`, a
  history, says which alarms a node leads to (a list without induction over its length);
  the walk stands on a linked alarm and the pointer it holds while a callback runs stays
  good; and the roll-over flag of an alarm says that its time is behind the counter - as
  it will be after this tick for the alarms the walk has passed, and as it was before
  for those it has yet to come to.
- `Obeyed`, for every number of descriptors and devices (`FilesAssumption`): FilesSpec
  => LocksObeyed, the refinement of the weak promise of `DeviceLocks`. The invariant
  says that every open descriptor lies at or below `alt_max_fd`, and that whoever shares
  a locked device lies above the descriptor that locked it (`LowestLocks`). That is why
  the short loop of `alt_fd_lock`, which grants a lock beside one higher descriptor,
  does not lead to two owners.
- `BusWordsAsWritten`, for all words and addresses, if two accesses to the ports are two
  clocks apart (`Gap >= 2`; with 1 it is false, see the limits): the invariant `BusOK`
  says, for each of the fourteen stores of a call, what is on the ports, what the pins
  show of it one clock later, and what the controller has taken from them.
- `UartInOrder`, `UartNoLostWakeup`, for rings and FIFOs of every size
  (`JtagUartAssumption`): the ring and the device together hold the characters under way
  in their order (`OutInOrder`, `InInOrder`), and the pointer the thread read before it
  began to copy is old only to its disadvantage (`Snapshot`): the interrupt routine has
  only made room, or brought characters, since.

`UsbHostProofs`, for every set of reports, keys and players, up to six registers, and any
number of faults and removals (the bounds of the run are constants of the theorems). The
two about requests and lists say what holds until a list is overtaken by the next one:

- `UsbTypeCorrect`, `UsbRequestsInOrder`, `UsbHeldMoveStays`: the list in memory is that of
  `step` or, after the program went on, the one before (`ListOfStep`); a keyboard that has
  an address has heard all requests up to it (`Heard`), and what the controller took is
  what is in memory, nothing being under way while a list is written (`Taken`) - both as
  long as no list was overtaken; while keys are shown the registers
  are new below the one to be written and old from it on (`KeysShown`).
- `UsbListsAreSound`: the descriptors of the request in memory are in their slots
  (`ListInPlace`). That needs facts about all ten requests - they are linked slot by slot
  and their buffers follow one another behind the list (`RequestsAreLists`) - from which it
  follows that the controller, which only follows links through memory, walks through
  the list and stops (`ListsAreWalked`), that what it receives spares the list
  (`ReceivedSpares`), and that the request can be executed (`ListsFit`). `Walk` and
  `Bytes` are recursive functions over at most eleven values: the proofs give the
  function outright, so that no induction is needed.
- `UsbNoPhantomKeys`, if no key of the game has one of the codes 0x05, 0x08, 0x20, 0x88
  (`KeysAreNotLeft`; movement.sv has none): what was last received is a report or the three
  words of the list of request 9 that lie there (`ReportShape`).

Only model-checked: liveness (TicksEnd, EveryFlameCleared, Enumerates, LatestReportShown,
CallsReturn, Delivered, KeepsDrawing), which is out of reach of the prover. KeepsDrawing
is besides about the orbit of a register, which is a computation and no argument. What
recursive definitions compute for every input is not proved either: where the model has
them (`Walk`, `Bytes`) their domains are small and fixed. The inductive invariants were
checked by TLC on the instances of the runs before they were proved.

## 5. Not modelled, and the plan

Not modelled at all:

- rendering and VGA_controller: look-up tables and two counters;
- the generated NIOS II system (Qsys, Quartus) and the headers of register addresses
  (cy7c67200.h, system.h), nearly a quarter of the C and header lines of the tree;
- the rest of the board support package: interrupt dispatch and exceptions in assembly,
  the heap, the time of day, caches, flash, DMA and logging. The program calls none of
  them but at start-up. alt_settod.c and alt_gettod.c, which compute in 32 bits, would be
  next, if anything called them;
- explosion2.sv and FrameBuffer.sv (not instantiated).

Headers, licence texts and generated sources are most of the lines that are counted as C;
the modules map the control of every file of the keyboard program and of the drivers it
uses.

Simplifications: in `BombManager` and `Explosions` the random bits are free or fixed, the
buffs are sets of values, and no items are placed (they are in `Items`). `Players` and
`Firmware` run one part at a time, which loses nothing because the parts share no state.
Half of hit.sv and ScoreBoard.sv is modelled; the other half is the same with the players
exchanged.

Plan for the proofs. All safety properties of the passing runs are theorems. What is left:

1. Close the composition: that the requests of BombManager and of the items keep the
   pace `WritesAsPromised` assumes of the ports they use (`spent`: once between two calm
   cycles), as `WritePortsPaced` shows for the explosions. It follows from the cooldown
   and from the frame edge; today it is an argument in this file.
2. `BurnsBlastArea` after a Reset, for explosions that no sweep meets.
3. Stronger statements about what the theorems leave open: which premise of `Steady` the
   buffs of the code break, and for which pairs of delays.

Liveness stays with TLC.
