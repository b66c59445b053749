----------------------------- MODULE MapEditor -----------------------------
(***************************************************************************)
(* MapEditor clocked by the ports that write the map, with the map memory  *)
(* behind it.                                                              *)
(*                                                                         *)
(* How often a port may write is a fact of the modules that drive it.      *)
(*  - An explosion alternates between a state that moves the address and a *)
(*    state that writes (explosion.sv:68-168, 181-283): its port is never  *)
(*    high in two successive cycles.                                       *)
(*  - A bomb is placed at most once per cooldown and an item picked up at  *)
(*    most once per video frame, hundreds of thousands of cycles, while    *)
(*    the explosions write for less than a hundred: between two writes of  *)
(*    such a port there is a cycle in which nothing writes and nothing     *)
(*    waits (BombManager.sv:98-110, buff.sv:79).                           *)
(* Reset may come at any time.                                             *)
(***************************************************************************)
EXTENDS WriteLog

CONSTANT Asks   \* what the ports may ask for in one cycle

ASSUME AsksAssumption == Asks \subseteq [Ports -> Requests]

(* Two explosions, and a ring with room for two requests more than there   *)
(* are sporadic ports: 6 of the 32 words.                                  *)
ASSUME FitsAssumption == /\ Cardinality(Paced) <= 2
                         /\ 2 + Cardinality(Sporadic) <= QueueSize

VARIABLES e,      \* the registers of MapEditor
          map,    \* the map memory
          last,   \* the paced ports that wrote in the previous cycle
          spent,  \* the sporadic ports that wrote since the last calm cycle
          log     \* history: the promise, clocked with the same inputs

vars == <<e, map, last, spent, log>>

Init == /\ e = EditorPowerUp
        /\ map = InitialMap
        /\ last = {}
        /\ spent = {}
        /\ log = EmptyLog

(* The ports that may be high in this cycle.                               *)
MayWrite(we) == /\ we \subseteq Ports
                /\ we \cap last = {}
                /\ we \cap spent = {}

(* A cycle in which no port writes and no request waits.                   *)
Calm(we) == we = {} /\ e.count = 0

Clock(reset, we, req) ==
    /\ MayWrite(we)
    /\ e' = EditorNext(e, reset, we, req)
    /\ map' = MapNext(map, EditorWrites(e))
    /\ last' = we \cap Paced
    /\ spent' = IF Calm(we) THEN {} ELSE spent \union (we \cap Sporadic)
    /\ log' = LogNext(log, reset, we, req)

Next == \E reset \in BOOLEAN, we \in SUBSET Ports, req \in Asks :
            Clock(reset, we, req)

Spec == Init /\ [][Next]_vars

-----------------------------------------------------------------------------
TypeOK == /\ e \in EditorRegs
          /\ map \in [Addrs -> Data]
          /\ last \subseteq Paced
          /\ spent \subseteq Sporadic

(* "We made the queue long enough so that it is unlikely to overflow": no  *)
(* more than two requests of the explosions and one of each other port     *)
(* ever wait, so there is room for the requests of the next cycle.         *)
NeverOverflows == e.count <= 2 + Cardinality(spent)

(* In every cycle the map memory takes the very write it would take from   *)
(* an unbounded queue served in order of arrival and priority: no accepted *)
(* request is lost, duplicated, reordered or replaced by another.          *)
WritesAsPromised == EditorWrites(e) = LogWrites(log)

(* When a sweep ends the whole map is the initial map, whatever was        *)
(* waiting, arrived or was swept before, and however often Reset came      *)
(* back while it ran.                                                      *)
SweepRestores ==
    [][e.state = "RESETTING" /\ e'.state = "RUNNING" => map' = InitialMap]_vars

=============================================================================
