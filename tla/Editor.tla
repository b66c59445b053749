------------------------------- MODULE Editor -------------------------------
(***************************************************************************)
(* MapEditor (Map.sv:75-281): the multi-input queue through which every    *)
(* write reaches the map memory, one per clock cycle, and the sweep that   *)
(* restores the map after Reset.  Register transfers are operators, as in  *)
(* Queue: the registers of MapEditor are a record e, its inputs the set    *)
(* `we` of write ports that are high and the request `req[p]` on port p.   *)
(*                                                                         *)
(* There are some twenty copies of the map memory, one per reader; all of  *)
(* them take the same write port and none is ever written otherwise, so    *)
(* they are one map here.                                                  *)
(***************************************************************************)
EXTENDS Naturals, FiniteSets, Sequences

CONSTANTS Paced,       \* the ports of the explosions: 0 and 1
          Sporadic,    \* bombs (2, 3) and picked up items (4, 5)
          QueueSize,   \* words of addr and data: 32
          LastAddr,    \* the last address of the map: 16'hFF
          SweepLast,   \* the address on which a sweep ends, also 16'hFF
          Data,        \* what a cell of the map may hold
          InitialMap   \* the content of ReadyToUse/map2.csv

Addrs    == 0 .. LastAddr
Ports    == Paced \union Sporadic
Requests == [addr : Addrs, data : Data]

ASSUME EditorAssumption ==
    /\ Paced \subseteq Nat /\ Sporadic \subseteq Nat
    /\ IsFiniteSet(Paced) /\ IsFiniteSet(Sporadic)
    /\ Paced \cap Sporadic = {}
    /\ QueueSize \in Nat \ {0}
    /\ LastAddr \in Nat /\ SweepLast \in Nat /\ LastAddr <= SweepLast
    /\ InitialMap \in [Addrs -> Data]

Nothing == [addr |-> 0, data |-> InitialMap[0]]   \* a word at power up

WordsOf == 0 .. QueueSize - 1

EditorRegs == [state : {"RUNNING", "RESETTING"}, reset_addr : 0 .. SweepLast,
               count : 0 .. 2 * QueueSize - 1, readPtr : WordsOf,
               writePtr : WordsOf, words : [WordsOf -> Requests]]

EditorPowerUp ==
    [state |-> "RUNNING", reset_addr |-> 0, count |-> 0, readPtr |-> 0,
     writePtr |-> 0, words |-> [w \in WordsOf |-> Nothing]]

(* The pointers are five bits wide and the counter six.                    *)
Unbounded(i) == i                                     \* mutant
Around(i)   == IF i >= QueueSize THEN i - QueueSize ELSE i
SixBits(n)  == IF n >= 2 * QueueSize THEN n - 2 * QueueSize ELSE n

(* How many ports that are high have a higher priority than port p: the    *)
(* offset from writePtr at which the casex tables put the request of p.    *)
LastFirst(we, p) == Cardinality({o \in we : o > p})   \* mutant
Rank(we, p) == Cardinality({o \in we : o < p})

Pushed(e, we, req) ==
    [w \in WordsOf |->
        IF \E p \in we : w = Around(e.writePtr + Rank(we, p))
        THEN req[CHOOSE p \in we : w = Around(e.writePtr + Rank(we, p))]
        ELSE e.words[w]]

(* What is left in the queue after the output of this cycle.              *)
Kept(e)      == e.count                               \* mutant
Remaining(e) == IF e.count = 0 THEN 0 ELSE e.count - 1

(* The sweep writes its last cell in this cycle.                           *)
StopsShort(e) == e.reset_addr + 1 >= SweepLast        \* mutant
SweepEnds(e)  == e.reset_addr = SweepLast

(* One rising edge of Clk.  While the map is swept, requests are ignored.  *)
(* reset_addr runs on while the state is RUNNING, where nothing reads it   *)
(* until Reset clears it: here it stays 0.                                 *)
EditorNext(e, reset, we, req) ==
    IF reset \/ e.state = "RESETTING"
    THEN [e EXCEPT
            !.state = IF reset \/ ~SweepEnds(e)
                      THEN "RESETTING" ELSE "RUNNING",
            !.reset_addr = IF reset \/ SweepEnds(e)
                           THEN 0 ELSE e.reset_addr + 1,
            !.count = 0, !.readPtr = 0, !.writePtr = 0]
    ELSE [e EXCEPT
            !.count = SixBits(Remaining(e) + Cardinality(we)),
            !.readPtr = IF e.count = 0 THEN e.readPtr
                        ELSE Around(e.readPtr + 1),
            !.writePtr = Around(e.writePtr + Cardinality(we)),
            !.words = Pushed(e, we, req)]

(* The outputs WE, MapWriteAddr and MapWriteData: the set of writes, none  *)
(* or one, that the map memory takes in this cycle.  A sweep that is       *)
(* longer than the map writes nothing beyond its last address.             *)
EditorWrites(e) ==
    IF e.state = "RESETTING"
    THEN {[addr |-> a, data |-> InitialMap[a]] : a \in {e.reset_addr} \cap Addrs}
    ELSE IF e.count = 0 THEN {} ELSE {e.words[e.readPtr]}

(* The map memory: one cell is written, or none.                           *)
MapNext(map, writes) ==
    [a \in Addrs |-> IF \E w \in writes : w.addr = a
                     THEN (CHOOSE w \in writes : w.addr = a).data
                     ELSE map[a]]

=============================================================================
