------------------------------ MODULE MC_Rings ------------------------------
(***************************************************************************)
(* The two rings of the hardware in one run, each on its own: MapEditor's  *)
(* ring of requests and the ring of bombs of one player.                   *)
(*                                                                         *)
(* All six ports of the program write a map of two cells.  Every port has  *)
(* its own mark, so that a write that comes out of turn is seen, the even  *)
(* ports on one cell and the odd ones on the other.  The ring has 8 words: *)
(* 2 + 4 requests is the most that can wait, and the pointers wrap all the *)
(* time.                                                                   *)
(***************************************************************************)
EXTENDS MapEditor, BombQueue

VARIABLE ring   \* the one that is clocked

PacedPorts    == {0, 1}
SporadicPorts == 2 .. 5
Marks         == 0 .. 6
Fresh         == [a \in 0 .. 1 |-> 6]

PortAsks      == {[p \in 0 .. 5 |-> [addr |-> p % 2, data |-> p]]}

ClockRings == \/ ring = "requests" /\ Next /\ UNCHANGED <<queueVars, ring>>
              \/ ring = "bombs" /\ DisciplinedNext /\ UNCHANGED <<vars, ring>>

RingsInit == Init /\ QueueInit /\ ring \in {"requests", "bombs"}

Rings == RingsInit /\ [][ClockRings]_<<vars, queueVars, ring>>

(* Two states that differ only in words that are not waiting behave alike: *)
(* a word outside the window is overwritten before it is read.             *)
Waiting == [i \in 1 .. e.count |-> e.words[Around(e.readPtr + i - 1)]]
Seen    == <<e.state, e.reset_addr, e.readPtr, e.writePtr, Waiting,
             map, last, spent, log, queueVars, ring>>

=============================================================================
