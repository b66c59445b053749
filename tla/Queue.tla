------------------------------- MODULE Queue -------------------------------
(***************************************************************************)
(* queue.sv: the ring buffer that holds the bombs of one player.  A        *)
(* register transfer is an operator from the registers and the inputs of a *)
(* clock cycle to the registers of the next one, so that the modules that  *)
(* instantiate queues can step several of them on one clock edge.          *)
(*                                                                         *)
(* BombManager.sv runs three queues per player (address, time, size) from  *)
(* the same we, next and Reset: they move in lockstep, and here they are   *)
(* one queue whose items are records.                                      *)
(*                                                                         *)
(* `mem` is declared [ADDR_WIDTH], which is 8 words and not 2^8; the       *)
(* pointers are ADDR_WIDTH bits wide.  The synthesised memory decodes only *)
(* their low three bits, so a pointer is kept modulo Words.                *)
(***************************************************************************)
EXTENDS Naturals

CONSTANTS Words,    \* words of mem: ADDR_WIDTH, 8 in every instance
          FullAt,   \* the count at which `full` rises: 2^ADDR_WIDTH, 256
          Items,    \* what a word holds
          Blank     \* the content of a word at power up

ASSUME QueueAssumption ==
    /\ Words \in Nat \ {0}
    /\ FullAt \in Nat
    /\ Words <= FullAt
    /\ Blank \in Items

Slots == 0 .. Words - 1

QueueRegs == [mem : [Slots -> Items], readPtr : Slots, writePtr : Slots,
              count : 0 .. FullAt]

PowerUp == [mem |-> [s \in Slots |-> Blank], readPtr |-> 0, writePtr |-> 0,
            count |-> 0]

(* Slot p + i of the ring, for a slot p and i at most Words.               *)
Unwrapped(i) == i                                              \* mutant
WrapEarly(i) == IF i >= Words - 1 THEN i - (Words - 1) ELSE i  \* mutant
Wrap(i) == IF i >= Words THEN i - Words ELSE i

Empty(q) == q.count = 0
Full(q)  == q.count = FullAt
Out(q)   == q.mem[q.readPtr]

(* The counter is assigned by each of the two branches of the always_ff    *)
(* block; when both run, the second assignment is the one that takes       *)
(* effect.                                                                 *)
NoTakeCount(q, push, pop) == IF push THEN q.count + 1 ELSE q.count  \* mutant
NextCount(q, push, pop) ==
    IF pop THEN q.count - 1 ELSE IF push THEN q.count + 1 ELSE q.count

(* One rising edge of Clk.                                                 *)
QueueNext(q, reset, we, in, next) ==
    LET push == we /\ ~Full(q)
        pop  == next /\ ~Empty(q)
    IN  IF reset
        THEN [q EXCEPT !.readPtr = 0, !.writePtr = 0, !.count = 0]
        ELSE [mem      |-> IF push THEN [q.mem EXCEPT ![q.writePtr] = in]
                           ELSE q.mem,
              readPtr  |-> IF pop THEN Wrap(q.readPtr + 1) ELSE q.readPtr,
              writePtr |-> IF push THEN Wrap(q.writePtr + 1) ELSE q.writePtr,
              count    |-> NextCount(q, push, pop)]

=============================================================================
