----------------------------- MODULE BombQueue -----------------------------
(***************************************************************************)
(* One queue of BombManager.sv on its own: queue.sv clocked by any         *)
(* sequence of we, next and Reset.  `outstanding` is a history variable:   *)
(* what was put in since the last Reset and has not been taken out, in     *)
(* order.                                                                  *)
(***************************************************************************)
EXTENDS Queue, Sequences

VARIABLES q,            \* the registers of the queue
          outstanding   \* history: the items a FIFO would hold

queueVars == <<q, outstanding>>

(* What registers r offer at the output from now on, were they only read.  *)
Window(r) == [i \in 1 .. r.count |-> r.mem[Wrap(r.readPtr + i - 1)]]

Contents == Window(q)

QueueInit == /\ q = PowerUp
             /\ outstanding = << >>

Taken(s) == IF s = << >> THEN s ELSE Tail(s)

(* One clock edge.  A reader that believes the queue is a FIFO expects     *)
(* `outstanding`; Reset forgets everything.                                *)
QueueClock(reset, we, in, next) ==
    /\ q' = QueueNext(q, reset, we, in, next)
    /\ outstanding' =
         LET left == IF next THEN Taken(outstanding) ELSE outstanding
         IN  IF reset THEN << >>
             ELSE IF we THEN Append(left, in) ELSE left

(* Put and take on one edge are possible: WE2 is decided by the key and    *)
(* the cooldown, next by the timer (BombManager.sv:26, 81, 106).           *)
Collides(we, next) == we /\ next /\ ~Empty(q)

Room == Len(outstanding) < Words

(* The longest history the model follows.                                  *)
Bounded == Len(outstanding) <= Words

(* The clock edges on which the queue keeps its promise: no item is put in *)
(* on the edge on which another is taken, and at most Words items wait.    *)
DisciplinedNext == \E reset, we, next \in BOOLEAN, in \in Items :
                       /\ ~Collides(we, next)
                       /\ we => Room
                       /\ QueueClock(reset, we, in, next)

(* Only the first half of the discipline: never more than Words items wait.*)
RoomyNext == \E reset, we, next \in BOOLEAN, in \in Items :
                 /\ we => Room
                 /\ QueueClock(reset, we, in, next)

(* Only the second half: no put meets a take.                              *)
ApartNext == \E reset, we, next \in BOOLEAN, in \in Items :
                 /\ Bounded
                 /\ ~Collides(we, next)
                 /\ QueueClock(reset, we, in, next)

DisciplinedSpec == QueueInit /\ [][DisciplinedNext]_queueVars
RoomySpec       == QueueInit /\ [][RoomyNext]_queueVars
ApartSpec       == QueueInit /\ [][ApartNext]_queueVars

-----------------------------------------------------------------------------
QueueTypeOK == /\ q \in QueueRegs
               /\ outstanding \in Seq(Items)

(* The items the pointers and the counter delimit are exactly the bombs    *)
(* that were placed and have not been taken, in the order of placement.    *)
HoldsOutstanding == Contents = outstanding

(* The counter, which decides `empty` and so whether a bomb can explode,   *)
(* agrees with the number of bombs that wait.                              *)
CountsOutstanding == q.count = Len(outstanding)

(* The pointers and the counter describe one window of the ring.           *)
PointersAgree == /\ q.count <= Words
                 /\ q.writePtr = Wrap(q.readPtr + q.count)

(* The queue implements a FIFO of Words items.                             *)
Promise == INSTANCE Fifo WITH items <- Contents, Capacity <- Words
FifoPromise == Promise!Spec

=============================================================================
