-------------------------- MODULE BombQueueProofs --------------------------
(***************************************************************************)
(* For every size of the ring: on the disciplined clock edges queue.sv is  *)
(* a FIFO.  The inductive invariant says that pointers and counter delimit *)
(* one window of the ring and that the window holds the outstanding items. *)
(***************************************************************************)
EXTENDS BombQueue, TLAPS

IInv == QueueTypeOK /\ PointersAgree /\ HoldsOutstanding

(* That a window holds a sequence, said word by word, which is how the     *)
(* steps use it.                                                           *)
LEMMA Pointwise ==
    ASSUME NEW r \in QueueRegs, NEW s \in Seq(Items)
    PROVE  Window(r) = s <=>
             /\ Len(s) = r.count
             /\ \A i \in 1 .. r.count : s[i] = r.mem[Wrap(r.readPtr + i - 1)]
PROOF
<1>1. r.count \in Nat
  BY DEF QueueRegs
<1>2. /\ Len(s) \in Nat
      /\ s = [i \in 1 .. Len(s) |-> s[i]]
  OBVIOUS
<1>3. Len(Window(r)) = r.count
  BY <1>1 DEF Window
<1>4. CASE Window(r) = s
  BY <1>1, <1>3, <1>4 DEF Window
<1>5. ASSUME Len(s) = r.count,
             \A i \in 1 .. r.count : s[i] = r.mem[Wrap(r.readPtr + i - 1)]
      PROVE  Window(r) = s
  BY <1>2, <1>5 DEF Window
<1> QED
  BY <1>4, <1>5

LEMMA InitIInv == QueueInit => IInv
PROOF
<1> SUFFICES ASSUME QueueInit PROVE IInv
  OBVIOUS
<1> USE QueueAssumption
<1>1. QueueTypeOK
  BY DEF QueueInit, QueueTypeOK, PowerUp, QueueRegs, Slots
<1>2. PointersAgree
  BY DEF QueueInit, PointersAgree, PowerUp, Wrap
<1>3. HoldsOutstanding
  BY DEF QueueInit, PowerUp, HoldsOutstanding, Contents, Window
<1> QED
  BY <1>1, <1>2, <1>3 DEF IInv

(* Reset empties both the ring and the history.                            *)
LEMMA ResetStep ==
    ASSUME IInv, NEW we \in BOOLEAN, NEW in \in Items, NEW next \in BOOLEAN,
           QueueClock(TRUE, we, in, next)
    PROVE  IInv'
PROOF
<1> USE QueueAssumption
<1>1. q' = [q EXCEPT !.readPtr = 0, !.writePtr = 0, !.count = 0]
  BY DEF QueueClock, QueueNext
<1>2. outstanding' = << >>
  BY DEF QueueClock
<1>3. QueueTypeOK'
  BY <1>1, <1>2 DEF IInv, QueueTypeOK, QueueRegs, Slots
<1>4. PointersAgree'
  BY <1>1 DEF IInv, QueueTypeOK, QueueRegs, PointersAgree, Wrap
<1>5. q'.count = 0
  BY <1>1 DEF IInv, QueueTypeOK, QueueRegs
<1>6. Contents' = << >>
  BY <1>5 DEF Contents, Window
<1>7. HoldsOutstanding'
  BY <1>2, <1>6 DEF HoldsOutstanding
<1> QED
  BY <1>3, <1>4, <1>7 DEF IInv

(* A put goes to the slot behind the window and the window grows by it.    *)
LEMMA PutStep ==
    ASSUME IInv, NEW in \in Items, NEW next \in BOOLEAN, Room,
           ~Collides(TRUE, next), QueueClock(FALSE, TRUE, in, next)
    PROVE  IInv' /\ outstanding' = Append(outstanding, in)
PROOF
<1> USE QueueAssumption
<1>1. /\ QueueTypeOK /\ q.count = Len(outstanding)
      /\ \A i \in 1 .. q.count :
             outstanding[i] = q.mem[Wrap(q.readPtr + i - 1)]
  BY Pointwise DEF IInv, QueueTypeOK, HoldsOutstanding, Contents
<1>2. q.count < Words /\ q.count < FullAt
  BY <1>1 DEF Room, QueueTypeOK, QueueRegs
<1>3. /\ ~Full(q)
      /\ ~(next /\ ~Empty(q))
  BY <1>2 DEF Full, Collides
<1>4. q' = [mem |-> [q.mem EXCEPT ![q.writePtr] = in], readPtr |-> q.readPtr,
            writePtr |-> Wrap(q.writePtr + 1), count |-> q.count + 1]
  BY <1>3 DEF QueueClock, QueueNext, NextCount
<1>5. (IF next THEN Taken(outstanding) ELSE outstanding) = outstanding
  <2>1. CASE next
    <3>1. q.count = 0
      BY <1>3, <2>1 DEF Empty
    <3>2. outstanding = << >>
      BY <3>1, <1>1 DEF QueueTypeOK
    <3> QED
      BY <3>2 DEF Taken
  <2>2. CASE ~next
    BY <2>2
  <2> QED
    BY <2>1, <2>2
<1>6. outstanding' = Append(outstanding, in)
  BY <1>5 DEF QueueClock
<1>7. QueueTypeOK'
  BY <1>1, <1>2, <1>4, <1>6 DEF QueueTypeOK, QueueRegs, Slots, Wrap
<1>8. PointersAgree'
  BY <1>1, <1>2, <1>4 DEF IInv, QueueTypeOK, QueueRegs, Slots, Wrap, PointersAgree
<1>9. Len(outstanding') = q'.count
  BY <1>1, <1>4, <1>6 DEF QueueTypeOK
<1>10. ASSUME NEW i \in 1 .. q'.count
       PROVE  outstanding'[i] = q'.mem[Wrap(q'.readPtr + i - 1)]
  <2>1. i \in 1 .. q.count + 1 /\ q.readPtr \in Slots /\ q.count \in Nat
    BY <1>1, <1>4 DEF QueueTypeOK, QueueRegs
  <2>2. q.writePtr = Wrap(q.readPtr + q.count)
    BY DEF IInv, PointersAgree
  <2>3. CASE i = q.count + 1
    <3>1. outstanding'[i] = in
      BY <1>1, <1>6, <2>3 DEF QueueTypeOK
    <3>2. Wrap(q.readPtr + i - 1) = q.writePtr
      BY <2>1, <2>2, <2>3 DEF Slots
    <3>3. q.writePtr \in DOMAIN q.mem
      BY <1>1 DEF QueueTypeOK, QueueRegs
    <3> QED
      BY <1>4, <3>1, <3>2, <3>3
  <2>4. CASE i \in 1 .. q.count
    <3>1. outstanding'[i] = outstanding[i]
      BY <1>1, <1>6, <2>4 DEF QueueTypeOK
    <3>2. Wrap(q.readPtr + i - 1) # q.writePtr
      BY <1>2, <2>1, <2>2, <2>4 DEF Slots, Wrap
    <3>3. Wrap(q.readPtr + i - 1) \in Slots
      BY <1>2, <2>1, <2>4 DEF Slots, Wrap
    <3>4. q'.mem[Wrap(q.readPtr + i - 1)] = q.mem[Wrap(q.readPtr + i - 1)]
      BY <1>1, <1>4, <3>2, <3>3 DEF QueueTypeOK, QueueRegs
    <3> QED
      BY <1>1, <1>4, <2>4, <3>1, <3>4
  <2> QED
    BY <2>1, <2>3, <2>4
<1>11. HoldsOutstanding'
  BY <1>7, <1>9, <1>10, Pointwise DEF QueueTypeOK, HoldsOutstanding, Contents
<1> QED
  BY <1>6, <1>7, <1>8, <1>11 DEF IInv

(* A take moves the window's front past the oldest item.                   *)
LEMMA TakeStep ==
    ASSUME IInv, NEW in \in Items, ~Empty(q), QueueClock(FALSE, FALSE, in, TRUE)
    PROVE  /\ IInv'
           /\ outstanding # << >>
           /\ outstanding' = Tail(outstanding)
PROOF
<1> USE QueueAssumption
<1>1. /\ QueueTypeOK /\ q.count = Len(outstanding)
      /\ \A i \in 1 .. q.count :
             outstanding[i] = q.mem[Wrap(q.readPtr + i - 1)]
  BY Pointwise DEF IInv, QueueTypeOK, HoldsOutstanding, Contents
<1>2. q.count \in Nat \ {0} /\ q.count <= Words /\ q.readPtr \in Slots
  BY <1>1 DEF IInv, PointersAgree, Empty, QueueTypeOK, QueueRegs
<1>3. q' = [mem |-> q.mem, readPtr |-> Wrap(q.readPtr + 1),
            writePtr |-> q.writePtr, count |-> q.count - 1]
  BY DEF QueueClock, QueueNext, NextCount
<1>4. outstanding # << >>
  BY <1>1, <1>2 DEF QueueTypeOK
<1>5. outstanding' = Tail(outstanding)
  BY <1>4 DEF QueueClock, Taken
<1>6. /\ outstanding' \in Seq(Items)
      /\ Len(outstanding') = q.count - 1
      /\ \A i \in 1 .. q.count - 1 : outstanding'[i] = outstanding[i + 1]
  BY <1>1, <1>4, <1>5 DEF QueueTypeOK
<1>7. QueueTypeOK'
  BY <1>1, <1>2, <1>3, <1>6 DEF QueueTypeOK, QueueRegs, Slots, Wrap
<1>8. PointersAgree'
  <2>1. Wrap(Wrap(q.readPtr + 1) + (q.count - 1)) = Wrap(q.readPtr + q.count)
    BY <1>2 DEF Slots, Wrap
  <2>2. q.writePtr = Wrap(q.readPtr + q.count)
    BY DEF IInv, PointersAgree
  <2>3. q'.count <= Words
    BY <1>2, <1>3
  <2> QED
    BY <1>3, <2>1, <2>2, <2>3 DEF PointersAgree
<1>9. ASSUME NEW i \in 1 .. q'.count
      PROVE  outstanding'[i] = q'.mem[Wrap(q'.readPtr + i - 1)]
  <2>1. i \in 1 .. q.count - 1 /\ i + 1 \in 1 .. q.count
    BY <1>2, <1>3
  <2>2. Wrap(Wrap(q.readPtr + 1) + i - 1) = Wrap(q.readPtr + (i + 1) - 1)
    BY <1>2, <2>1 DEF Slots, Wrap
  <2> QED
    BY <1>1, <1>3, <1>6, <2>1, <2>2
<1>10. HoldsOutstanding'
  BY <1>3, <1>6, <1>7, <1>9, Pointwise DEF QueueTypeOK, HoldsOutstanding, Contents
<1> QED
  BY <1>4, <1>5, <1>7, <1>8, <1>10 DEF IInv

(* A clock edge with nothing to do leaves everything as it is.             *)
LEMMA IdleStep ==
    ASSUME IInv, NEW in \in Items, NEW next \in BOOLEAN, next => Empty(q),
           QueueClock(FALSE, FALSE, in, next)
    PROVE  IInv' /\ UNCHANGED queueVars
PROOF
<1>1. /\ QueueTypeOK /\ q.count = Len(outstanding)
  BY Pointwise DEF IInv, QueueTypeOK, HoldsOutstanding, Contents
<1>2. q' = q
  BY <1>1 DEF QueueClock, QueueNext, NextCount, QueueTypeOK, QueueRegs
<1>3. outstanding' = outstanding
  <2>1. CASE next
    <3>1. outstanding = << >>
      BY <1>1, <2>1 DEF Empty, QueueTypeOK
    <3> QED
      BY <2>1, <3>1 DEF QueueClock, Taken
  <2>2. CASE ~next
    BY <2>2 DEF QueueClock
  <2> QED
    BY <2>1, <2>2
<1> QED
  BY <1>2, <1>3 DEF queueVars, IInv, QueueTypeOK, PointersAgree, HoldsOutstanding,
                    Contents

(* What one disciplined edge does to the history, and that it keeps the    *)
(* invariant.                                                              *)
LEMMA DisciplinedStep ==
    ASSUME IInv, DisciplinedNext
    PROVE  /\ IInv'
           /\ \/ outstanding' = << >>
              \/ \E in \in Items : /\ Len(outstanding) < Words
                                   /\ outstanding' = Append(outstanding, in)
              \/ outstanding # << >> /\ outstanding' = Tail(outstanding)
              \/ UNCHANGED outstanding
PROOF
<1>1. PICK reset \in BOOLEAN, we \in BOOLEAN, next \in BOOLEAN, in \in Items :
          /\ ~Collides(we, next)
          /\ we => Room
          /\ QueueClock(reset, we, in, next)
  BY DEF DisciplinedNext
<1>2. CASE reset = TRUE
  <2>1. outstanding' = << >>
    BY <1>1, <1>2 DEF QueueClock
  <2> QED
    BY <1>1, <1>2, <2>1, ResetStep
<1>3. CASE reset = FALSE /\ we = TRUE
  BY <1>1, <1>3, PutStep DEF Room
<1>4. CASE reset = FALSE /\ we = FALSE /\ next = TRUE /\ ~Empty(q)
  BY <1>1, <1>4, TakeStep
<1>5. CASE reset = FALSE /\ we = FALSE /\ (next => Empty(q))
  BY <1>1, <1>5, IdleStep DEF queueVars
<1> QED
  BY <1>1, <1>2, <1>3, <1>4, <1>5

LEMMA Invariance == DisciplinedSpec => []IInv
PROOF
<1>1. QueueInit => IInv
  BY InitIInv
<1>2. IInv /\ [DisciplinedNext]_queueVars => IInv'
  <2> SUFFICES ASSUME IInv, [DisciplinedNext]_queueVars PROVE IInv'
    OBVIOUS
  <2>1. CASE DisciplinedNext
    BY <2>1, DisciplinedStep
  <2>2. CASE UNCHANGED queueVars
    BY <2>2 DEF queueVars, IInv, QueueTypeOK, PointersAgree, HoldsOutstanding, Contents
  <2> QED
    BY <2>1, <2>2
<1> QED
  BY <1>1, <1>2, PTL DEF DisciplinedSpec

(* The registers of queue.sv stay in their ranges: no pointer leaves the   *)
(* ring and every word of it holds a bomb.                                 *)
THEOREM QueueTypeCorrect == DisciplinedSpec => []QueueTypeOK
PROOF
  BY Invariance, PTL DEF IInv

(* The window of queue.sv always holds exactly the bombs that were placed  *)
(* and have not been taken, in order, if no put meets a take and at most   *)
(* Words bombs wait.                                                       *)
THEOREM QueueHoldsOutstanding == DisciplinedSpec => []HoldsOutstanding
PROOF
  BY Invariance, PTL DEF IInv

(* Under the same discipline queue.sv implements the FIFO of the report.   *)
THEOREM QueueIsFifo == DisciplinedSpec => FifoPromise
PROOF
<1>1. QueueInit => Promise!Init
  BY DEF QueueInit, Promise!Init, Contents, Window, PowerUp
<1>2. IInv /\ IInv' /\ [DisciplinedNext]_queueVars => [Promise!Next]_Contents
  <2> SUFFICES ASSUME IInv, IInv', [DisciplinedNext]_queueVars
               PROVE  [Promise!Next]_Contents
    OBVIOUS
  <2>1. Contents = outstanding /\ Contents' = outstanding'
    BY DEF IInv, HoldsOutstanding
  <2>2. CASE DisciplinedNext
    BY <2>1, <2>2, DisciplinedStep
       DEF Promise!Next, Promise!Put, Promise!Take, Promise!Clear
  <2>3. CASE UNCHANGED queueVars
    BY <2>1, <2>3 DEF queueVars
  <2> QED
    BY <2>2, <2>3
<1> QED
  BY <1>1, <1>2, Invariance, PTL DEF DisciplinedSpec, FifoPromise, Promise!Spec

=============================================================================
