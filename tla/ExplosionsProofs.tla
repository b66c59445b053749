-------------------------- MODULE ExplosionsProofs --------------------------
(***************************************************************************)
(* Proofs about the explosions, for every map, every set of bombs whose    *)
(* crosses fit on the board, and every width of the timer: types and the   *)
(* walk along the arms; the flames, which all have an explosion that will  *)
(* clear them; and the cells that burn, which are those of the rules.      *)
(***************************************************************************)
EXTENDS Explosions, MapLemmas

-----------------------------------------------------------------------------
(***************************************************************************)
(* The cells of a cross.                                                   *)
(***************************************************************************)
Offset(arm) == <<AddrSpan - Stride, Stride, AddrSpan - 1, 1>>[arm]

(* How far the cell k steps from the centre is from it.                    *)
Shift(arm, k) == CASE arm = 1 -> -(k * Stride)
                   [] arm = 2 -> k * Stride
                   [] arm = 3 -> -k
                   [] arm = 4 -> k

LEMMA Multiples ==
    ASSUME NEW s \in Nat, NEW j \in 1 .. 4, NEW k \in 1 .. 4
    PROVE  /\ j * s \in Nat /\ s <= j * s
           /\ j <= k => j * s <= k * s
           /\ s > 0 /\ j * s = k * s => j = k
  <1>1. j \in {1, 2, 3, 4} /\ k \in {1, 2, 3, 4}
    OBVIOUS
  <1>2. /\ 1 * s = s /\ 2 * s = s + s /\ 3 * s = s + s + s
        /\ 4 * s = s + s + s + s
    OBVIOUS
  <1> QED BY <1>1, <1>2

BoardOK == SpansOK /\ Stride > 0

(* Two cells of an arm or of two arms are as far apart as their shifts say.*)
LEMMA Shifted ==
    ASSUME BoardOK, Stride <= AddrSpan, NEW c \in Cells, NEW arm \in Arms, NEW k \in 0 .. 4
    PROVE  /\ c + k * Offset(arm) \in Nat
           /\ Offset(arm) \in Nat
           /\ CellAt(c, arm, k) = (c + k * Offset(arm)) % AddrSpan
           /\ Shift(arm, k) \in Int
           /\ \E q \in Int : c + k * Offset(arm) = (c + Shift(arm, k)) + q * AddrSpan
  <1>1. arm \in {1, 2, 3, 4} /\ c \in Nat /\ AddrSpan \in Nat /\ Stride \in Nat
    BY DEF Arms, Cells, BoardOK, SpansOK
  <1>2. Offset(arm) \in Nat
    BY <1>1 DEF Offset, BoardOK, SpansOK
  <1>3. k * Offset(arm) \in Nat
    BY <1>2
  <1>4. CellAt(c, arm, k) = (c + k * Offset(arm)) % AddrSpan
    BY DEF CellAt, Offset
  <1>5. k * Stride \in Nat /\ k * AddrSpan \in Nat
    BY <1>1
  <1>6. Shift(arm, k) \in Int
    BY <1>1, <1>5 DEF Shift
  <1>7. \E q \in Int : c + k * Offset(arm) = (c + Shift(arm, k)) + q * AddrSpan
    <2>1. CASE arm = 1
      <3>1. k * (AddrSpan - Stride) = k * AddrSpan - k * Stride
        BY <1>1
      <3>2. c + k * Offset(arm) = (c + Shift(arm, k)) + k * AddrSpan
        BY <1>1, <1>5, <2>1, <3>1 DEF Offset, Shift
      <3> QED BY <3>2
    <2>2. CASE arm = 2
      <3>1. c + k * Offset(arm) = (c + Shift(arm, k)) + 0 * AddrSpan
        BY <1>1, <1>5, <2>2 DEF Offset, Shift
      <3> QED BY <3>1
    <2>3. CASE arm = 3
      <3>1. k * (AddrSpan - 1) = k * AddrSpan - k
        BY <1>1
      <3>2. c + k * Offset(arm) = (c + Shift(arm, k)) + k * AddrSpan
        BY <1>1, <1>5, <2>3, <3>1 DEF Offset, Shift
      <3> QED BY <3>2
    <2>4. CASE arm = 4
      <3>1. c + k * Offset(arm) = (c + Shift(arm, k)) + 0 * AddrSpan
        BY <1>1, <2>4 DEF Offset, Shift
      <3> QED BY <3>1
    <2> QED BY <1>1, <2>1, <2>2, <2>3, <2>4
  <1>8. c + k * Offset(arm) \in Nat
    BY <1>1, <1>3
  <1> QED BY ONLY <1>2, <1>4, <1>6, <1>7, <1>8

(* The neighbour of a cell of an arm is the next cell of the arm.          *)
LEMMA OneOn ==
    ASSUME BoardOK, Stride <= AddrSpan, NEW c \in Cells, NEW arm \in Arms, NEW k \in 0 .. 3
    PROVE  Toward(arm, CellAt(c, arm, k)) = CellAt(c, arm, k + 1)
  <1>1. AddrSpan \in Nat \ {0}
    BY DEF BoardOK, SpansOK
  <1>2. /\ c + k * Offset(arm) \in Nat /\ Offset(arm) \in Nat
        /\ CellAt(c, arm, k) = (c + k * Offset(arm)) % AddrSpan
    BY Shifted
  <1>3. CellAt(c, arm, k + 1) = (c + (k + 1) * Offset(arm)) % AddrSpan
    BY Shifted
  <1>4. Toward(arm, CellAt(c, arm, k)) = (CellAt(c, arm, k) + Offset(arm)) % AddrSpan
    BY DEF Toward, Offset
  <1>5. c + (k + 1) * Offset(arm) = (c + k * Offset(arm)) + Offset(arm)
    BY <1>2 DEF Cells
  <1>6. (((c + k * Offset(arm)) % AddrSpan) + Offset(arm)) % AddrSpan
          = ((c + k * Offset(arm)) + Offset(arm)) % AddrSpan
    BY ONLY <1>1, <1>2, RestAdds
  <1> QED BY <1>2, <1>3, <1>4, <1>5, <1>6

LEMMA NoStep ==
    ASSUME BoardOK, Stride <= AddrSpan, NEW c \in Cells, NEW arm \in Arms
    PROVE  CellAt(c, arm, 0) = c
  <1>1. CellAt(c, arm, 0) = (c + 0 * Offset(arm)) % AddrSpan /\ Offset(arm) \in Nat
    BY Shifted
  <1>2. c + 0 * Offset(arm) = c /\ c \in 0 .. AddrSpan - 1 /\ AddrSpan \in Nat
    BY <1>1 DEF Cells, BoardOK, SpansOK
  <1>3. c % AddrSpan = c
    BY <1>2
  <1> QED BY <1>1, <1>2, <1>3

(* Cells that are the same are shifted alike, if the cross fits.           *)
LEMMA SameShift ==
    ASSUME BoardOK, NEW n \in Sizes, Fits(n), NEW c \in Cells,
           NEW a \in Arms, NEW j \in 0 .. n + 1, NEW b \in Arms, NEW k \in 0 .. n + 1,
           CellAt(c, a, j) = CellAt(c, b, k)
    PROVE  Shift(a, j) = Shift(b, k)
  <1>1. /\ n \in Nat /\ n + 1 \in 1 .. 4 /\ j \in 0 .. 4 /\ k \in 0 .. 4
        /\ c \in Nat /\ AddrSpan \in Nat \ {0} /\ Stride \in Nat
    BY DEF Sizes, Cells, BoardOK, SpansOK
  <1>2. /\ (n + 1) * Stride \in Nat /\ Stride <= (n + 1) * Stride
        /\ n + 1 < Stride
        /\ 2 * ((n + 1) * Stride) < AddrSpan
    <2>1. (n + 1) * Stride \in Nat /\ Stride <= (n + 1) * Stride
      BY <1>1, Multiples
    <2>2. 2 * (n + 1) * Stride = 2 * ((n + 1) * Stride)
      BY <1>1
    <2> QED BY <2>1, <2>2 DEF Fits
  <1>3. ASSUME NEW arm \in Arms, NEW i \in 0 .. n + 1
        PROVE  /\ Shift(arm, i) \in Int
               /\ -((n + 1) * Stride) <= Shift(arm, i) /\ Shift(arm, i) <= (n + 1) * Stride
    <2>1. i * Stride \in Nat /\ i * Stride <= (n + 1) * Stride
      <3>1. CASE i = 0
        BY <1>1, <1>2, <3>1
      <3>2. CASE i \in 1 .. 4
        BY <1>1, <1>3, <3>2, Multiples
      <3> QED BY <1>1, <1>3, <3>1, <3>2
    <2>2. arm \in {1, 2, 3, 4}
      BY DEF Arms
    <2> QED BY <1>1, <1>2, <2>1, <2>2 DEF Shift
  <1>4. Stride <= AddrSpan
    BY <1>1, <1>2
  <1>5. PICK q \in Int : c + j * Offset(a) = (c + Shift(a, j)) + q * AddrSpan
    BY <1>1, <1>4, Shifted
  <1>6. PICK p \in Int : c + k * Offset(b) = (c + Shift(b, k)) + p * AddrSpan
    BY <1>1, <1>4, Shifted
  <1>7. /\ c + j * Offset(a) \in Nat /\ c + k * Offset(b) \in Nat
        /\ (c + j * Offset(a)) % AddrSpan = (c + k * Offset(b)) % AddrSpan
    <2>1. /\ c + j * Offset(a) \in Nat
          /\ CellAt(c, a, j) = (c + j * Offset(a)) % AddrSpan
      BY <1>1, <1>4, Shifted
    <2>2. /\ c + k * Offset(b) \in Nat
          /\ CellAt(c, b, k) = (c + k * Offset(b)) % AddrSpan
      BY <1>1, <1>4, Shifted
    <2> QED BY <2>1, <2>2, Zenon
  <1>8. PICK t \in Int : (c + j * Offset(a)) - (c + k * Offset(b)) = t * AddrSpan
    BY <1>1, <1>7, SameRest
  <1> DEFINE d == Shift(a, j) - Shift(b, k)
  <1>9. Shift(a, j) \in Int /\ Shift(b, k) \in Int /\ d \in Int
    BY <1>3
  <1>10. d = t * AddrSpan - q * AddrSpan + p * AddrSpan
    <2>1. q * AddrSpan \in Int /\ p * AddrSpan \in Int /\ t * AddrSpan \in Int
      BY <1>1
    <2> QED BY <1>1, <1>5, <1>6, <1>7, <1>8, <1>9, <2>1
  <1>11. d = (t - q + p) * AddrSpan /\ t - q + p \in Int
    BY <1>1, <1>10
  <1>12. -AddrSpan < d /\ d < AddrSpan
    BY <1>1, <1>2, <1>3
  <1>13. d = 0
    BY ONLY <1>1, <1>9, <1>11, <1>12, SmallMultiple
  <1> QED BY <1>9, <1>13

LEMMA CellsApart ==
    ASSUME BoardOK, NEW n \in Sizes, Fits(n), NEW c \in Cells,
           NEW a \in Arms, NEW j \in 1 .. n + 1, NEW b \in Arms, NEW k \in 1 .. n + 1,
           CellAt(c, a, j) = CellAt(c, b, k)
    PROVE  a = b /\ j = k
  <1>1. j \in 0 .. n + 1 /\ k \in 0 .. n + 1 /\ j \in 1 .. 4 /\ k \in 1 .. 4
        /\ n + 1 < Stride /\ Stride \in Nat /\ j < Stride /\ k < Stride
    BY DEF Sizes, Fits, BoardOK, SpansOK
  <1>2. Shift(a, j) = Shift(b, k)
    BY <1>1, SameShift
  <1>3. /\ j * Stride \in Nat /\ k * Stride \in Nat
        /\ Stride <= j * Stride /\ Stride <= k * Stride
        /\ j * Stride = k * Stride => j = k
    BY <1>1, Multiples
  <1>4. a \in {1, 2, 3, 4} /\ b \in {1, 2, 3, 4}
    BY DEF Arms
  <1> QED BY <1>1, <1>2, <1>3, <1>4 DEF Shift

LEMMA CentreApart ==
    ASSUME BoardOK, NEW n \in Sizes, Fits(n), NEW c \in Cells,
           NEW a \in Arms, NEW j \in 1 .. n + 1
    PROVE  CellAt(c, a, j) # c
  <1>1. /\ j \in 0 .. n + 1 /\ j \in 1 .. 4 /\ Stride \in Nat /\ 0 \in 0 .. n + 1
        /\ AddrSpan \in Nat
    BY DEF Sizes, BoardOK, SpansOK
  <1>2. j * Stride \in Nat /\ Stride <= j * Stride /\ Stride > 0
    BY <1>1, Multiples DEF BoardOK
  <1>3. Shift(a, j) # Shift(a, 0)
    <2>1. a \in {1, 2, 3, 4} /\ 0 * Stride = 0
      BY <1>1 DEF Arms
    <2> QED BY <1>1, <1>2, <2>1 DEF Shift
  <1>4. Stride <= AddrSpan
    <2>1. n + 1 \in 1 .. 4
      BY DEF Sizes
    <2>2. Stride <= (n + 1) * Stride /\ (n + 1) * Stride \in Nat
      BY <1>1, <2>1, Multiples
    <2>3. 2 * (n + 1) * Stride = 2 * ((n + 1) * Stride)
      BY <1>1, <2>1
    <2> QED BY <1>1, <2>2, <2>3 DEF Fits
  <1>5. CellAt(c, a, 0) = c
    BY <1>4, NoStep
  <1> QED BY <1>1, <1>3, <1>5, SameShift

-----------------------------------------------------------------------------
(***************************************************************************)
(* One explosion.  r holds its registers and B the cells it has set on     *)
(* fire: those of the arms before this one and, on this arm, those before  *)
(* the cell k steps from the centre.                                       *)
(***************************************************************************)
BurnedBefore(r, B, k) ==
    \A c \in B : \E a \in Arms, j \in 1 .. r.length + 1 :
        /\ c = CellAt(r.coords, a, j)
        /\ a < r.arm \/ (a = r.arm /\ j < k)

OnArms(r, B) == \A c \in B : \E a \in Arms, j \in 1 .. r.length + 1 :
                    c = CellAt(r.coords, a, j)

(* In ARM the explosion stands k steps from the centre, and writes there   *)
(* or has done so; a count of 7 ends the arm early.                        *)
ArmOK(r, B) ==
    \E k \in 0 .. r.length + 1 :
        /\ r.Address = CellAt(r.coords, r.arm, k)
        /\ r.count = 7 \/ r.count = FirstCount(r.length) + k
        /\ r.WE_O => k > 0
        /\ BurnedBefore(r, B, IF r.WE_O THEN k ELSE k + 1)

ReplaceOK(r, B) ==
    \E k \in 1 .. r.length + 1 :
        /\ r.Address = CellAt(r.coords, r.arm, k)
        /\ r.count = FirstCount(r.length) + k
        /\ BurnedBefore(r, B, k)

BurningOK(r, B) ==
    /\ r.phase # "START" => Fits(r.length)
    /\ r.phase = "ARM" => ArmOK(r, B)
    /\ r.phase = "REPLACE" => ReplaceOK(r, B)
    /\ r.phase = "MID" \/ (r.phase = "WAIT" /\ r.WE_O)
          => r.Address = r.coords /\ OnArms(r, B)

(* While it clears, it writes no flame; and only after some phases does it *)
(* write at all.                                                           *)
WritingOK(r, p) ==
    /\ r.WE_O => r.phase \in {"START", "ARM", "WAIT", "C_ARM"}
    /\ r.WE_O /\ r.phase \in {"START", "C_ARM"} => r.Data_O # flame(p)

BurnedNext(r, B, p, in) ==
    IF Ignites(r, in) THEN {}
    ELSE IF r.WE_O /\ r.Data_O = flame(p) THEN B \union {r.Address} ELSE B

(* The registers after each phase.                                         *)
LEMMA IdleFields ==
    ASSUME NEW r \in Regs, NEW p
    PROVE  LET y == Idle(r, p)
           IN  /\ y.phase = r.phase /\ y.coords = r.coords /\ y.length = r.length
               /\ y.Address = r.coords /\ ~y.WE_O /\ y.arm = 1
               /\ y.Data_O = flame(p) /\ y.clear_time = r.clear_time
  BY DEF Regs, Idle

LEMMA StartFields ==
    ASSUME NEW r \in Regs, NEW p \in Players, NEW in, in.ready
    PROVE  LET y == StartNext(r, p, in)
           IN  /\ y.phase = "ARM" /\ y.coords = in.coordinate /\ y.length = in.length
               /\ y.Address = in.coordinate /\ ~y.WE_O /\ y.arm = 1
               /\ y.count = FirstCount(in.length)
               /\ y.clear_time = ClearTime(in.timer)
  <1>1. Idle(r, p) \in Regs /\ ~Idle(r, p).WE_O /\ Idle(r, p).arm = 1
    BY IdleStays, IdleFields
  <1> QED BY ONLY <1>1, in.ready DEF Regs, StartNext

LEMMA OnFields ==
    ASSUME NEW r \in Regs, NEW p \in Players, NEW look, NEW centre, ~ArmEnded(r)
    PROVE  LET y == ArmNext(r, p, look, centre)
           IN  /\ y.phase = look /\ y.coords = r.coords /\ y.length = r.length
               /\ y.Address = Toward(r.arm, r.Address) /\ ~y.WE_O
               /\ y.arm = r.arm /\ y.count = r.count + 1
               /\ y.clear_time = r.clear_time
  <1>1. /\ Idle(r, p) \in Regs /\ ~Idle(r, p).WE_O
        /\ Idle(r, p).coords = r.coords /\ Idle(r, p).length = r.length
        /\ Idle(r, p).clear_time = r.clear_time
    BY IdleStays, IdleFields
  <1> QED BY ONLY <1>1, ~ArmEnded(r) DEF Regs, ArmNext

LEMMA TurnFields ==
    ASSUME NEW r \in Regs, NEW p \in Players, NEW look, NEW centre, ArmEnded(r), r.arm < 4
    PROVE  LET y == ArmNext(r, p, look, centre)
           IN  /\ y.phase = r.phase /\ y.coords = r.coords /\ y.length = r.length
               /\ y.Address = r.coords /\ ~y.WE_O
               /\ y.arm = r.arm + 1 /\ y.count = FirstCount(r.length)
               /\ y.clear_time = r.clear_time
  <1>1. /\ Idle(r, p) \in Regs /\ ~Idle(r, p).WE_O
        /\ Idle(r, p).clear_time = r.clear_time
        /\ Idle(r, p).coords = r.coords /\ Idle(r, p).length = r.length
        /\ Idle(r, p).Address = r.coords /\ Idle(r, p).phase = r.phase
    BY IdleStays, IdleFields
  <1> QED BY ONLY <1>1, ArmEnded(r), r.arm < 4 DEF Regs, ArmNext

LEMMA LastFields ==
    ASSUME NEW r \in Regs, NEW p \in Players, NEW look, NEW centre, ArmEnded(r), ~(r.arm < 4)
    PROVE  LET y == ArmNext(r, p, look, centre)
           IN  /\ y.phase = centre /\ y.coords = r.coords /\ y.length = r.length
               /\ y.Address = r.coords /\ ~y.WE_O /\ y.clear_time = r.clear_time
  <1>1. /\ Idle(r, p) \in Regs /\ ~Idle(r, p).WE_O
        /\ Idle(r, p).clear_time = r.clear_time
        /\ Idle(r, p).coords = r.coords /\ Idle(r, p).length = r.length
        /\ Idle(r, p).Address = r.coords
    BY IdleStays, IdleFields
  <1> QED BY ONLY <1>1, ArmEnded(r), ~(r.arm < 4) DEF Regs, ArmNext

LEMMA ReplaceFields ==
    ASSUME NEW r \in Regs, NEW p \in Players, NEW in
    PROVE  LET y == ReplaceNext(r, p, in)
           IN  /\ y.phase = "ARM" /\ y.coords = r.coords /\ y.length = r.length
               /\ y.Address = r.Address /\ y.arm = r.arm
               /\ y.count = (IF StopsFire(in.Data_IN) THEN 7 ELSE r.count)
               /\ (y.WE_O <=> in.Data_IN \notin {wall, bomb})
               /\ y.Data_O = flame(p) /\ y.clear_time = r.clear_time
  <1>1. /\ Idle(r, p) \in Regs /\ Idle(r, p).coords = r.coords
        /\ Idle(r, p).length = r.length /\ Idle(r, p).Data_O = flame(p)
        /\ Idle(r, p).clear_time = r.clear_time
    BY IdleStays, IdleFields
  <1> QED BY ONLY <1>1 DEF Regs, ReplaceNext

LEMMA MidFields ==
    ASSUME NEW r \in Regs, NEW p \in Players
    PROVE  LET y == MidNext(r, p)
           IN  /\ y.phase = "WAIT" /\ y.coords = r.coords /\ y.length = r.length
               /\ y.Address = r.Address /\ y.WE_O /\ y.Data_O = flame(p)
               /\ y.clear_time = r.clear_time
  <1>1. /\ Idle(r, p) \in Regs /\ Idle(r, p).coords = r.coords
        /\ Idle(r, p).length = r.length /\ Idle(r, p).Data_O = flame(p)
        /\ Idle(r, p).clear_time = r.clear_time
    BY IdleStays, IdleFields
  <1> QED BY ONLY <1>1 DEF Regs, MidNext

LEMMA WaitFields ==
    ASSUME NEW r \in Regs, NEW p \in Players, NEW in
    PROVE  LET y == WaitNext(r, p, in)
           IN  /\ y.phase = (IF in.timer = r.clear_time THEN "C_ARM" ELSE r.phase)
               /\ y.coords = r.coords /\ y.length = r.length /\ y.Address = r.coords
               /\ ~y.WE_O /\ y.arm = 1 /\ y.clear_time = r.clear_time
               /\ in.timer = r.clear_time => y.count = FirstCount(r.length)
  <1>1. /\ Idle(r, p) \in Regs /\ ~Idle(r, p).WE_O /\ Idle(r, p).arm = 1
        /\ Idle(r, p).phase = r.phase /\ Idle(r, p).length = r.length
        /\ Idle(r, p).coords = r.coords /\ Idle(r, p).Address = r.coords
        /\ Idle(r, p).clear_time = r.clear_time
    BY IdleStays, IdleFields
  <1> QED BY ONLY <1>1 DEF Regs, WaitNext

LEMMA ClearFields ==
    ASSUME NEW r \in Regs, NEW p \in Players, NEW in
    PROVE  LET y == ClearNext(r, p, in)
           IN  /\ y.phase = "C_ARM" /\ y.coords = r.coords /\ y.length = r.length
               /\ y.Address = r.Address /\ y.arm = r.arm
               /\ y.count = (IF in.Data_IN = wall THEN 7 ELSE r.count)
               /\ (y.WE_O <=> Own(p, in.Data_IN))
               /\ Own(p, in.Data_IN) => y.Data_O = Remains(p, in)
               /\ y.clear_time = r.clear_time
  <1>1. /\ Idle(r, p) \in Regs /\ Idle(r, p).length = r.length
        /\ Idle(r, p).coords = r.coords /\ Idle(r, p).clear_time = r.clear_time
    BY IdleStays, IdleFields
  <1> QED BY ONLY <1>1 DEF Regs, ClearNext

LEMMA ClearMidFields ==
    ASSUME NEW r \in Regs, NEW p \in Players, NEW in
    PROVE  LET y == ClearMidNext(r, p, in)
           IN  /\ y.phase = "START" /\ y.WE_O /\ y.Data_O = Remains(p, in)
               /\ y.Address = r.Address
  <1>1. Idle(r, p) \in Regs
    BY IdleStays
  <1> QED BY ONLY <1>1 DEF Regs, ClearMidNext

LEMMA RemainsNoFlame ==
    ASSUME NEW p \in Players, NEW in
    PROVE  Remains(p, in) # flame(p)
  BY DEF Remains, flame, item, path, Players

LEMMA FitsSpan ==
    ASSUME BoardOK, NEW n \in Sizes, Fits(n)
    PROVE  Stride <= AddrSpan
  <1>1. n + 1 \in 1 .. 4 /\ Stride \in Nat /\ AddrSpan \in Nat
    BY DEF Sizes, BoardOK, SpansOK
  <1>2. Stride <= (n + 1) * Stride /\ (n + 1) * Stride \in Nat
    BY <1>1, Multiples
  <1>3. 2 * (n + 1) * Stride = 2 * ((n + 1) * Stride)
    BY <1>1
  <1> QED BY <1>1, <1>2, <1>3 DEF Fits

LEMMA BurnedLater ==
    ASSUME NEW r \in Regs, NEW B, NEW k \in 0 .. 5, BurnedBefore(r, B, k)
    PROVE  BurnedBefore(r, B, k + 1)
  <1>1. r.length \in Nat
    BY RegsOf DEF Sizes
  <1>2. \A j \in 1 .. r.length + 1 : j < k => j < k + 1
    BY <1>1
  <1> QED BY <1>2 DEF BurnedBefore

(* The write of an explosion in ARM adds the cell it stands on.            *)
LEMMA ArmBurns ==
    ASSUME NEW r \in Regs, NEW B, NEW p, NEW in, r.phase = "ARM",
           NEW k \in 0 .. r.length + 1, r.Address = CellAt(r.coords, r.arm, k),
           r.WE_O => k > 0, BurnedBefore(r, B, IF r.WE_O THEN k ELSE k + 1)
    PROVE  BurnedBefore(r, BurnedNext(r, B, p, in), k + 1)
  <1>1. ~Ignites(r, in)
    BY DEF Ignites
  <1>2. r.length \in 0 .. 3 /\ k \in 0 .. 5 /\ r.arm \in Arms
    BY RegsOf DEF Sizes
  <1>3. BurnedBefore(r, B, k + 1)
    BY <1>2, BurnedLater
  <1>4. CASE r.WE_O /\ r.Data_O = flame(p)
    <2>1. BurnedNext(r, B, p, in) = B \union {r.Address}
      BY <1>1, <1>4 DEF BurnedNext
    <2>2. k \in 1 .. r.length + 1 /\ k < k + 1
      BY <1>2, <1>4
    <2>3. \E a \in Arms, j \in 1 .. r.length + 1 :
             /\ r.Address = CellAt(r.coords, a, j)
             /\ a < r.arm \/ (a = r.arm /\ j < k + 1)
      BY <1>2, <2>2
    <2> QED BY <1>3, <2>1, <2>3 DEF BurnedBefore
  <1>5. CASE ~(r.WE_O /\ r.Data_O = flame(p))
    BY <1>1, <1>3, <1>5 DEF BurnedNext
  <1> QED BY <1>4, <1>5

LEMMA ArmStep ==
    ASSUME BoardOK, NEW r \in Regs, NEW p \in Players, NEW in, NEW B,
           r.phase = "ARM", BurningOK(r, B)
    PROVE  LET y == ArmNext(r, p, "REPLACE", "MID")
           IN  BurningOK(y, BurnedNext(r, B, p, in)) /\ WritingOK(y, p)
  <1> DEFINE y == ArmNext(r, p, "REPLACE", "MID")
             C == BurnedNext(r, B, p, in)
  <1>1. /\ r.length \in Sizes /\ r.length \in 0 .. 3 /\ r.arm \in Arms /\ r.coords \in Cells
        /\ r.arm \in 1 .. 4
    BY RegsOf DEF Sizes, Arms
  <1>2. Fits(r.length) /\ ArmOK(r, B)
    BY DEF BurningOK
  <1>3. Stride <= AddrSpan
    BY <1>1, <1>2, FitsSpan
  <1>4. PICK k \in 0 .. r.length + 1 :
          /\ r.Address = CellAt(r.coords, r.arm, k)
          /\ r.count = 7 \/ r.count = FirstCount(r.length) + k
          /\ r.WE_O => k > 0
          /\ BurnedBefore(r, B, IF r.WE_O THEN k ELSE k + 1)
    BY <1>2 DEF ArmOK
  <1>5. BurnedBefore(r, C, k + 1)
    BY <1>4, ArmBurns
  <1> HIDE DEF C
  <1>6. CASE ~ArmEnded(r)
    <2>1. /\ y.phase = "REPLACE" /\ y.coords = r.coords /\ y.length = r.length
          /\ y.Address = Toward(r.arm, r.Address) /\ ~y.WE_O
          /\ y.arm = r.arm /\ y.count = r.count + 1
      BY <1>6, OnFields
    <2> HIDE DEF y
    <2>2. r.count = (3 - r.length) + k /\ k + 1 \in 1 .. r.length + 1 /\ k \in 0 .. 3
      BY <1>1, <1>4, <1>6 DEF ArmEnded, FirstCount
    <2>3. y.Address = CellAt(y.coords, y.arm, k + 1)
      BY <1>1, <1>3, <1>4, <2>1, <2>2, OneOn
    <2>4. y.count = FirstCount(y.length) + (k + 1)
      BY <1>1, <2>1, <2>2 DEF FirstCount
    <2>5. BurnedBefore(y, C, k + 1)
      BY <1>5, <2>1 DEF BurnedBefore
    <2>6. ReplaceOK(y, C)
      BY <2>1, <2>2, <2>3, <2>4, <2>5 DEF ReplaceOK
    <2>7. BurningOK(y, C) /\ WritingOK(y, p)
      BY <1>2, <2>1, <2>6 DEF BurningOK, WritingOK
    <2> QED BY <2>7 DEF y, C
  <1>7. CASE ArmEnded(r) /\ r.arm < 4
    <2>1. /\ y.phase = "ARM" /\ y.coords = r.coords /\ y.length = r.length
          /\ y.Address = r.coords /\ ~y.WE_O
          /\ y.arm = r.arm + 1 /\ y.count = FirstCount(r.length)
      BY <1>7, TurnFields
    <2> HIDE DEF y
    <2>2. y.arm \in Arms /\ 0 \in 0 .. y.length + 1
      BY <1>1, <1>7, <2>1 DEF Arms
    <2>3. y.Address = CellAt(y.coords, y.arm, 0)
      BY <1>1, <1>3, <2>1, <2>2, NoStep
    <2>4. y.count = FirstCount(y.length) + 0
      BY <1>1, <2>1 DEF FirstCount
    <2>5. BurnedBefore(y, C, 0 + 1)
      <3>1. \A a \in Arms : a < r.arm \/ a = r.arm => a < y.arm
        BY <1>1, <2>1 DEF Arms
      <3> QED BY <1>5, <2>1, <3>1 DEF BurnedBefore
    <2>6. ArmOK(y, C)
      BY <2>1, <2>2, <2>3, <2>4, <2>5 DEF ArmOK
    <2>7. BurningOK(y, C) /\ WritingOK(y, p)
      BY <1>2, <2>1, <2>6 DEF BurningOK, WritingOK
    <2> QED BY <2>7 DEF y, C
  <1>8. CASE ArmEnded(r) /\ ~(r.arm < 4)
    <2>1. /\ y.phase = "MID" /\ y.coords = r.coords /\ y.length = r.length
          /\ y.Address = r.coords /\ ~y.WE_O
      BY <1>8, LastFields
    <2> HIDE DEF y
    <2>2. OnArms(y, C)
      BY <1>5, <2>1 DEF BurnedBefore, OnArms
    <2>3. BurningOK(y, C) /\ WritingOK(y, p)
      BY <1>2, <2>1, <2>2 DEF BurningOK, WritingOK
    <2> QED BY <2>3 DEF y, C
  <1> QED BY <1>6, <1>7, <1>8

LEMMA ReplaceStep ==
    ASSUME NEW r \in Regs, NEW p \in Players, NEW in, NEW B,
           r.phase = "REPLACE", BurningOK(r, B), WritingOK(r, p)
    PROVE  LET y == ReplaceNext(r, p, in)
           IN  BurningOK(y, BurnedNext(r, B, p, in)) /\ WritingOK(y, p)
  <1> DEFINE y == ReplaceNext(r, p, in)
  <1>1. BurnedNext(r, B, p, in) = B
    BY DEF BurnedNext, Ignites, WritingOK
  <1>2. /\ y.phase = "ARM" /\ y.coords = r.coords /\ y.length = r.length
        /\ y.Address = r.Address /\ y.arm = r.arm
        /\ y.count = (IF StopsFire(in.Data_IN) THEN 7 ELSE r.count)
    BY ReplaceFields
  <1> HIDE DEF y
  <1>3. Fits(r.length) /\ ReplaceOK(r, B) /\ r.length \in 0 .. 3
    BY RegsOf DEF BurningOK, Sizes
  <1>4. PICK k \in 1 .. r.length + 1 :
          /\ r.Address = CellAt(r.coords, r.arm, k)
          /\ r.count = FirstCount(r.length) + k
          /\ BurnedBefore(r, B, k)
    BY <1>3 DEF ReplaceOK
  <1>5. k \in 0 .. r.length + 1 /\ k \in 0 .. 5 /\ k > 0
    BY <1>3
  <1>6. BurnedBefore(r, B, IF y.WE_O THEN k ELSE k + 1)
    BY <1>4, <1>5, BurnedLater
  <1>7. BurnedBefore(y, B, IF y.WE_O THEN k ELSE k + 1)
    BY <1>2, <1>6 DEF BurnedBefore
  <1>8. ArmOK(y, B)
    BY <1>2, <1>4, <1>5, <1>7 DEF ArmOK
  <1>9. BurningOK(y, B) /\ WritingOK(y, p)
    BY <1>2, <1>3, <1>8 DEF BurningOK, WritingOK
  <1> QED BY <1>1, <1>9 DEF y

(* A clock edge of an explosion, whatever its phase.                       *)
LEMMA BurningStep ==
    ASSUME BoardOK, NEW r \in Regs, NEW p \in Players, NEW in, NEW B,
           BurningOK(r, B), WritingOK(r, p),
           in.ready => in.length \in Sizes /\ Fits(in.length) /\ in.coordinate \in Cells
    PROVE  LET y == ExplosionNext(r, p, in)
           IN  BurningOK(y, BurnedNext(r, B, p, in)) /\ WritingOK(y, p)
  <1> DEFINE y == ExplosionNext(r, p, in)
             C == BurnedNext(r, B, p, in)
  <1>1. CASE r.phase = "START"
    <2>1. y = StartNext(r, p, in)
      BY <1>1 DEF ExplosionNext
    <2>2. CASE in.ready
      <3>1. /\ y.phase = "ARM" /\ y.coords = in.coordinate /\ y.length = in.length
            /\ y.Address = in.coordinate /\ ~y.WE_O /\ y.arm = 1
            /\ y.count = FirstCount(in.length)
        BY <2>1, <2>2, StartFields
      <3>2. C = {}
        BY <1>1, <2>2 DEF BurnedNext, Ignites
      <3> HIDE DEF y, C
      <3>3. Stride <= AddrSpan /\ 1 \in Arms
        BY <2>2, FitsSpan, Values
      <3>4. y.Address = CellAt(y.coords, y.arm, 0)
        BY <2>2, <3>1, <3>3, NoStep
      <3>5. 0 \in 0 .. y.length + 1 /\ y.count = FirstCount(y.length) + 0
        BY <2>2, <3>1 DEF Sizes, FirstCount
      <3>6. BurnedBefore(y, C, 0 + 1)
        BY <3>2 DEF BurnedBefore
      <3>7. ArmOK(y, C)
        BY <3>1, <3>4, <3>5, <3>6 DEF ArmOK
      <3>8. BurningOK(y, C) /\ WritingOK(y, p)
        BY <2>2, <3>1, <3>7 DEF BurningOK, WritingOK
      <3> QED BY <3>8 DEF y, C
    <2>3. CASE ~in.ready
      <3>1. y.phase = "START" /\ ~y.WE_O
        BY <1>1, <2>1, <2>3, IdleFields DEF StartNext
      <3> HIDE DEF y, C
      <3>2. BurningOK(y, C) /\ WritingOK(y, p)
        BY <3>1 DEF BurningOK, WritingOK
      <3> QED BY <3>2 DEF y, C
    <2> QED BY <2>2, <2>3
  <1>2. CASE r.phase = "ARM"
    BY <1>2, ArmStep DEF ExplosionNext
  <1>3. CASE r.phase = "REPLACE"
    BY <1>3, ReplaceStep DEF ExplosionNext
  <1>4. CASE r.phase = "MID"
    <2>1. y = MidNext(r, p)
      BY <1>4 DEF ExplosionNext
    <2>2. /\ y.phase = "WAIT" /\ y.coords = r.coords /\ y.length = r.length
          /\ y.Address = r.Address
      BY <2>1, MidFields
    <2>3. C = B
      BY <1>4 DEF BurnedNext, Ignites, WritingOK
    <2> HIDE DEF y, C
    <2>4. Fits(r.length) /\ r.Address = r.coords /\ OnArms(r, B)
      BY <1>4 DEF BurningOK
    <2>5. OnArms(y, C)
      BY <2>2, <2>3, <2>4 DEF OnArms
    <2>6. BurningOK(y, C) /\ WritingOK(y, p)
      BY <2>2, <2>4, <2>5 DEF BurningOK, WritingOK
    <2> QED BY <2>6 DEF y, C
  <1>5. CASE r.phase = "WAIT"
    <2>1. y = WaitNext(r, p, in)
      BY <1>5 DEF ExplosionNext
    <2>2. y.phase \in {"WAIT", "C_ARM"} /\ y.length = r.length /\ ~y.WE_O
      <3>1. y.phase \in {r.phase, "C_ARM"} /\ y.length = r.length /\ ~y.WE_O
        BY <2>1, WaitFields
      <3> QED BY <1>5, <3>1
    <2> HIDE DEF y, C
    <2>3. BurningOK(y, C) /\ WritingOK(y, p)
      BY <1>5, <2>2 DEF BurningOK, WritingOK
    <2> QED BY <2>3 DEF y, C
  <1>6. CASE r.phase = "C_ARM"
    <2>1. y = ArmNext(r, p, "CLEAR", "C_MID")
      BY <1>6 DEF ExplosionNext
    <2>2. /\ y.phase \in {"CLEAR", "C_ARM", "C_MID"} /\ y.length = r.length
          /\ ~y.WE_O
      <3>1. CASE ~ArmEnded(r)
        BY <2>1, <3>1, OnFields
      <3>2. CASE ArmEnded(r) /\ r.arm < 4
        BY <1>6, <2>1, <3>2, TurnFields
      <3>3. CASE ArmEnded(r) /\ ~(r.arm < 4)
        BY <2>1, <3>3, LastFields
      <3> QED BY <3>1, <3>2, <3>3
    <2> HIDE DEF y, C
    <2>3. BurningOK(y, C) /\ WritingOK(y, p)
      BY <1>6, <2>2 DEF BurningOK, WritingOK
    <2> QED BY <2>3 DEF y, C
  <1>7. CASE r.phase = "CLEAR"
    <2>1. y = ClearNext(r, p, in)
      BY <1>7 DEF ExplosionNext
    <2>2. /\ y.phase = "C_ARM" /\ y.length = r.length
          /\ y.WE_O => y.Data_O # flame(p)
      BY <2>1, ClearFields, RemainsNoFlame
    <2> HIDE DEF y, C
    <2>3. BurningOK(y, C) /\ WritingOK(y, p)
      BY <1>7, <2>2 DEF BurningOK, WritingOK
    <2> QED BY <2>3 DEF y, C
  <1>8. CASE r.phase = "C_MID"
    <2>1. y = ClearMidNext(r, p, in)
      BY <1>8 DEF ExplosionNext
    <2>2. y.phase = "START" /\ y.Data_O # flame(p)
      BY <2>1, ClearMidFields, RemainsNoFlame
    <2> HIDE DEF y, C
    <2>3. BurningOK(y, C) /\ WritingOK(y, p)
      BY <2>2 DEF BurningOK, WritingOK
    <2> QED BY <2>3 DEF y, C
  <1>9. r.phase \in Phases
    BY RegsOf
  <1> QED BY <1>1, <1>2, <1>3, <1>4, <1>5, <1>6, <1>7, <1>8, <1>9 DEF Phases

(* The cell that an explosion writes its flame to has not burned.          *)
LEMMA FreshCell ==
    ASSUME BoardOK, NEW r \in Regs, NEW p, NEW B, BurningOK(r, B), WritingOK(r, p),
           r.WE_O, r.Data_O = flame(p)
    PROVE  r.Address \notin B
  <1>1. /\ r.length \in Sizes /\ r.length \in 0 .. 3 /\ r.coords \in Cells /\ r.arm \in Arms
        /\ r.arm \in 1 .. 4
    BY RegsOf DEF Sizes, Arms
  <1>2. r.phase \in {"ARM", "WAIT"} /\ Fits(r.length)
    BY DEF WritingOK, BurningOK
  <1>3. SUFFICES ASSUME r.Address \in B PROVE FALSE
    OBVIOUS
  <1>4. CASE r.phase = "ARM"
    <2>1. PICK k \in 0 .. r.length + 1 :
            /\ r.Address = CellAt(r.coords, r.arm, k) /\ k > 0
            /\ BurnedBefore(r, B, k)
      BY <1>4 DEF BurningOK, ArmOK
    <2>2. PICK a \in Arms, j \in 1 .. r.length + 1 :
            /\ r.Address = CellAt(r.coords, a, j)
            /\ a < r.arm \/ (a = r.arm /\ j < k)
      BY <1>3, <2>1 DEF BurnedBefore
    <2>3. k \in 1 .. r.length + 1
      BY <1>1, <2>1
    <2>4. CellAt(r.coords, r.arm, k) = CellAt(r.coords, a, j)
      BY <2>1, <2>2
    <2>5. r.arm = a /\ k = j
      BY ONLY BoardOK, <1>1, <1>2, <2>2, <2>3, <2>4, CellsApart
    <2> QED BY <1>1, <2>2, <2>5
  <1>5. CASE r.phase = "WAIT"
    <2>1. r.Address = r.coords /\ OnArms(r, B)
      BY <1>5 DEF BurningOK
    <2>2. PICK a \in Arms, j \in 1 .. r.length + 1 : r.Address = CellAt(r.coords, a, j)
      BY <1>3, <2>1 DEF OnArms
    <2> QED BY <1>1, <1>2, <2>1, <2>2, CentreApart
  <1> QED BY <1>2, <1>4, <1>5

-----------------------------------------------------------------------------
(***************************************************************************)
(* The two explosions, the editor and the map.                             *)
(***************************************************************************)
FireOK == \A p \in Players : BurningOK(x[p], burned[p]) /\ WritingOK(x[p], p)

IInv == TypeOK /\ FireOK

LEMMA Board ==
    /\ BoardOK /\ Addrs = Cells /\ 0 \in Cells /\ Players \subseteq Ports
    /\ Data = Identifiers /\ Budget \in Nat
    /\ \A b \in Bombs : b.at \in Cells /\ b.length \in Sizes /\ Fits(b.length)
  <1>1. LastAddr \in Nat /\ AddrSpan = LastAddr + 1
    BY EditorAssumption, ExplosionsAssumption
  <1>2. AddrSpan \in Nat \ {0} /\ Addrs = Cells /\ 0 \in Cells
    BY <1>1 DEF Addrs, Cells
  <1>3. BoardOK
    BY <1>2, ExplosionsAssumption DEF BoardOK, SpansOK
  <1>4. \A b \in Bombs : b.at \in Cells /\ b.length \in Sizes /\ Fits(b.length)
    BY <1>2, ExplosionsAssumption DEF Sizes
  <1> QED BY <1>2, <1>3, <1>4, ExplosionsAssumption DEF Ports

LEMMA InputOK ==
    ASSUME TypeOK, NEW p \in Players, NEW lucky \in Luck
    PROVE  /\ Input(p, lucky) \in Inputs
           /\ Input(p, lucky).ready =>
                 /\ Input(p, lucky).length \in Sizes /\ Fits(Input(p, lucky).length)
                 /\ Input(p, lucky).coordinate \in Cells
  <1> DEFINE b == IF due[p] = {} THEN [at |-> 0, length |-> 0]
                  ELSE CHOOSE d \in due[p] : TRUE
  <1>1. due[p] # {} => (CHOOSE d \in due[p] : TRUE) \in Bombs
    BY DEF TypeOK
  <1>2. b.at \in Cells /\ b.length \in Sizes
    BY <1>1, Board DEF Sizes
  <1>3. due[p] # {} => Fits(b.length)
    BY <1>1, Board
  <1>4. Input(p, lucky) = [ready |-> due[p] # {}, length |-> b.length,
                           coordinate |-> b.at, timer |-> timer,
                           Data_IN |-> map[x[p].Address], item_true |-> lucky]
    BY DEF Input
  <1> HIDE DEF b
  <1>5. x[p].Address \in Addrs
    BY Board, RegsAre, RegsOf DEF TypeOK
  <1>6. map[x[p].Address] \in Identifiers /\ timer \in 0 .. TimerSpan - 1
        /\ lucky \in BOOLEAN /\ (due[p] # {}) \in BOOLEAN
    BY <1>5, ExplosionsAssumption DEF TypeOK
  <1>7. Input(p, lucky) \in Inputs
    BY <1>2, <1>4, <1>6 DEF Inputs, Cells, Sizes
  <1>8. /\ Input(p, lucky).ready = (due[p] # {})
        /\ Input(p, lucky).length = b.length /\ Input(p, lucky).coordinate = b.at
    BY ONLY <1>4
  <1> QED BY <1>2, <1>3, <1>7, <1>8

LEMMA InitOK == Init => IInv
  <1> SUFFICES ASSUME Init PROVE IInv
    OBVIOUS
  <1>1. ExplosionPowerUp \in ExplosionRegs
    <2>1. 0 \in Times /\ 0 \in Cells /\ 0 \in Counts /\ 0 \in Sizes
      BY Board DEF Times, Counts, Sizes, BoardOK, SpansOK
    <2>2. wall \in Identifiers /\ "START" \in Phases /\ 1 \in Arms
      BY DEF Identifiers, Phases, Arms
    <2> QED BY ONLY <2>1, <2>2, RegsAre DEF Regs, ExplosionPowerUp
  <1>2. x \in [Players -> ExplosionRegs]
    BY <1>1 DEF Init
  <1>3. log \in LogStates
    BY EditorAssumption DEF Init, EmptyLog, LogStates
  <1>4. map \in [Addrs -> Identifiers]
    BY ExplosionsAssumption DEF Init
  <1>5. timer \in 0 .. TimerSpan - 1 /\ due \in [Players -> SUBSET Bombs]
        /\ spared \in 0 .. Budget
    BY Board DEF Init, BoardOK, SpansOK
  <1>6. FireOK
    BY DEF Init, ExplosionPowerUp, FireOK, BurningOK, WritingOK
  <1> QED BY <1>2, <1>3, <1>4, <1>5, <1>6 DEF IInv, TypeOK

LEMMA ClockTypes ==
    ASSUME TypeOK, NEW reset \in BOOLEAN, NEW lucky \in Luck, Clock(reset, lucky)
    PROVE  TypeOK'
  <1>1. x' = [p \in Players |-> ExplosionNext(x[p], p, Input(p, lucky))]
    BY DEF Clock
  <1>2. \A p \in Players : ExplosionNext(x[p], p, Input(p, lucky)) \in ExplosionRegs
    BY InputOK, ExplosionStays, Board DEF TypeOK, BoardOK
  <1>3. x' \in [Players -> ExplosionRegs]
    BY ONLY <1>1, <1>2
  <1>4. log' \in LogStates
    <2>1. Writing \in SUBSET Ports /\ Writing \subseteq Players
      BY Board DEF Writing
    <2>2. ASSUME NEW p \in Writing PROVE Asked[p] \in Requests
      <3>1. x[p].Address \in Addrs /\ x[p].Data_O \in Data
        BY <2>1, <2>2, Board, RegsAre, RegsOf DEF TypeOK
      <3>2. Asked[p] = [addr |-> x[p].Address, data |-> x[p].Data_O]
        BY <2>1, <2>2 DEF Asked
      <3> QED BY <3>1, <3>2 DEF Requests
    <2>3. log \in LogStates /\ log' = LogNext(log, reset, Writing, Asked)
      BY DEF TypeOK, Clock
    <2> QED BY <2>1, <2>2, <2>3, LogStays
  <1>5. map' \in [Addrs -> Identifiers]
    <2>1. map \in [Addrs -> Data] /\ log \in LogStates
          /\ map' = MapNext(map, LogWrites(log))
      BY Board DEF TypeOK, Clock
    <2> QED BY <2>1, WritesAreRequests, MapStays, Board
  <1>6. due' \in [Players -> SUBSET Bombs]
    <2>1. due' = [p \in Players |-> IF reset \/ Ignites(x[p], Input(p, lucky))
                                    THEN {} ELSE due[p]]
      BY DEF Clock
    <2>2. due \in [Players -> SUBSET Bombs]
      BY DEF TypeOK
    <2> QED BY ONLY <2>1, <2>2
  <1>7. timer' \in 0 .. TimerSpan - 1 /\ spared' \in 0 .. Budget
    BY DEF Clock, TypeOK
  <1> QED BY <1>3, <1>4, <1>5, <1>6, <1>7 DEF TypeOK

LEMMA ClockBurns ==
    ASSUME TypeOK, FireOK, NEW reset \in BOOLEAN, NEW lucky \in Luck, Clock(reset, lucky)
    PROVE  FireOK'
  <1> SUFFICES ASSUME NEW p \in Players
               PROVE  BurningOK(x'[p], burned'[p]) /\ WritingOK(x'[p], p)
    BY DEF FireOK
  <1> DEFINE in == Input(p, lucky)
  <1>1. x'[p] = ExplosionNext(x[p], p, in)
    BY DEF Clock
  <1>2. burned'[p] = BurnedNext(x[p], burned[p], p, in)
    BY DEF Clock, BurnedNext, SetsFire
  <1>3. x[p] \in Regs
    BY RegsAre DEF TypeOK
  <1>4. in.ready => in.length \in Sizes /\ Fits(in.length) /\ in.coordinate \in Cells
    BY InputOK
  <1>5. BurningOK(x[p], burned[p]) /\ WritingOK(x[p], p)
    BY DEF FireOK
  <1> HIDE DEF in
  <1>6. BoardOK
    BY Board
  <1> QED BY ONLY <1>1, <1>2, <1>3, <1>4, <1>5, <1>6, p \in Players, BurningStep

LEMMA TickTypes ==
    ASSUME TypeOK, Tick
    PROVE  TypeOK'
  <1>1. timer' \in 0 .. TimerSpan - 1
    <2>1. timer + 1 \in Int /\ TimerSpan \in Nat \ {0}
      BY Board DEF TypeOK, BoardOK, SpansOK
    <2> QED BY <2>1, RestInRange DEF Tick
  <1>2. due' \in [Players -> SUBSET Bombs]
    <2>1. due' \in [Players -> {{}} \union {{b} : b \in Bombs}]
      BY DEF Tick, FallDue
    <2>2. {{}} \union {{b} : b \in Bombs} \subseteq SUBSET Bombs
      OBVIOUS
    <2> QED BY ONLY <2>1, <2>2
  <1>3. spared' \in 0 .. Budget
    BY Board DEF Tick, TypeOK
  <1> QED BY <1>1, <1>2, <1>3 DEF Tick, TypeOK

LEMMA Invariance == Spec => []IInv
  <1>1. IInv /\ [Next]_vars => IInv'
    <2> SUFFICES ASSUME IInv, [Next]_vars PROVE IInv'
      OBVIOUS
    <2>1. CASE Work \/ Reset
      <3>1. PICK reset \in BOOLEAN, lucky \in Luck : Clock(reset, lucky)
        BY <2>1 DEF Work, Reset
      <3> QED BY <3>1, ClockTypes, ClockBurns DEF IInv
    <2>2. CASE Tick
      <3>1. x' = x /\ burned' = burned
        BY <2>2 DEF Tick
      <3> QED BY <2>2, <3>1, TickTypes DEF IInv, FireOK
    <2>3. CASE UNCHANGED vars
      BY <2>3 DEF vars, IInv, TypeOK, FireOK
    <2> QED BY <2>1, <2>2, <2>3 DEF Next
  <1> QED BY InitOK, <1>1, PTL DEF Spec

(* The registers of the explosions keep their widths, the editor and the   *)
(* map hold requests and identifiers, whatever map, bombs, Reset and the   *)
(* random bits do (explosion.sv, Map.sv).                                  *)
THEOREM ExplosionsTypeCorrect == Spec => []TypeOK
  BY Invariance, PTL DEF IInv

(* No explosion sets fire to a cell twice, for every map, every bomb whose *)
(* cross fits on the board and whatever the other explosion and Reset do:  *)
(* a player loses and scores at most one point per explosion (Score.sv).   *)
THEOREM FiresOncePerCell == Spec => []OncePerCell
  <1>1. IInv => OncePerCell
    <2> SUFFICES ASSUME IInv, NEW p \in Players, SetsFire(p)
                 PROVE  x[p].Address \notin burned[p]
      BY DEF OncePerCell
    <2>1. x[p] \in Regs /\ BurningOK(x[p], burned[p]) /\ WritingOK(x[p], p)
      BY RegsAre DEF IInv, TypeOK, FireOK
    <2> QED BY <2>1, FreshCell, Board DEF SetsFire
  <1> QED BY <1>1, Invariance, PTL

(* The write port of an explosion is never high in two successive cycles,  *)
(* which the bound on the queue of MapEditor rests on (explosion.sv).      *)
THEOREM WritePortsPaced == Spec => PortsPaced
  <1> DEFINE A == \A p \in Players : x[p].WE_O => ~x'[p].WE_O
  <1>1. IInv /\ [Next]_vars => [A]_vars
    <2> SUFFICES ASSUME IInv, Next, NEW p \in Players, x[p].WE_O PROVE ~x'[p].WE_O
      BY DEF A
    <2>1. x[p] \in Regs /\ x[p].phase \in {"START", "ARM", "WAIT", "C_ARM"}
      BY RegsAre DEF IInv, TypeOK, FireOK, WritingOK
    <2>2. CASE Work \/ Reset
      <3>1. PICK reset \in BOOLEAN, lucky \in Luck : Clock(reset, lucky)
        BY <2>2 DEF Work, Reset
      <3> DEFINE in == Input(p, lucky)
      <3>2. x'[p] = ExplosionNext(x[p], p, in)
        BY <3>1 DEF Clock
      <3> HIDE DEF in
      <3>3. ~ExplosionNext(x[p], p, in).WE_O
        <4>1. CASE x[p].phase = "START"
          <5>1. ExplosionNext(x[p], p, in) = StartNext(x[p], p, in)
            BY <4>1 DEF ExplosionNext
          <5>2. CASE in.ready
            BY <2>1, <5>1, <5>2, StartFields
          <5>3. CASE ~in.ready
            BY <2>1, <5>1, <5>3, IdleFields DEF StartNext
          <5> QED BY <5>2, <5>3
        <4>2. ASSUME NEW look, NEW centre
              PROVE  ~ArmNext(x[p], p, look, centre).WE_O
          BY <2>1, OnFields, TurnFields, LastFields
        <4>3. CASE x[p].phase \in {"ARM", "C_ARM"}
          BY <4>2, <4>3 DEF ExplosionNext
        <4>4. CASE x[p].phase = "WAIT"
          <5>1. ExplosionNext(x[p], p, in) = WaitNext(x[p], p, in)
            BY <4>4 DEF ExplosionNext
          <5> QED BY <2>1, <5>1, WaitFields
        <4> QED BY <2>1, <4>1, <4>3, <4>4
      <3> QED BY <3>2, <3>3
    <2>3. CASE Tick
      BY <2>3 DEF Tick, Rested, Resting
    <2> QED BY <2>2, <2>3 DEF Next
  <1> QED BY <1>1, Invariance, PTL DEF PortsPaced, Spec

-----------------------------------------------------------------------------
(***************************************************************************)
(* The flames of a player on the map.  The fire passes only over cells     *)
(* without a wall, and walls never change; so the walk that clears comes   *)
(* to every cell that the walk that burned has come to.                    *)
(***************************************************************************)
NoFlamesYet ==
    /\ \A a \in Addrs, p \in Players : InitialMap[a] # flame(p)
    /\ \A m \in Maps, a \in Addrs : /\ m[a] = wall <=> InitialMap[a] = wall
                                    /\ \A p \in Players : m[a] # flame(p)

Open(c, arm, k) == \A j \in 1 .. k : InitialMap[CellAt(c, arm, j)] # wall

InReach(r, a) == \/ a = r.coords
                 \/ \E b \in Arms, j \in 1 .. r.length + 1 :
                       a = CellAt(r.coords, b, j) /\ Open(r.coords, b, j)

(* The clearing walk, k steps along its arm, has a still before it.        *)
Ahead(r, k, a) == \/ a = r.coords
                  \/ \E b \in Arms, j \in 1 .. r.length + 1 :
                        /\ a = CellAt(r.coords, b, j) /\ Open(r.coords, b, j)
                        /\ r.arm < b \/ (r.arm = b /\ k < j)

At(r, k) == r.Address = CellAt(r.coords, r.arm, k)

BurnWalk(r) ==
    /\ r.phase = "ARM" => \E k \in 0 .. r.length + 1 :
          /\ At(r, k) /\ (r.WE_O => k > 0 /\ Open(r.coords, r.arm, k))
          /\ r.count = 7 \/ (r.count = FirstCount(r.length) + k /\ Open(r.coords, r.arm, k))
    /\ r.phase = "REPLACE" => \E k \in 1 .. r.length + 1 :
          /\ At(r, k) /\ Open(r.coords, r.arm, k - 1)
          /\ r.count = FirstCount(r.length) + k

(* F are the cells with a flame of p that nothing is about to overwrite.   *)
ClearWalk(r, F) ==
    /\ r.phase = "C_ARM" => \E k \in 0 .. r.length + 1 :
          /\ At(r, k) /\ \A a \in F : Ahead(r, k, a)
          /\ \/ r.count = 7 /\ ~Open(r.coords, r.arm, k)
             \/ r.count = FirstCount(r.length) + k
    /\ r.phase = "CLEAR" => \E k \in 1 .. r.length + 1 :
          /\ At(r, k) /\ \A a \in F : Ahead(r, k - 1, a)
          /\ r.count = FirstCount(r.length) + k
    /\ r.phase = "C_MID" => r.Address = r.coords /\ F \subseteq {r.coords}

FlamesOK(r, F) ==
    /\ r.phase = "START" => F = {}
    /\ r.phase # "START" => InitialMap[r.coords] # wall /\ \A a \in F : InReach(r, a)
    /\ BurnWalk(r) /\ ClearWalk(r, F)

(* A request of p that comes after the k-th one takes the flame away.      *)
PutOut(p, a, k) == \/ x[p].WE_O /\ x[p].Address = a /\ x[p].Data_O # flame(p)
                   \/ \E j \in k + 1 .. Len(log.pending) :
                         log.pending[j].addr = a /\ log.pending[j].data # flame(p)

Flames(p) ==
    IF log.sweeping THEN {}
    ELSE {a \in Addrs :
            \/ map[a] = flame(p) /\ ~PutOut(p, a, 0)
            \/ \E k \in 1 .. Len(log.pending) :
                  /\ log.pending[k].addr = a /\ log.pending[k].data = flame(p)
                  /\ ~PutOut(p, a, k)}

NonePending(p) == \A k \in 1 .. Len(log.pending) : log.pending[k].data # flame(p)

TimeOK(p) ==
    /\ x[p].phase \in {"ARM", "REPLACE", "MID"} => timer # x[p].clear_time
    /\ x[p].phase = "WAIT" /\ timer = x[p].clear_time => ~x[p].WE_O /\ NonePending(p)
    /\ x[p].phase \in {"START", "C_ARM", "CLEAR", "C_MID"} => NonePending(p)

PortOK(r, p) == r.WE_O => /\ r.Data_O \in {flame(p), path, item(p)}
                          /\ InitialMap[r.Address] # wall

WallsOK == /\ \A a \in Addrs : map[a] = wall <=> InitialMap[a] = wall
           /\ \A k \in 1 .. Len(log.pending) :
                 log.pending[k].data # wall /\ InitialMap[log.pending[k].addr] # wall
           /\ \A p \in Players : \A b \in due[p] : InitialMap[b.at] # wall

SweptOK == log.sweeping =>
              /\ log.pending = << >>
              /\ \A a \in Addrs, p \in Players : a < log.at => map[a] # flame(p)

FlameInv == /\ IInv /\ WallsOK /\ SweptOK
            /\ \A p \in Players : /\ FlamesOK(x[p], Flames(p)) /\ TimeOK(p)
                                  /\ PortOK(x[p], p)

(* What becomes of the flames of p when its explosion goes from r to y.    *)
FlamesNext(r, F, y, G, p) ==
    /\ \A a \in G : a \in F \/ (r.WE_O /\ r.Data_O = flame(p) /\ a = r.Address)
    /\ y.WE_O /\ y.Data_O # flame(p) => y.Address \notin G

LEMMA ReachOfSame ==
    ASSUME NEW r, NEW y, y.coords = r.coords, y.length = r.length, NEW a, InReach(r, a)
    PROVE  InReach(y, a)
  BY DEF InReach

LEMMA LessOpen ==
    ASSUME NEW c, NEW b, NEW j \in Nat, NEW k \in Nat, k <= j, Open(c, b, j)
    PROVE  Open(c, b, k)
  <1>1. \A i \in 1 .. k : i \in 1 .. j
    OBVIOUS
  <1> QED BY <1>1 DEF Open

LEMMA MoreOpen ==
    ASSUME NEW c, NEW b, NEW k \in Nat \ {0}, Open(c, b, k - 1),
           InitialMap[CellAt(c, b, k)] # wall
    PROVE  Open(c, b, k)
  <1>1. \A i \in 1 .. k : i \in 1 .. k - 1 \/ i = k
    OBVIOUS
  <1> QED BY <1>1 DEF Open

LEMMA AtCentre ==
    ASSUME BoardOK, NEW r, r.arm \in Arms, r.coords \in Cells, r.length \in Sizes,
           Fits(r.length), r.Address = r.coords
    PROVE  At(r, 0)
  <1>1. Stride <= AddrSpan
    BY FitsSpan
  <1> QED BY <1>1, NoStep DEF At

LEMMA AtNext ==
    ASSUME BoardOK, NEW r, r.arm \in Arms, r.coords \in Cells, r.length \in Sizes,
           Fits(r.length), NEW k \in 0 .. 3, At(r, k),
           NEW y, y.coords = r.coords, y.arm = r.arm, y.Address = Toward(r.arm, r.Address)
    PROVE  At(y, k + 1)
  <1>1. Stride <= AddrSpan
    BY FitsSpan
  <1> QED BY <1>1, OneOn DEF At

(* The phases that burn.                                                   *)
LEMMA ArmFlames ==
    ASSUME BoardOK, NEW r \in Regs, NEW p \in Players, NEW F, NEW G, NEW B,
           r.phase = "ARM", FlamesOK(r, F), BurningOK(r, B),
           FlamesNext(r, F, ArmNext(r, p, "REPLACE", "MID"), G, p)
    PROVE  FlamesOK(ArmNext(r, p, "REPLACE", "MID"), G)
  <1> DEFINE y == ArmNext(r, p, "REPLACE", "MID")
             c == r.coords
  <1>1. /\ r.length \in Sizes /\ r.length \in 0 .. 3 /\ r.arm \in Arms /\ r.coords \in Cells
        /\ r.arm \in 1 .. 4 /\ Fits(r.length) /\ InitialMap[r.coords] # wall
    BY RegsOf DEF Sizes, Arms, BurningOK, FlamesOK
  <1>2. PICK k \in 0 .. r.length + 1 :
          /\ At(r, k) /\ (r.WE_O => k > 0 /\ Open(c, r.arm, k))
          /\ r.count = 7 \/ (r.count = FirstCount(r.length) + k /\ Open(c, r.arm, k))
    BY DEF FlamesOK, BurnWalk
  <1>3. \A a \in G : InReach(r, a)
    <2>1. \A a \in F : InReach(r, a)
      BY DEF FlamesOK
    <2>2. ASSUME r.WE_O PROVE InReach(r, r.Address)
      <3>1. k \in 1 .. r.length + 1 /\ Open(c, r.arm, k) /\ r.Address = CellAt(c, r.arm, k)
        BY <1>1, <1>2, <2>2 DEF At
      <3> QED BY <1>1, <3>1 DEF InReach
    <2> QED BY <2>1, <2>2 DEF FlamesNext
  <1>4. CASE ~ArmEnded(r)
    <2>1. /\ y.phase = "REPLACE" /\ y.coords = r.coords /\ y.length = r.length
          /\ y.Address = Toward(r.arm, r.Address)
          /\ y.arm = r.arm /\ y.count = r.count + 1
      BY <1>4, OnFields
    <2> HIDE DEF y
    <2>2. /\ r.count = (3 - r.length) + k /\ Open(c, r.arm, k)
          /\ k + 1 \in 1 .. r.length + 1 /\ k \in 0 .. 3 /\ (k + 1) - 1 = k
      BY <1>1, <1>2, <1>4 DEF ArmEnded, FirstCount
    <2>3. At(y, k + 1)
      BY <1>1, <1>2, <2>1, <2>2, AtNext
    <2>4. y.count = FirstCount(y.length) + (k + 1)
      BY <1>1, <2>1, <2>2 DEF FirstCount
    <2>5. Open(y.coords, y.arm, (k + 1) - 1)
      BY <2>1, <2>2
    <2>6. BurnWalk(y) /\ ClearWalk(y, G)
      BY <2>1, <2>2, <2>3, <2>4, <2>5 DEF BurnWalk, ClearWalk
    <2>7. FlamesOK(y, G)
      BY <1>1, <1>3, <2>1, <2>6, ReachOfSame DEF FlamesOK
    <2> QED BY <2>7 DEF y
  <1>5. CASE ArmEnded(r) /\ r.arm < 4
    <2>1. /\ y.phase = "ARM" /\ y.coords = r.coords /\ y.length = r.length
          /\ y.Address = r.coords /\ ~y.WE_O
          /\ y.arm = r.arm + 1 /\ y.count = FirstCount(r.length)
      BY <1>5, TurnFields
    <2> HIDE DEF y
    <2>2. y.arm \in Arms /\ 0 \in 0 .. y.length + 1 /\ y.count = FirstCount(y.length) + 0
      BY <1>1, <1>5, <2>1 DEF Arms, FirstCount
    <2>3. At(y, 0)
      BY <1>1, <2>1, <2>2, AtCentre
    <2>4. Open(y.coords, y.arm, 0)
      BY DEF Open
    <2>5. BurnWalk(y) /\ ClearWalk(y, G)
      BY <2>1, <2>2, <2>3, <2>4 DEF BurnWalk, ClearWalk
    <2>6. FlamesOK(y, G)
      BY <1>1, <1>3, <2>1, <2>5, ReachOfSame DEF FlamesOK
    <2> QED BY <2>6 DEF y
  <1>6. CASE ArmEnded(r) /\ ~(r.arm < 4)
    <2>1. y.phase = "MID" /\ y.coords = r.coords /\ y.length = r.length
      BY <1>6, LastFields
    <2> HIDE DEF y
    <2>2. FlamesOK(y, G)
      BY <1>1, <1>3, <2>1, ReachOfSame DEF FlamesOK, BurnWalk, ClearWalk
    <2> QED BY <2>2 DEF y
  <1> QED BY <1>4, <1>5, <1>6

LEMMA ReplaceFlames ==
    ASSUME NEW r \in Regs, NEW p \in Players, NEW in, NEW F, NEW G,
           r.phase = "REPLACE", FlamesOK(r, F), WritingOK(r, p),
           in.Data_IN = wall <=> InitialMap[r.Address] = wall,
           FlamesNext(r, F, ReplaceNext(r, p, in), G, p)
    PROVE  FlamesOK(ReplaceNext(r, p, in), G)
  <1> DEFINE y == ReplaceNext(r, p, in)
  <1>1. /\ y.phase = "ARM" /\ y.coords = r.coords /\ y.length = r.length
        /\ y.Address = r.Address /\ y.arm = r.arm
        /\ y.count = (IF StopsFire(in.Data_IN) THEN 7 ELSE r.count)
        /\ (y.WE_O <=> in.Data_IN \notin {wall, bomb})
    BY ReplaceFields
  <1>2. G \subseteq F
    BY DEF FlamesNext, WritingOK
  <1> HIDE DEF y
  <1>3. PICK k \in 1 .. r.length + 1 :
          /\ At(r, k) /\ Open(r.coords, r.arm, k - 1)
          /\ r.count = FirstCount(r.length) + k
    BY DEF FlamesOK, BurnWalk
  <1>4. k \in 0 .. y.length + 1 /\ k > 0 /\ k \in Nat \ {0}
    BY <1>1, RegsOf DEF Sizes
  <1>5. At(y, k)
    BY <1>1, <1>3 DEF At
  <1>6. in.Data_IN # wall => Open(y.coords, y.arm, k)
    BY <1>1, <1>3, <1>4, MoreOpen DEF At
  <1>7. y.WE_O => Open(y.coords, y.arm, k)
    BY <1>1, <1>6
  <1>8. y.count = 7 \/ (y.count = FirstCount(y.length) + k /\ Open(y.coords, y.arm, k))
    BY <1>1, <1>3, <1>6 DEF StopsFire
  <1>9. BurnWalk(y) /\ ClearWalk(y, G)
    BY <1>1, <1>4, <1>5, <1>7, <1>8 DEF BurnWalk, ClearWalk
  <1>10. FlamesOK(y, G)
    BY <1>1, <1>2, <1>9, ReachOfSame DEF FlamesOK
  <1> QED BY <1>10 DEF y

(* The phases that wait and clear.                                         *)
LEMMA WaitFlames ==
    ASSUME BoardOK, NEW r \in Regs, NEW p \in Players, NEW in, NEW F, NEW G, NEW B,
           r.phase = "WAIT", FlamesOK(r, F), BurningOK(r, B),
           FlamesNext(r, F, WaitNext(r, p, in), G, p)
    PROVE  FlamesOK(WaitNext(r, p, in), G)
  <1> DEFINE y == WaitNext(r, p, in)
  <1>1. /\ y.phase = (IF in.timer = r.clear_time THEN "C_ARM" ELSE r.phase)
        /\ y.coords = r.coords /\ y.length = r.length /\ y.Address = r.coords
        /\ ~y.WE_O /\ y.arm = 1
        /\ in.timer = r.clear_time => y.count = FirstCount(r.length)
    BY WaitFields
  <1>2. \A a \in G : InReach(r, a)
    BY DEF FlamesNext, FlamesOK, BurningOK, InReach
  <1>3. InitialMap[r.coords] # wall /\ Fits(r.length)
        /\ r.length \in Sizes /\ r.length \in 0 .. 3 /\ r.coords \in Cells /\ 1 \in Arms
    BY RegsOf, Values DEF FlamesOK, BurningOK, Sizes
  <1> HIDE DEF y
  <1>4. \A a \in G : InReach(y, a)
    BY <1>1, <1>2, ReachOfSame
  <1>5. CASE in.timer # r.clear_time
    <2>1. y.phase = "WAIT"
      BY <1>1, <1>5
    <2>2. FlamesOK(y, G)
      BY <1>1, <1>3, <1>4, <2>1 DEF FlamesOK, BurnWalk, ClearWalk
    <2> QED BY <2>2 DEF y
  <1>6. CASE in.timer = r.clear_time
    <2>1. y.phase = "C_ARM" /\ y.count = FirstCount(y.length) + 0 /\ 0 \in 0 .. y.length + 1
      BY <1>1, <1>3, <1>6 DEF FirstCount
    <2>2. At(y, 0)
      BY <1>1, <1>3, AtCentre
    <2>3. ASSUME NEW a \in G PROVE Ahead(y, 0, a)
      <3>1. \A b \in Arms, j \in 1 .. y.length + 1 : y.arm < b \/ (y.arm = b /\ 0 < j)
        BY <1>1, <1>3 DEF Arms
      <3> QED BY <1>4, <3>1 DEF InReach, Ahead
    <2>4. BurnWalk(y) /\ ClearWalk(y, G)
      BY <2>1, <2>2, <2>3 DEF BurnWalk, ClearWalk
    <2>5. FlamesOK(y, G)
      BY <1>1, <1>3, <1>4, <2>1, <2>4 DEF FlamesOK
    <2> QED BY <2>5 DEF y
  <1> QED BY <1>5, <1>6

LEMMA ClearArmFlames ==
    ASSUME BoardOK, NEW r \in Regs, NEW p \in Players, NEW F, NEW G, NEW B,
           r.phase = "C_ARM", FlamesOK(r, F), BurningOK(r, B), WritingOK(r, p),
           FlamesNext(r, F, ArmNext(r, p, "CLEAR", "C_MID"), G, p)
    PROVE  FlamesOK(ArmNext(r, p, "CLEAR", "C_MID"), G)
  <1> DEFINE y == ArmNext(r, p, "CLEAR", "C_MID")
             c == r.coords
  <1>1. /\ r.length \in Sizes /\ r.length \in 0 .. 3 /\ r.arm \in Arms /\ r.coords \in Cells
        /\ r.arm \in 1 .. 4 /\ Fits(r.length) /\ InitialMap[r.coords] # wall
    BY RegsOf DEF Sizes, Arms, BurningOK, FlamesOK
  <1>2. PICK k \in 0 .. r.length + 1 :
          /\ At(r, k) /\ \A a \in F : Ahead(r, k, a)
          /\ \/ r.count = 7 /\ ~Open(c, r.arm, k)
             \/ r.count = FirstCount(r.length) + k
    BY DEF FlamesOK, ClearWalk
  <1>3. G \subseteq F
    BY DEF FlamesNext, WritingOK
  <1>4. \A a \in G : InReach(r, a)
    BY <1>3 DEF FlamesOK
  <1>5. CASE ~ArmEnded(r)
    <2>1. /\ y.phase = "CLEAR" /\ y.coords = r.coords /\ y.length = r.length
          /\ y.Address = Toward(r.arm, r.Address)
          /\ y.arm = r.arm /\ y.count = r.count + 1
      BY <1>5, OnFields
    <2> HIDE DEF y
    <2>2. /\ r.count = (3 - r.length) + k
          /\ k + 1 \in 1 .. r.length + 1 /\ k \in 0 .. 3 /\ (k + 1) - 1 = k
      BY <1>1, <1>2, <1>5 DEF ArmEnded, FirstCount
    <2>3. At(y, k + 1)
      BY <1>1, <1>2, <2>1, <2>2, AtNext
    <2>4. y.count = FirstCount(y.length) + (k + 1)
      BY <1>1, <2>1, <2>2 DEF FirstCount
    <2>5. \A a \in G : Ahead(y, (k + 1) - 1, a)
      BY <1>2, <1>3, <2>1, <2>2 DEF Ahead
    <2>6. BurnWalk(y) /\ ClearWalk(y, G)
      BY <2>1, <2>2, <2>3, <2>4, <2>5 DEF BurnWalk, ClearWalk
    <2>7. FlamesOK(y, G)
      BY <1>1, <1>4, <2>1, <2>6, ReachOfSame DEF FlamesOK
    <2> QED BY <2>7 DEF y
  <1>6. ASSUME ArmEnded(r), NEW a \in G
        PROVE  \/ a = c
               \/ \E b \in Arms, j \in 1 .. r.length + 1 :
                     a = CellAt(c, b, j) /\ Open(c, b, j) /\ r.arm < b
    <2>1. Ahead(r, k, a)
      BY <1>2, <1>3, <1>6
    <2>2. ASSUME NEW j \in 1 .. r.length + 1, Open(c, r.arm, j), k < j
          PROVE  FALSE
      <3>1. j \in Nat /\ k \in Nat /\ k <= j
        BY <1>1, <2>2
      <3>2. Open(c, r.arm, k)
        BY <2>2, <3>1, LessOpen
      <3>3. r.count = (3 - r.length) + k /\ r.count >= 4
        BY <1>2, <1>6, <3>2 DEF ArmEnded, FirstCount
      <3> QED BY <1>1, <2>2, <3>1, <3>3
    <2> QED BY <2>1, <2>2 DEF Ahead
  <1>7. CASE ArmEnded(r) /\ r.arm < 4
    <2>1. /\ y.phase = "C_ARM" /\ y.coords = r.coords /\ y.length = r.length
          /\ y.Address = r.coords
          /\ y.arm = r.arm + 1 /\ y.count = FirstCount(r.length)
      BY <1>7, TurnFields
    <2> HIDE DEF y
    <2>2. y.arm \in Arms /\ 0 \in 0 .. y.length + 1 /\ y.count = FirstCount(y.length) + 0
      BY <1>1, <1>7, <2>1 DEF Arms, FirstCount
    <2>3. At(y, 0)
      BY <1>1, <2>1, <2>2, AtCentre
    <2>4. ASSUME NEW a \in G PROVE Ahead(y, 0, a)
      <3>1. \A b \in Arms, j \in 1 .. r.length + 1 :
               r.arm < b => y.arm < b \/ (y.arm = b /\ 0 < j)
        BY <1>1, <2>1 DEF Arms
      <3> QED BY <1>6, <1>7, <2>1, <3>1 DEF Ahead
    <2>5. BurnWalk(y) /\ ClearWalk(y, G)
      BY <2>1, <2>2, <2>3, <2>4 DEF BurnWalk, ClearWalk
    <2>6. FlamesOK(y, G)
      BY <1>1, <1>4, <2>1, <2>5, ReachOfSame DEF FlamesOK
    <2> QED BY <2>6 DEF y
  <1>8. CASE ArmEnded(r) /\ ~(r.arm < 4)
    <2>1. /\ y.phase = "C_MID" /\ y.coords = r.coords /\ y.length = r.length
          /\ y.Address = r.coords
      BY <1>8, LastFields
    <2> HIDE DEF y
    <2>2. \A b \in Arms : ~(r.arm < b)
      BY <1>1, <1>8 DEF Arms
    <2>3. G \subseteq {r.coords}
      BY <1>6, <1>8, <2>2
    <2>4. FlamesOK(y, G)
      BY <1>1, <1>4, <2>1, <2>3, ReachOfSame DEF FlamesOK, BurnWalk, ClearWalk
    <2> QED BY <2>4 DEF y
  <1> QED BY <1>5, <1>7, <1>8

LEMMA ClearFlames ==
    ASSUME NEW r \in Regs, NEW p \in Players, NEW in, NEW F, NEW G,
           r.phase = "CLEAR", FlamesOK(r, F), WritingOK(r, p),
           in.Data_IN = wall <=> InitialMap[r.Address] = wall,
           in.Data_IN # flame(p) => r.Address \notin F,
           FlamesNext(r, F, ClearNext(r, p, in), G, p)
    PROVE  FlamesOK(ClearNext(r, p, in), G)
  <1> DEFINE y == ClearNext(r, p, in)
  <1>1. /\ y.phase = "C_ARM" /\ y.coords = r.coords /\ y.length = r.length
        /\ y.Address = r.Address /\ y.arm = r.arm
        /\ y.count = (IF in.Data_IN = wall THEN 7 ELSE r.count)
        /\ (y.WE_O <=> Own(p, in.Data_IN))
        /\ Own(p, in.Data_IN) => y.Data_O = Remains(p, in)
    BY ClearFields
  <1>2. G \subseteq F
    BY DEF FlamesNext, WritingOK
  <1> HIDE DEF y
  <1>3. r.Address \notin G
    <2>1. CASE in.Data_IN = flame(p)
      <3>1. y.WE_O /\ y.Data_O # flame(p)
        BY <1>1, <2>1, RemainsNoFlame DEF Own
      <3> QED BY <1>1, <3>1 DEF FlamesNext, y
    <2> QED BY <1>2, <2>1
  <1>4. PICK k \in 1 .. r.length + 1 :
          /\ At(r, k) /\ \A a \in F : Ahead(r, k - 1, a)
          /\ r.count = FirstCount(r.length) + k
    BY DEF FlamesOK, ClearWalk
  <1>5. k \in 0 .. y.length + 1 /\ k \in Nat \ {0} /\ k \in 1 .. k /\ r.length \in 0 .. 3
    BY <1>1, RegsOf DEF Sizes
  <1>6. At(y, k)
    BY <1>1, <1>4 DEF At
  <1>7. ASSUME NEW a \in G PROVE Ahead(y, k, a)
    <2>1. Ahead(r, k - 1, a)
      BY <1>2, <1>4
    <2>2. CASE a = r.coords
      BY <1>1, <2>2 DEF Ahead
    <2>3. CASE a # r.coords
      <3>1. PICK b \in Arms, j \in 1 .. r.length + 1 :
              /\ a = CellAt(r.coords, b, j) /\ Open(r.coords, b, j)
              /\ r.arm < b \/ (r.arm = b /\ k - 1 < j)
        BY <2>1, <2>3 DEF Ahead
      <3>2. ~(r.arm = b /\ j = k)
        BY <1>3, <1>4, <3>1 DEF At
      <3>3. r.arm < b \/ (r.arm = b /\ k < j)
        BY <1>5, <3>1, <3>2
      <3> QED BY <1>1, <3>1, <3>3 DEF Ahead
    <2> QED BY <2>2, <2>3
  <1>8. (y.count = 7 /\ ~Open(y.coords, y.arm, k)) \/ y.count = FirstCount(y.length) + k
    BY <1>1, <1>4, <1>5 DEF Open, At
  <1>9. BurnWalk(y) /\ ClearWalk(y, G)
    BY <1>1, <1>5, <1>6, <1>7, <1>8 DEF BurnWalk, ClearWalk
  <1>10. FlamesOK(y, G)
    BY <1>1, <1>2, <1>9, ReachOfSame DEF FlamesOK
  <1> QED BY <1>10 DEF y

(* A clock edge of an explosion, whatever its phase.                       *)
LEMMA FlameStep ==
    ASSUME BoardOK, NEW r \in Regs, NEW p \in Players, NEW in, NEW F, NEW G, NEW B,
           FlamesOK(r, F), BurningOK(r, B), WritingOK(r, p),
           in.ready => /\ in.length \in Sizes /\ Fits(in.length)
                       /\ in.coordinate \in Cells /\ InitialMap[in.coordinate] # wall,
           in.Data_IN = wall <=> InitialMap[r.Address] = wall,
           r.phase = "CLEAR" /\ in.Data_IN # flame(p) => r.Address \notin F,
           FlamesNext(r, F, ExplosionNext(r, p, in), G, p)
    PROVE  FlamesOK(ExplosionNext(r, p, in), G)
  <1> DEFINE y == ExplosionNext(r, p, in)
  <1>1. CASE r.phase = "START"
    <2>1. y = StartNext(r, p, in)
      BY <1>1 DEF ExplosionNext
    <2>2. G = {}
      BY <1>1 DEF FlamesNext, FlamesOK, WritingOK
    <2>3. CASE in.ready
      <3>1. /\ y.phase = "ARM" /\ y.coords = in.coordinate /\ y.length = in.length
            /\ y.Address = in.coordinate /\ ~y.WE_O /\ y.arm = 1
            /\ y.count = FirstCount(in.length)
        BY <2>1, <2>3, StartFields
      <3> HIDE DEF y
      <3>2. y.arm \in Arms
        BY <3>1, Values
      <3>3. At(y, 0)
        BY <2>3, <3>1, <3>2, AtCentre
      <3>4. 0 \in 0 .. y.length + 1 /\ y.count = FirstCount(y.length) + 0
        BY <2>3, <3>1 DEF Sizes, FirstCount
      <3>5. Open(y.coords, y.arm, 0)
        BY DEF Open
      <3>6. BurnWalk(y) /\ ClearWalk(y, G)
        BY <3>1, <3>3, <3>4, <3>5 DEF BurnWalk, ClearWalk
      <3>7. FlamesOK(y, G)
        BY <2>2, <2>3, <3>1, <3>6 DEF FlamesOK
      <3> QED BY <3>7 DEF y
    <2>4. CASE ~in.ready
      <3>1. y.phase = "START"
        BY <1>1, <2>1, <2>4, IdleFields DEF StartNext
      <3> HIDE DEF y
      <3>2. FlamesOK(y, G)
        BY <2>2, <3>1 DEF FlamesOK, BurnWalk, ClearWalk
      <3> QED BY <3>2 DEF y
    <2> QED BY <2>3, <2>4
  <1>2. CASE r.phase = "ARM"
    BY <1>2, ArmFlames DEF ExplosionNext
  <1>3. CASE r.phase = "REPLACE"
    BY <1>3, ReplaceFlames DEF ExplosionNext
  <1>4. CASE r.phase = "MID"
    <2>1. y = MidNext(r, p)
      BY <1>4 DEF ExplosionNext
    <2>2. y.phase = "WAIT" /\ y.coords = r.coords /\ y.length = r.length
      BY <2>1, MidFields
    <2>3. G \subseteq F
      BY <1>4 DEF FlamesNext, WritingOK
    <2> HIDE DEF y
    <2>4. FlamesOK(y, G)
      BY <1>4, <2>2, <2>3, ReachOfSame DEF FlamesOK, BurnWalk, ClearWalk
    <2> QED BY <2>4 DEF y
  <1>5. CASE r.phase = "WAIT"
    BY <1>5, WaitFlames DEF ExplosionNext
  <1>6. CASE r.phase = "C_ARM"
    BY <1>6, ClearArmFlames DEF ExplosionNext
  <1>7. CASE r.phase = "CLEAR"
    BY <1>7, ClearFlames DEF ExplosionNext
  <1>8. CASE r.phase = "C_MID"
    <2>1. y = ClearMidNext(r, p, in)
      BY <1>8 DEF ExplosionNext
    <2>2. y.phase = "START" /\ y.WE_O /\ y.Address = r.Address /\ y.Data_O # flame(p)
      BY <2>1, ClearMidFields, RemainsNoFlame
    <2>3. G \subseteq F /\ F \subseteq {r.coords} /\ r.Address = r.coords
      BY <1>8 DEF FlamesNext, WritingOK, FlamesOK, ClearWalk
    <2>4. r.Address \notin G
      BY <2>2 DEF FlamesNext
    <2> HIDE DEF y
    <2>5. FlamesOK(y, G)
      BY <2>2, <2>3, <2>4 DEF FlamesOK, BurnWalk, ClearWalk
    <2> QED BY <2>5 DEF y
  <1>9. r.phase \in Phases
    BY RegsOf
  <1> QED BY <1>1, <1>2, <1>3, <1>4, <1>5, <1>6, <1>7, <1>8, <1>9 DEF Phases

(* An explosion writes its flame or what it leaves, never to a wall.       *)
LEMMA PortStep ==
    ASSUME NEW r \in Regs, NEW p \in Players, NEW in, NEW F, NEW B,
           FlamesOK(r, F), BurningOK(r, B),
           in.Data_IN = wall <=> InitialMap[r.Address] = wall
    PROVE  PortOK(ExplosionNext(r, p, in), p)
  <1> DEFINE y == ExplosionNext(r, p, in)
  <1> SUFFICES ASSUME y.WE_O
               PROVE  y.Data_O \in {flame(p), path, item(p)} /\ InitialMap[y.Address] # wall
    BY DEF PortOK
  <1>1. Remains(p, in) \in {path, item(p)}
    BY DEF Remains
  <1>2. CASE r.phase = "START"
    <2>1. y = StartNext(r, p, in)
      BY <1>2 DEF ExplosionNext
    <2>2. CASE in.ready
      BY <2>1, <2>2, StartFields
    <2>3. CASE ~in.ready
      BY <2>1, <2>3, IdleFields DEF StartNext
    <2> QED BY <2>2, <2>3
  <1>3. ASSUME NEW look, NEW centre PROVE ~ArmNext(r, p, look, centre).WE_O
    BY OnFields, TurnFields, LastFields
  <1>4. CASE r.phase \in {"ARM", "C_ARM"}
    BY <1>3, <1>4 DEF ExplosionNext
  <1>5. CASE r.phase = "REPLACE"
    <2>1. y = ReplaceNext(r, p, in)
      BY <1>5 DEF ExplosionNext
    <2>2. /\ y.Address = r.Address /\ y.Data_O = flame(p)
          /\ (y.WE_O <=> in.Data_IN \notin {wall, bomb})
      BY <2>1, ReplaceFields
    <2> QED BY <2>2
  <1>6. CASE r.phase = "MID"
    <2>1. y = MidNext(r, p)
      BY <1>6 DEF ExplosionNext
    <2>2. y.Address = r.Address /\ y.Data_O = flame(p)
      BY <2>1, MidFields
    <2> QED BY <1>6, <2>2 DEF BurningOK, FlamesOK
  <1>7. CASE r.phase = "WAIT"
    <2>1. y = WaitNext(r, p, in)
      BY <1>7 DEF ExplosionNext
    <2> QED BY <2>1, WaitFields
  <1>8. CASE r.phase = "CLEAR"
    <2>1. y = ClearNext(r, p, in)
      BY <1>8 DEF ExplosionNext
    <2>2. /\ y.Address = r.Address /\ (y.WE_O <=> Own(p, in.Data_IN))
          /\ Own(p, in.Data_IN) => y.Data_O = Remains(p, in)
      BY <2>1, ClearFields
    <2>3. Own(p, in.Data_IN) => in.Data_IN # wall
      BY DEF Own, flame, wall, Players
    <2> QED BY <1>1, <2>2, <2>3
  <1>9. CASE r.phase = "C_MID"
    <2>1. y = ClearMidNext(r, p, in)
      BY <1>9 DEF ExplosionNext
    <2>2. y.Address = r.Address /\ y.Data_O = Remains(p, in)
      BY <2>1, ClearMidFields
    <2> QED BY <1>1, <1>9, <2>2 DEF FlamesOK, ClearWalk
  <1>10. r.phase \in Phases
    BY RegsOf
  <1> QED BY <1>2, <1>4, <1>5, <1>6, <1>7, <1>8, <1>9, <1>10 DEF Phases

-----------------------------------------------------------------------------
(***************************************************************************)
(* The requests on their way, with the flames in them.                     *)
(***************************************************************************)
LEMMA AskedAreRequests ==
    ASSUME TypeOK
    PROVE  /\ Writing \in SUBSET Ports /\ Writing \subseteq Players
           /\ \A p \in Writing : /\ x[p].WE_O /\ Asked[p] \in Requests
                                 /\ Asked[p] = [addr |-> x[p].Address, data |-> x[p].Data_O]
  <1>1. Writing \in SUBSET Ports /\ Writing \subseteq Players
    BY Board DEF Writing
  <1>2. ASSUME NEW p \in Writing
        PROVE  /\ x[p].WE_O /\ Asked[p] \in Requests
               /\ Asked[p] = [addr |-> x[p].Address, data |-> x[p].Data_O]
    <2>1. x[p].Address \in Addrs /\ x[p].Data_O \in Data
      BY <1>1, <1>2, Board, RegsAre, RegsOf DEF TypeOK
    <2>2. Asked[p] = [addr |-> x[p].Address, data |-> x[p].Data_O]
      BY <1>1, <1>2 DEF Asked
    <2> QED BY <2>1, <2>2 DEF Requests, Writing
  <1> QED BY <1>1, <1>2

(* After an edge on which the editor runs, a request waits one place       *)
(* further on, or an explosion has just made it.                           *)
LEMMA ClockMoves ==
    ASSUME TypeOK, NEW reset \in BOOLEAN, NEW lucky, ~reset, ~log.sweeping,
           Clock(reset, lucky)
    PROVE  ~log'.sweeping /\ Moved(log.pending, log'.pending, Writing, Asked)
  <1>1. log \in LogStates /\ log' = LogNext(log, reset, Writing, Asked)
    BY DEF Clock, TypeOK
  <1>2. Writing \in SUBSET Ports /\ \A p \in Writing : Asked[p] \in Requests
    BY AskedAreRequests
  <1> QED BY <1>1, <1>2, LogMoves

(* An edge on which it does not leaves no request.                         *)
LEMMA ClockSweeps ==
    ASSUME TypeOK, NEW reset \in BOOLEAN, NEW lucky, reset \/ log.sweeping,
           log.sweeping => log.pending = << >>, Clock(reset, lucky)
    PROVE  /\ log'.pending = << >>
           /\ log'.sweeping =>
                 log'.at = 0 \/ (log.sweeping /\ log'.at = log.at + 1)
           /\ ~log'.sweeping => log.sweeping /\ log.at = SweepLast
  <1>1. log \in LogStates /\ log' = LogNext(log, reset, Writing, Asked)
    BY DEF Clock, TypeOK
  <1>2. CASE reset
    <2>1. log' = [sweeping |-> TRUE, at |-> 0, pending |-> << >>]
      BY <1>1, <1>2 DEF LogNext
    <2> QED BY <2>1
  <1>3. CASE ~reset /\ log.at = SweepLast
    <2>1. log' = EmptyLog
      BY <1>1, <1>3 DEF LogNext
    <2> QED BY <1>3, <2>1 DEF EmptyLog
  <1>4. CASE ~reset /\ log.at # SweepLast
    <2>1. log' = [log EXCEPT !.at = log.at + 1]
      BY <1>1, <1>4 DEF LogNext
    <2>2. log'.sweeping /\ log'.pending = << >> /\ log'.at = log.at + 1
      BY <1>1, <1>4, <2>1 DEF LogStates
    <2> QED BY <1>4, <2>2
  <1> QED BY <1>2, <1>3, <1>4

LEMMA PutOutMoves ==
    ASSUME TypeOK, Moved(log.pending, log'.pending, Writing, Asked),
           NEW p \in Players, NEW a, NEW k \in 0 .. Len(log.pending), PutOut(p, a, k),
           k = 0 /\ log.pending # << >> /\ log.pending[1].addr = a
              => log.pending[1].data = flame(p),
           NEW i, i = IF k = 0 THEN 0 ELSE k - 1
    PROVE  PutOut(p, a, i)'
  <1> DEFINE s == log.pending
             t == log'.pending
             m == StillWaiting(s)
  <1>1. /\ s \in Seq(Requests) /\ m \in Nat /\ Len(t) \in Nat /\ m <= Len(t)
        /\ \A j \in 1 .. m : t[j] = s[j + 1]
        /\ m = IF s = << >> THEN 0 ELSE Len(s) - 1
    BY DEF TypeOK, LogStates, Moved, StillWaiting
  <1>2. Len(s) \in Nat /\ (s = << >> <=> Len(s) = 0)
    BY <1>1
  <1>3. i \in 0 .. m
    BY <1>1, <1>2
  <1>4. CASE x[p].WE_O /\ x[p].Address = a /\ x[p].Data_O # flame(p)
    <2>1. p \in Writing
      BY <1>4 DEF Writing
    <2>2. Asked[p] = [addr |-> x[p].Address, data |-> x[p].Data_O]
      BY <2>1, AskedAreRequests
    <2>3. PICK j \in m + 1 .. Len(t) : t[j] = Asked[p]
      BY <2>1 DEF Moved
    <2>4. j \in i + 1 .. Len(t) /\ t[j].addr = a /\ t[j].data # flame(p)
      BY <1>1, <1>3, <1>4, <2>2, <2>3
    <2> QED BY <2>4 DEF PutOut
  <1>5. CASE \E j \in k + 1 .. Len(s) : s[j].addr = a /\ s[j].data # flame(p)
    <2>1. PICK j \in k + 1 .. Len(s) : s[j].addr = a /\ s[j].data # flame(p)
      BY <1>5
    <2>2. j # 1
      BY <1>2, <2>1
    <2>3. j - 1 \in 1 .. m /\ (j - 1) + 1 = j /\ j - 1 \in i + 1 .. Len(t)
      BY <1>1, <1>2, <2>1, <2>2
    <2>4. t[j - 1] = s[j]
      BY <1>1, <2>3
    <2> QED BY <2>1, <2>3, <2>4 DEF PutOut
  <1> QED BY <1>4, <1>5 DEF PutOut

LEMMA NewRequests ==
    ASSUME TypeOK, Moved(log.pending, log'.pending, Writing, Asked),
           NEW k \in 1 .. Len(log'.pending)
    PROVE  \/ /\ k \in 1 .. StillWaiting(log.pending) /\ log.pending # << >>
              /\ k + 1 \in 1 .. Len(log.pending)
              /\ log'.pending[k] = log.pending[k + 1]
           \/ \E q \in Players : /\ x[q].WE_O /\ log'.pending[k].addr = x[q].Address
                                 /\ log'.pending[k].data = x[q].Data_O
  <1> DEFINE s == log.pending
             t == log'.pending
             m == StillWaiting(s)
  <1>1. /\ s \in Seq(Requests) /\ m \in Nat /\ Len(t) \in Nat
        /\ \A j \in 1 .. m : t[j] = s[j + 1]
        /\ \A j \in m + 1 .. Len(t) : \E q \in Writing : t[j] = Asked[q]
        /\ m = IF s = << >> THEN 0 ELSE Len(s) - 1
    BY DEF TypeOK, LogStates, Moved, StillWaiting
  <1>2. Len(s) \in Nat /\ (s = << >> <=> Len(s) = 0)
    BY <1>1
  <1>3. CASE k \in 1 .. m
    BY <1>1, <1>2, <1>3
  <1>4. CASE k \notin 1 .. m
    <2>1. k \in m + 1 .. Len(t)
      BY <1>1, <1>4
    <2>2. PICK q \in Writing : t[k] = Asked[q]
      BY <1>1, <2>1
    <2>3. q \in Players /\ x[q].WE_O
          /\ Asked[q] = [addr |-> x[q].Address, data |-> x[q].Data_O]
      BY AskedAreRequests
    <2> QED BY <2>2, <2>3
  <1> QED BY <1>3, <1>4

LEMMA OthersFlame ==
    ASSUME NEW p \in Players, NEW q \in Players, NEW d, d \in {flame(q), path, item(q)},
           d = flame(p)
    PROVE  q = p
  BY DEF flame, path, item, Players

LEMMA FlamesMove ==
    ASSUME TypeOK, \A q \in Players : PortOK(x[q], q),
           NEW lucky, ~log.sweeping, Clock(FALSE, lucky), NEW p \in Players
    PROVE  FlamesNext(x[p], Flames(p), x'[p], Flames(p)', p)
  <1> DEFINE s == log.pending
             t == log'.pending
  <1>1. ~log'.sweeping /\ Moved(s, t, Writing, Asked)
    BY ClockMoves
  <1>2. /\ s \in Seq(Requests) /\ Len(s) \in Nat /\ (s = << >> <=> Len(s) = 0)
        /\ log \in LogStates
    BY DEF TypeOK, LogStates
  <1>3. ASSUME NEW a \in Flames(p)'
        PROVE  a \in Flames(p) \/ (x[p].WE_O /\ x[p].Data_O = flame(p) /\ a = x[p].Address)
    <2>1. /\ a \in Addrs
          /\ \/ map'[a] = flame(p) /\ ~PutOut(p, a, 0)'
             \/ \E k \in 1 .. Len(t) : /\ t[k].addr = a /\ t[k].data = flame(p)
                                       /\ ~PutOut(p, a, k)'
      BY <1>1, <1>3 DEF Flames
    <2>2. CASE map'[a] = flame(p) /\ ~PutOut(p, a, 0)'
      <3>1. map'[a] = IF s # << >> /\ s[1].addr = a THEN s[1].data ELSE map[a]
        BY <1>2, <2>1, CellNext DEF Clock
      <3>2. CASE s # << >> /\ s[1].addr = a
        <4>1. 1 \in 1 .. Len(s) /\ s[1].data = flame(p) /\ 1 \in 0 .. Len(s) /\ 0 = 1 - 1
          BY <1>2, <2>2, <3>1, <3>2
        <4>2. ~PutOut(p, a, 1)
          <5> SUFFICES ASSUME PutOut(p, a, 1) PROVE FALSE
            OBVIOUS
          <5>1. 0 = (IF 1 = 0 THEN 0 ELSE 1 - 1)
            OBVIOUS
          <5>2. PutOut(p, a, 0)'
            BY ONLY TypeOK, <1>1, <4>1, <5>1, PutOut(p, a, 1), p \in Players, PutOutMoves
          <5> QED BY <2>2, <5>2
        <4> QED BY <2>1, <3>2, <4>1, <4>2 DEF Flames
      <3>3. CASE ~(s # << >> /\ s[1].addr = a)
        <4>1. map[a] = flame(p) /\ 0 \in 0 .. Len(s)
          BY <1>2, <2>2, <3>1, <3>3
        <4>2. ~PutOut(p, a, 0)
          <5> SUFFICES ASSUME PutOut(p, a, 0) PROVE FALSE
            OBVIOUS
          <5>1. 0 = (IF 0 = 0 THEN 0 ELSE 0 - 1)
            OBVIOUS
          <5>2. PutOut(p, a, 0)'
            BY ONLY TypeOK, <1>1, <3>3, <4>1, <5>1, PutOut(p, a, 0), p \in Players, PutOutMoves
          <5> QED BY <2>2, <5>2
        <4> QED BY <2>1, <4>1, <4>2 DEF Flames
      <3> QED BY <3>2, <3>3
    <2>3. CASE \E k \in 1 .. Len(t) : /\ t[k].addr = a /\ t[k].data = flame(p)
                                      /\ ~PutOut(p, a, k)'
      <3>1. PICK k \in 1 .. Len(t) : /\ t[k].addr = a /\ t[k].data = flame(p)
                                     /\ ~PutOut(p, a, k)'
        BY <2>3
      <3>2. CASE k + 1 \in 1 .. Len(s) /\ t[k] = s[k + 1]
        <4>1. ~PutOut(p, a, k + 1)
          <5> SUFFICES ASSUME PutOut(p, a, k + 1) PROVE FALSE
            OBVIOUS
          <5>1. k = (IF k + 1 = 0 THEN 0 ELSE (k + 1) - 1) /\ k + 1 # 0
                /\ k + 1 \in 0 .. Len(s)
            BY <1>2, <3>2
          <5>2. PutOut(p, a, k)'
            BY ONLY TypeOK, <1>1, <5>1, PutOut(p, a, k + 1), p \in Players, PutOutMoves
          <5> QED BY <3>1, <5>2
        <4> QED BY <2>1, <3>1, <3>2, <4>1 DEF Flames
      <3>3. CASE \E q \in Players : /\ x[q].WE_O /\ t[k].addr = x[q].Address
                                    /\ t[k].data = x[q].Data_O
        <4>1. PICK q \in Players : /\ x[q].WE_O /\ t[k].addr = x[q].Address
                                   /\ t[k].data = x[q].Data_O
          BY <3>3
        <4>2. q = p
          BY <3>1, <4>1, OthersFlame DEF PortOK
        <4> QED BY <3>1, <4>1, <4>2
      <3> QED BY <1>1, <3>2, <3>3, NewRequests
    <2> QED BY <2>1, <2>2, <2>3
  <1>4. x'[p].WE_O /\ x'[p].Data_O # flame(p) => x'[p].Address \notin Flames(p)'
    BY <1>1 DEF Flames, PutOut
  <1> QED BY <1>3, <1>4 DEF FlamesNext

(* None of the flames of p is on its way after an edge if none was.        *)
LEMMA StillNone ==
    ASSUME TypeOK, \A q \in Players : PortOK(x[q], q), SweptOK,
           NEW reset \in BOOLEAN, NEW lucky, Clock(reset, lucky), NEW p \in Players,
           NonePending(p), x[p].WE_O => x[p].Data_O # flame(p)
    PROVE  NonePending(p)'
  <1>1. CASE reset \/ log.sweeping
    <2>1. log'.pending = << >>
      BY <1>1, ClockSweeps DEF SweptOK
    <2> QED BY <2>1 DEF NonePending
  <1>2. CASE ~reset /\ ~log.sweeping
    <2>1. Moved(log.pending, log'.pending, Writing, Asked)
      BY <1>2, ClockMoves
    <2>2. ASSUME NEW k \in 1 .. Len(log'.pending) PROVE log'.pending[k].data # flame(p)
      <3>1. CASE k + 1 \in 1 .. Len(log.pending) /\ log'.pending[k] = log.pending[k + 1]
        BY <3>1 DEF NonePending
      <3>2. CASE \E q \in Players : /\ x[q].WE_O /\ log'.pending[k].addr = x[q].Address
                                    /\ log'.pending[k].data = x[q].Data_O
        <4>1. PICK q \in Players : x[q].WE_O /\ log'.pending[k].data = x[q].Data_O
          BY <3>2
        <4>2. CASE q = p
          BY <4>1, <4>2
        <4>3. CASE q # p
          BY <4>1, <4>3, OthersFlame DEF PortOK
        <4> QED BY <4>2, <4>3
      <3> QED BY <2>1, <3>1, <3>2, NewRequests
    <2> QED BY <2>2 DEF NonePending
  <1> QED BY <1>1, <1>2

-----------------------------------------------------------------------------
(***************************************************************************)
(* The time of an explosion: what it burned has come to the map when it    *)
(* clears, because a tick lies between.                                    *)
(***************************************************************************)
LEMMA ClearTimeLater ==
    ASSUME NEW t \in 0 .. TimerSpan - 1
    PROVE  t # ClearTime(t)
  <1>1. TimerSpan \in Nat \ {0} /\ FlameTicks \in 1 .. TimerSpan - 1
    BY ExplosionsAssumption
  <1>2. CASE t + FlameTicks < TimerSpan
    <2>1. (t + FlameTicks) % TimerSpan = t + FlameTicks
      BY <1>1, <1>2
    <2> QED BY <1>1, <2>1 DEF ClearTime
  <1>3. CASE t + FlameTicks >= TimerSpan
    <2>1. (t + FlameTicks) - TimerSpan \in 0 .. TimerSpan - 1
      BY <1>1, <1>3
    <2>2. t + FlameTicks \in Nat /\ t + FlameTicks = 1 * TimerSpan + ((t + FlameTicks) - TimerSpan)
      BY <1>1
    <2>3. /\ t + FlameTicks
               = ((t + FlameTicks) \div TimerSpan) * TimerSpan + ((t + FlameTicks) % TimerSpan)
          /\ (t + FlameTicks) % TimerSpan \in 0 .. TimerSpan - 1
          /\ (t + FlameTicks) \div TimerSpan \in Nat
      BY <1>1, <2>2, Rest
    <2>4. (t + FlameTicks) % TimerSpan = (t + FlameTicks) - TimerSpan
      <3> DEFINE u == t + FlameTicks
                 r == u % TimerSpan
                 q == u \div TimerSpan
                 v == u - TimerSpan
      <3>1. q \in Int /\ 1 \in Int /\ r \in 0 .. TimerSpan - 1 /\ v \in 0 .. TimerSpan - 1
            /\ q * TimerSpan + r = 1 * TimerSpan + v
        BY <2>1, <2>2, <2>3
      <3> HIDE DEF r, q, v
      <3>2. r = v
        BY ONLY <1>1, <3>1, UniqueRest
      <3> QED BY <3>2 DEF r, v
    <2> QED BY <1>1, <2>4 DEF ClearTime
  <1>4. t + FlameTicks \in Nat
    BY <1>1
  <1> QED BY <1>1, <1>2, <1>3, <1>4

LEMMA TimeStep ==
    ASSUME NEW r \in Regs, NEW p \in Players, NEW in
    PROVE  LET y == ExplosionNext(r, p, in)
           IN  /\ r.phase = "START" /\ ~in.ready => y.phase = "START"
               /\ r.phase = "START" /\ in.ready =>
                     y.phase = "ARM" /\ y.clear_time = ClearTime(in.timer)
               /\ r.phase \in {"ARM", "REPLACE", "MID"} =>
                     /\ y.phase \in {"ARM", "REPLACE", "MID", "WAIT"}
                     /\ y.clear_time = r.clear_time
               /\ r.phase = "WAIT" =>
                     /\ y.phase = (IF in.timer = r.clear_time THEN "C_ARM" ELSE "WAIT")
                     /\ y.clear_time = r.clear_time
               /\ r.phase \in {"C_ARM", "CLEAR", "C_MID"} =>
                     y.phase \in {"START", "C_ARM", "CLEAR", "C_MID"}
  <1> DEFINE y == ExplosionNext(r, p, in)
  <1>1. CASE r.phase = "START"
    <2>1. y = StartNext(r, p, in)
      BY <1>1 DEF ExplosionNext
    <2>2. in.ready => y.phase = "ARM" /\ y.clear_time = ClearTime(in.timer)
      BY <2>1, StartFields
    <2>3. ~in.ready => y.phase = "START"
      BY <1>1, <2>1, IdleFields DEF StartNext
    <2> HIDE DEF y
    <2>4. QED BY <1>1, <2>2, <2>3 DEF y
  <1>2. ASSUME NEW look, NEW centre
        PROVE  /\ ArmNext(r, p, look, centre).phase \in {r.phase, look, centre}
               /\ ArmNext(r, p, look, centre).clear_time = r.clear_time
    BY OnFields, TurnFields, LastFields
  <1>3. CASE r.phase = "ARM"
    <2>1. y = ArmNext(r, p, "REPLACE", "MID")
      BY <1>3 DEF ExplosionNext
    <2>2. y.phase \in {r.phase, "REPLACE", "MID"} /\ y.clear_time = r.clear_time
      BY <1>2, <2>1
    <2> HIDE DEF y
    <2>3. QED BY <1>3, <2>2 DEF y
  <1>4. CASE r.phase = "REPLACE"
    <2>1. y = ReplaceNext(r, p, in)
      BY <1>4 DEF ExplosionNext
    <2>2. y.phase = "ARM" /\ y.clear_time = r.clear_time
      BY <2>1, ReplaceFields
    <2> HIDE DEF y
    <2>3. QED BY <1>4, <2>2 DEF y
  <1>5. CASE r.phase = "MID"
    <2>1. y = MidNext(r, p)
      BY <1>5 DEF ExplosionNext
    <2>2. y.phase = "WAIT" /\ y.clear_time = r.clear_time
      BY <2>1, MidFields
    <2> HIDE DEF y
    <2>3. QED BY <1>5, <2>2 DEF y
  <1>6. CASE r.phase = "WAIT"
    <2>1. y = WaitNext(r, p, in)
      BY <1>6 DEF ExplosionNext
    <2>2. /\ y.phase = (IF in.timer = r.clear_time THEN "C_ARM" ELSE r.phase)
          /\ y.clear_time = r.clear_time
      BY <2>1, WaitFields
    <2> HIDE DEF y
    <2>3. QED BY <1>6, <2>2 DEF y
  <1>7. CASE r.phase = "C_ARM"
    <2>1. y = ArmNext(r, p, "CLEAR", "C_MID")
      BY <1>7 DEF ExplosionNext
    <2>2. y.phase \in {r.phase, "CLEAR", "C_MID"}
      BY <1>2, <2>1
    <2> HIDE DEF y
    <2>3. QED BY <1>7, <2>2 DEF y
  <1>8. CASE r.phase = "CLEAR"
    <2>1. y = ClearNext(r, p, in)
      BY <1>8 DEF ExplosionNext
    <2>2. y.phase = "C_ARM"
      BY <2>1, ClearFields
    <2> HIDE DEF y
    <2>3. QED BY <1>8, <2>2 DEF y
  <1>9. CASE r.phase = "C_MID"
    <2>1. y = ClearMidNext(r, p, in)
      BY <1>9 DEF ExplosionNext
    <2>2. y.phase = "START"
      BY <2>1, ClearMidFields
    <2> HIDE DEF y
    <2>3. QED BY <1>9, <2>2 DEF y
  <1>10. r.phase \in Phases
    BY RegsOf
  <1> HIDE DEF y
  <1>11. QED BY <1>1, <1>3, <1>4, <1>5, <1>6, <1>7, <1>8, <1>9, <1>10 DEF Phases, y

LEMMA ClockTime ==
    ASSUME IInv, \A q \in Players : PortOK(x[q], q), SweptOK,
           NEW reset \in BOOLEAN, NEW lucky \in Luck, Clock(reset, lucky),
           NEW p \in Players, TimeOK(p)
    PROVE  TimeOK(p)'
  <1> DEFINE r == x[p]
             y == x'[p]
             in == Input(p, lucky)
  <1>1. r \in Regs /\ y = ExplosionNext(r, p, in) /\ timer' = timer
        /\ in.timer = timer /\ timer \in 0 .. TimerSpan - 1 /\ WritingOK(r, p)
    BY RegsAre DEF IInv, TypeOK, FireOK, Clock, Input
  <1>2. r.phase \in Phases
    BY <1>1, RegsOf
  <1>3. NonePending(p) /\ (r.WE_O => r.Data_O # flame(p)) => NonePending(p)'
    BY StillNone DEF IInv
  <1> HIDE DEF r, y, in
  <1>4. CASE r.phase = "START"
    <2>1. NonePending(p) /\ (r.WE_O => r.Data_O # flame(p))
      BY <1>1, <1>4 DEF TimeOK, WritingOK, r
    <2>2. CASE in.ready
      <3>1. y.phase = "ARM" /\ y.clear_time = ClearTime(timer)
        BY <1>1, <1>4, <2>2, TimeStep
      <3>2. timer' # y.clear_time
        BY <1>1, <3>1, ClearTimeLater
      <3> QED BY <3>1, <3>2 DEF TimeOK, y
    <2>3. CASE ~in.ready
      <3>1. y.phase = "START"
        BY <1>1, <1>4, <2>3, TimeStep
      <3> QED BY <1>3, <2>1, <3>1 DEF TimeOK, y
    <2> QED BY <2>2, <2>3
  <1>5. CASE r.phase \in {"ARM", "REPLACE", "MID"}
    <2>1. y.phase \in {"ARM", "REPLACE", "MID", "WAIT"} /\ y.clear_time = r.clear_time
      BY <1>1, <1>5, TimeStep
    <2>2. timer' # y.clear_time
      BY <1>1, <1>5, <2>1 DEF TimeOK, r
    <2> QED BY <2>1, <2>2 DEF TimeOK, y
  <1>6. CASE r.phase = "WAIT" /\ timer # r.clear_time
    <2>1. y.phase = "WAIT" /\ y.clear_time = r.clear_time
      BY <1>1, <1>6, TimeStep
    <2> QED BY <1>1, <1>6, <2>1 DEF TimeOK, y
  <1>7. CASE r.phase = "WAIT" /\ timer = r.clear_time
    <2>1. y.phase = "C_ARM"
      BY <1>1, <1>7, TimeStep
    <2>2. NonePending(p) /\ ~r.WE_O
      BY <1>7 DEF TimeOK, r
    <2> QED BY <1>3, <2>1, <2>2 DEF TimeOK, y
  <1>8. CASE r.phase \in {"C_ARM", "CLEAR", "C_MID"}
    <2>1. y.phase \in {"START", "C_ARM", "CLEAR", "C_MID"}
      BY <1>1, <1>8, TimeStep
    <2>2. NonePending(p) /\ (r.WE_O => r.Data_O # flame(p))
      BY <1>1, <1>8 DEF TimeOK, WritingOK, r
    <2> QED BY <1>3, <2>1, <2>2 DEF TimeOK, y
  <1> QED BY <1>2, <1>4, <1>5, <1>6, <1>7, <1>8 DEF Phases

(* Walls stay where they are.                                              *)
LEMMA ClockWalls ==
    ASSUME TypeOK, WallsOK, SweptOK, \A q \in Players : PortOK(x[q], q),
           NEW reset \in BOOLEAN, NEW lucky, Clock(reset, lucky)
    PROVE  WallsOK'
  <1>1. log \in LogStates /\ log.pending \in Seq(Requests)
        /\ map' = MapNext(map, LogWrites(log))
    BY DEF TypeOK, LogStates, Clock
  <1>2. ASSUME NEW a \in Addrs PROVE map'[a] = wall <=> InitialMap[a] = wall
    <2>1. map[a] = wall <=> InitialMap[a] = wall
      BY DEF WallsOK
    <2>2. CASE log.sweeping
      <3>1. /\ a = log.at => MapNext(map, LogWrites(log))[a] = InitialMap[a]
            /\ a # log.at => MapNext(map, LogWrites(log))[a] = map[a]
        BY ONLY <1>1, <2>2, a \in Addrs, CellSwept
      <3> QED BY <1>1, <2>1, <3>1
    <2>3. CASE ~log.sweeping
      <3>1. map'[a] = IF log.pending # << >> /\ log.pending[1].addr = a
                      THEN log.pending[1].data ELSE map[a]
        BY <1>1, <2>3, CellNext
      <3>2. log.pending # << >> => 1 \in 1 .. Len(log.pending)
        BY <1>1
      <3> QED BY <2>1, <3>1, <3>2 DEF WallsOK
    <2> QED BY <2>2, <2>3
  <1>3. ASSUME NEW k \in 1 .. Len(log'.pending)
        PROVE  log'.pending[k].data # wall /\ InitialMap[log'.pending[k].addr] # wall
    <2>1. CASE reset \/ log.sweeping
      <3>1. log'.pending = << >>
        BY <2>1, ClockSweeps DEF SweptOK
      <3> QED BY <1>3, <3>1
    <2>2. CASE ~reset /\ ~log.sweeping
      <3>1. Moved(log.pending, log'.pending, Writing, Asked)
        BY <2>2, ClockMoves
      <3>2. CASE k + 1 \in 1 .. Len(log.pending) /\ log'.pending[k] = log.pending[k + 1]
        BY <3>2 DEF WallsOK
      <3>3. CASE \E q \in Players : /\ x[q].WE_O /\ log'.pending[k].addr = x[q].Address
                                    /\ log'.pending[k].data = x[q].Data_O
        <4>1. PICK q \in Players : /\ x[q].WE_O /\ log'.pending[k].addr = x[q].Address
                                   /\ log'.pending[k].data = x[q].Data_O
          BY <3>3
        <4>2. x[q].Data_O \in {flame(q), path, item(q)} /\ InitialMap[x[q].Address] # wall
          BY <4>1 DEF PortOK
        <4>3. x[q].Data_O # wall
          BY <4>2 DEF flame, path, item, wall, Players
        <4> QED BY <4>1, <4>2, <4>3
      <3> QED BY <3>1, <3>2, <3>3, NewRequests
    <2> QED BY <2>1, <2>2
  <1>4. ASSUME NEW p \in Players, NEW b \in due'[p] PROVE InitialMap[b.at] # wall
    <2>1. due'[p] \subseteq due[p]
      BY DEF Clock
    <2> QED BY <2>1 DEF WallsOK
  <1> QED BY <1>2, <1>3, <1>4 DEF WallsOK

LEMMA ClockSwept ==
    ASSUME NoFlamesYet, TypeOK, SweptOK, NEW reset \in BOOLEAN, NEW lucky, Clock(reset, lucky)
    PROVE  /\ SweptOK'
           /\ reset \/ log.sweeping => \A p \in Players : Flames(p)' = {}
  <1>1. /\ log \in LogStates /\ log.at \in 0 .. SweepLast /\ SweepLast \in Nat
        /\ LastAddr \in Nat /\ LastAddr <= SweepLast
        /\ map' = MapNext(map, LogWrites(log))
    BY EditorAssumption DEF TypeOK, LogStates, Clock
  <1>2. ASSUME log.sweeping, NEW a \in Addrs, a <= log.at, NEW p \in Players
        PROVE  map'[a] # flame(p)
    <2>1. /\ a = log.at => MapNext(map, LogWrites(log))[a] = InitialMap[a]
          /\ a # log.at => MapNext(map, LogWrites(log))[a] = map[a]
      BY ONLY <1>1, <1>2, a \in Addrs, CellSwept
    <2>2. a < log.at \/ a = log.at
      BY <1>1, <1>2 DEF Addrs
    <2> QED BY <1>1, <1>2, <2>1, <2>2 DEF SweptOK, NoFlamesYet
  <1>3. CASE ~reset /\ ~log.sweeping
    BY <1>3, ClockMoves DEF SweptOK
  <1>4. CASE reset \/ log.sweeping
    <2>1. /\ log'.pending = << >>
          /\ log'.sweeping =>
                log'.at = 0 \/ (log.sweeping /\ log'.at = log.at + 1)
          /\ ~log'.sweeping => log.sweeping /\ log.at = SweepLast
      BY <1>4, ClockSweeps DEF SweptOK
    <2>2. SweptOK'
      <3> SUFFICES ASSUME log'.sweeping, NEW a \in Addrs, NEW p \in Players, a < log'.at
                   PROVE  map'[a] # flame(p)
        BY <2>1 DEF SweptOK
      <3>1. a \in Nat /\ ~(a < 0)
        BY DEF Addrs
      <3>2. log.sweeping /\ a <= log.at
        BY <1>1, <2>1, <3>1
      <3> QED BY <1>2, <3>2
    <2>3. ASSUME NEW p \in Players PROVE Flames(p)' = {}
      <3>1. CASE log'.sweeping
        BY <3>1 DEF Flames
      <3>2. CASE ~log'.sweeping
        <4>1. \A a \in Addrs : a <= log.at
          BY <1>1, <2>1, <3>2 DEF Addrs
        <4>2. \A a \in Addrs : map'[a] # flame(p)
          BY <1>2, <2>1, <3>2, <4>1
        <4> QED BY <2>1, <3>2, <4>2 DEF Flames
      <3> QED BY <3>1, <3>2
    <2> QED BY <2>2, <2>3
  <1> QED BY <1>3, <1>4

LEMMA ClockFlames ==
    ASSUME NoFlamesYet, FlameInv, NEW reset \in BOOLEAN, NEW lucky \in Luck,
           Clock(reset, lucky), NEW p \in Players
    PROVE  FlamesOK(x[p], Flames(p))' /\ PortOK(x'[p], p)
  <1> DEFINE r == x[p]
             in == Input(p, lucky)
             F == Flames(p)
             G == Flames(p)'
  <1>1. /\ r \in Regs /\ x'[p] = ExplosionNext(r, p, in) /\ r.Address \in Addrs
        /\ FlamesOK(r, F) /\ BurningOK(r, burned[p]) /\ WritingOK(r, p)
        /\ in.Data_IN = map[r.Address]
    BY RegsAre, RegsOf, Board DEF FlameInv, IInv, TypeOK, FireOK, Clock, Input
  <1>2. in.ready => /\ in.length \in Sizes /\ Fits(in.length)
                    /\ in.coordinate \in Cells /\ InitialMap[in.coordinate] # wall
    <2>1. in.ready => /\ in.length \in Sizes /\ Fits(in.length) /\ in.coordinate \in Cells
      BY InputOK DEF FlameInv, IInv
    <2>2. in.ready => \E b \in due[p] : in.coordinate = b.at
      BY DEF Input
    <2> QED BY <2>1, <2>2 DEF FlameInv, WallsOK
  <1>3. in.Data_IN = wall <=> InitialMap[r.Address] = wall
    BY <1>1 DEF FlameInv, WallsOK
  <1>4. r.phase = "CLEAR" /\ in.Data_IN # flame(p) => r.Address \notin F
    BY <1>1 DEF FlameInv, TimeOK, NonePending, Flames
  <1>5. FlamesNext(r, F, x'[p], G, p)
    <2>1. CASE reset \/ log.sweeping
      <3>1. G = {}
        BY <2>1, ClockSwept DEF FlameInv, IInv
      <3> QED BY <3>1 DEF FlamesNext
    <2>2. CASE ~reset /\ ~log.sweeping
      <3>1. reset = FALSE
        BY <2>2
      <3>2. Clock(FALSE, lucky)
        BY <3>1
      <3> QED BY <2>2, <3>2, FlamesMove DEF FlameInv, IInv
    <2> QED BY <2>1, <2>2
  <1>6. BoardOK
    BY Board
  <1> HIDE DEF r, in, F, G
  <1>7. FlamesOK(ExplosionNext(r, p, in), G)
    BY <1>1, <1>2, <1>3, <1>4, <1>5, <1>6, FlameStep
  <1>8. PortOK(ExplosionNext(r, p, in), p)
    BY <1>1, <1>3, PortStep
  <1> QED BY <1>1, <1>7, <1>8 DEF r, G

LEMMA TickFlames ==
    ASSUME FlameInv, Tick
    PROVE  WallsOK' /\ SweptOK' /\ \A p \in Players : TimeOK(p)'
  <1>1. /\ x' = x /\ log' = log /\ map' = map /\ log.pending = << >>
        /\ Rested /\ due' \in FallDue
    BY DEF Tick
  <1>2. WallsOK'
    <2>1. ASSUME NEW p \in Players, NEW b \in due'[p] PROVE InitialMap[b.at] # wall
      <3>1. map[b.at] # wall
        BY <1>1, <2>1 DEF FallDue
      <3>2. b \in Bombs
        BY <1>1, <2>1 DEF FallDue
      <3>3. b.at \in Addrs
        BY <3>2, Board
      <3> QED BY <3>1, <3>3 DEF FlameInv, WallsOK
    <2> QED BY <1>1, <2>1 DEF FlameInv, WallsOK
  <1>3. SweptOK'
    BY <1>1 DEF FlameInv, SweptOK
  <1>4. ASSUME NEW p \in Players PROVE TimeOK(p)'
    <2>1. x[p].phase \in {"START", "WAIT"} /\ ~x[p].WE_O
      BY <1>1 DEF Rested, Resting
    <2>2. NonePending(p)'
      BY <1>1 DEF NonePending
    <2> QED BY <1>1, <2>1, <2>2 DEF TimeOK
  <1> QED BY <1>2, <1>3, <1>4

LEMMA FlameInvariance == NoFlamesYet => (Spec => []FlameInv)
  <1> SUFFICES ASSUME NoFlamesYet PROVE Spec => []FlameInv
    OBVIOUS
  <1>1. Init => FlameInv
    <2> SUFFICES ASSUME Init PROVE FlameInv
      OBVIOUS
    <2>1. map \in Maps /\ log.pending = << >> /\ ~log.sweeping
      BY DEF Init, EmptyLog
    <2>2. WallsOK /\ SweptOK
      BY <2>1 DEF Init, WallsOK, SweptOK, NoFlamesYet
    <2>3. ASSUME NEW p \in Players
          PROVE  FlamesOK(x[p], Flames(p)) /\ TimeOK(p) /\ PortOK(x[p], p)
      <3>1. x[p].phase = "START" /\ ~x[p].WE_O
        BY DEF Init, ExplosionPowerUp
      <3>2. Flames(p) = {}
        BY <2>1 DEF Flames, NoFlamesYet
      <3>3. FlamesOK(x[p], Flames(p))
        BY <3>1, <3>2 DEF FlamesOK, BurnWalk, ClearWalk
      <3>4. TimeOK(p) /\ PortOK(x[p], p)
        BY <2>1, <3>1 DEF TimeOK, PortOK, NonePending
      <3> QED BY <3>3, <3>4
    <2> QED BY <2>2, <2>3, InitOK DEF FlameInv
  <1>2. FlameInv /\ IInv' /\ [Next]_vars => FlameInv'
    <2> SUFFICES ASSUME FlameInv, IInv', [Next]_vars PROVE FlameInv'
      OBVIOUS
    <2>1. CASE Work \/ Reset
      <3>1. PICK reset \in BOOLEAN, lucky \in Luck : Clock(reset, lucky)
        BY <2>1 DEF Work, Reset
      <3>2. WallsOK' /\ SweptOK'
        BY <3>1, ClockWalls, ClockSwept DEF FlameInv, IInv
      <3>3. ASSUME NEW p \in Players
            PROVE  FlamesOK(x[p], Flames(p))' /\ TimeOK(p)' /\ PortOK(x'[p], p)
        <4>1. FlamesOK(x[p], Flames(p))' /\ PortOK(x'[p], p)
          BY <3>1, ClockFlames
        <4>2. TimeOK(p)'
          BY <3>1, ClockTime DEF FlameInv
        <4> QED BY <4>1, <4>2
      <3> QED BY <3>2, <3>3 DEF FlameInv, PortOK
    <2>2. CASE Tick
      <3>1. x' = x /\ log' = log /\ map' = map
        BY <2>2 DEF Tick
      <3>2. \A p \in Players : (FlamesOK(x[p], Flames(p)) /\ PortOK(x[p], p))'
        BY <3>1 DEF FlameInv, FlamesOK, BurnWalk, ClearWalk, Flames, PutOut, PortOK
      <3> QED BY <2>2, <3>2, TickFlames DEF FlameInv
    <2>3. CASE UNCHANGED vars
      <3>1. x' = x /\ log' = log /\ map' = map /\ timer' = timer /\ due' = due
        BY <2>3 DEF vars
      <3> QED BY <3>1 DEF FlameInv, FlamesOK, BurnWalk, ClearWalk, Flames, PutOut, PortOK,
                          WallsOK, SweptOK, TimeOK, NonePending
    <2> QED BY <2>1, <2>2, <2>3 DEF Next
  <1> QED BY <1>1, <1>2, Invariance, PTL DEF Spec

(* Every flame on the map is in the cross of an explosion of its colour    *)
(* that waits to clear it, for every map whose walls are those that a      *)
(* sweep restores and that holds no flame yet, whatever the other explosion*)
(* does, and with a Reset in any cycle (explosion.sv, Map.sv).             *)
THEOREM FlamesStayLive == ASSUME NoFlamesYet PROVE Spec => []FlamesAreLive
  <1>1. FlameInv => FlamesAreLive
    <2> SUFFICES ASSUME FlameInv, Quiet, NEW p \in Players, NEW a \in Addrs, map[a] = flame(p)
                 PROVE  x[p].phase = "WAIT" /\ a \in Cross(x[p].coords, x[p].length)
      BY DEF FlamesAreLive
    <2>1. log.pending = << >> /\ ~log.sweeping
      BY DEF Quiet, EmptyLog
    <2>2. x[p].phase \in {"START", "WAIT"} /\ ~x[p].WE_O
      BY DEF Quiet, Rested, Resting
    <2>3. a \in Flames(p)
      BY <2>1, <2>2 DEF Flames, PutOut
    <2>4. FlamesOK(x[p], Flames(p)) /\ x[p] \in Regs /\ BurningOK(x[p], burned[p])
      BY RegsAre DEF FlameInv, IInv, TypeOK, FireOK
    <2>5. x[p].phase = "WAIT" /\ InReach(x[p], a)
      BY <2>2, <2>3, <2>4 DEF FlamesOK
    <2>6. /\ x[p].coords \in Cells /\ x[p].length \in Sizes /\ Fits(x[p].length)
          /\ x[p].length \in 0 .. 3 /\ 1 \in Arms
      BY <2>4, <2>5, RegsOf, Values DEF BurningOK, Sizes
    <2>7. \E b \in Arms, k \in 0 .. x[p].length + 1 : a = CellAt(x[p].coords, b, k)
      <3>1. CellAt(x[p].coords, 1, 0) = x[p].coords
        BY <2>6, Board, FitsSpan, NoStep
      <3>2. \A k \in 1 .. x[p].length + 1 : k \in 0 .. x[p].length + 1
        OBVIOUS
      <3>3. 0 \in 0 .. x[p].length + 1
        BY <2>6
      <3> QED BY <2>5, <2>6, <3>1, <3>2, <3>3 DEF InReach
    <2> QED BY <2>5, <2>7 DEF Cross
  <1> QED BY <1>1, FlameInvariance, PTL

-----------------------------------------------------------------------------
(***************************************************************************)
(* What an explosion burns.  S is the map on which it began, W the cells   *)
(* it has set on fire and the one it is writing.                           *)
(***************************************************************************)
Solid == {wall, bomb, wood}

(* The first k cells of an arm let the fire pass.                          *)
Passable(S, c, arm, k) == \A i \in 1 .. k : S[CellAt(c, arm, i)] \notin Solid

Reached(S, c, arm, j) == /\ S[CellAt(c, arm, j)] \notin {wall, bomb}
                         /\ Passable(S, c, arm, j - 1)

(* Of the arms before this one all cells that the fire reaches are on      *)
(* fire, and of this arm those up to the k-th.                             *)
Covers(r, W, S, k) ==
    \A a \in Arms, j \in 1 .. r.length + 1 :
        Reached(S, r.coords, a, j) /\ (a < r.arm \/ (a = r.arm /\ j <= k))
            => CellAt(r.coords, a, j) \in W

Area(r, S) == BlastArea(S, r.coords, r.length)

Wire(r, B) == IF r.WE_O THEN B \union {r.Address} ELSE B

ArmArea(r, W, S, al) ==
    \E k \in 0 .. r.length + 1 :
        /\ r.Address = CellAt(r.coords, r.arm, k)
        /\ r.count = 7 \/ r.count = FirstCount(r.length) + k
        /\ Covers(r, W, S, IF r.count = 7 THEN r.length + 1 ELSE k)
        /\ al /\ r.count # 7 => Passable(S, r.coords, r.arm, k)

ReplaceArea(r, W, S, al) ==
    \E k \in 1 .. r.length + 1 :
        /\ r.Address = CellAt(r.coords, r.arm, k)
        /\ r.count = FirstCount(r.length) + k
        /\ Covers(r, W, S, k - 1)
        /\ al => Passable(S, r.coords, r.arm, k - 1)

Burning == {"ARM", "REPLACE", "MID", "WAIT"}

AreaOK(r, W, S, al) ==
    /\ r.phase = "ARM" => ArmArea(r, W, S, al)
    /\ r.phase = "REPLACE" => ReplaceArea(r, W, S, al)
    /\ r.phase = "MID" => r.Address = r.coords /\ Area(r, S) \subseteq W \union {r.coords}
    /\ r.phase = "WAIT" => Area(r, S) \subseteq W
    /\ r.phase \in Burning /\ al => W \subseteq Area(r, S)

(* What the port of an explosion writes.                                   *)
DataOK(r, p) == r.WE_O => /\ r.Data_O \in {flame(p), path, item(p)}
                          /\ r.phase \in Burning => r.Data_O = flame(p)

(* Without Reset nothing solid comes to the map.                           *)
OpensOK == /\ ~log.sweeping
           /\ \A k \in 1 .. Len(log.pending) : log.pending[k].data \notin Solid
           /\ \A p \in Players, a \in Addrs : map[a] \in Solid => start[p][a] = map[a]

(* While the other one rests, the map changes where p sets it on fire.     *)
AloneOK(p) ==
    alone[p] =>
        /\ ~x[Other(p)].WE_O
        /\ x[p].phase \in Burning =>
              /\ \A a \in Addrs : map[a] = start[p][a] \/ a \in burned[p]
              /\ \A k \in 1 .. Len(log.pending) : log.pending[k].addr \in burned[p]

AreaInv == /\ IInv /\ OpensOK /\ alone \in [Players -> BOOLEAN]
           /\ \A p \in Players :
                 /\ AreaOK(x[p], Wire(x[p], burned[p]), start[p], alone[p])
                 /\ DataOK(x[p], p) /\ AloneOK(p)

LEMMA InArea ==
    ASSUME NEW S, NEW c, NEW n \in Sizes, NEW d
    PROVE  d \in BlastArea(S, c, n) <=>
              \/ d = c
              \/ \E a \in Arms, j \in 1 .. n + 1 : d = CellAt(c, a, j) /\ Reached(S, c, a, j)
  <1> DEFINE T == {ak \in Arms \X (1 .. n + 1) : Reached(S, c, ak[1], ak[2])}
  <1>1. BlastArea(S, c, n) = {c} \union {CellAt(c, ak[1], ak[2]) : ak \in T}
    BY DEF BlastArea, Reached, Passable, Solid
  <1>2. d \in {CellAt(c, ak[1], ak[2]) : ak \in T} <=> \E ak \in T : d = CellAt(c, ak[1], ak[2])
    OBVIOUS
  <1>3. ASSUME NEW ak \in T, d = CellAt(c, ak[1], ak[2])
        PROVE  \E a \in Arms, j \in 1 .. n + 1 : d = CellAt(c, a, j) /\ Reached(S, c, a, j)
    <2>1. ak[1] \in Arms /\ ak[2] \in 1 .. n + 1 /\ Reached(S, c, ak[1], ak[2])
      OBVIOUS
    <2> QED BY ONLY <1>3, <2>1
  <1>4. ASSUME NEW a \in Arms, NEW j \in 1 .. n + 1, d = CellAt(c, a, j), Reached(S, c, a, j)
        PROVE  \E ak \in T : d = CellAt(c, ak[1], ak[2])
    <2>1. <<a, j>> \in T /\ <<a, j>>[1] = a /\ <<a, j>>[2] = j
      BY <1>4
    <2> QED BY ONLY <1>4, <2>1
  <1> HIDE DEF T
  <1> QED BY <1>1, <1>2, <1>3, <1>4

LEMMA AreaArm ==
    ASSUME BoardOK, NEW r \in Regs, NEW p \in Players, NEW W, NEW S, NEW al \in BOOLEAN,
           r.phase = "ARM", Fits(r.length), AreaOK(r, W, S, al)
    PROVE  LET y == ArmNext(r, p, "REPLACE", "MID")
           IN  ~y.WE_O /\ y.phase \in Burning /\ AreaOK(y, W, S, al)
  <1> DEFINE y == ArmNext(r, p, "REPLACE", "MID")
  <1>1. /\ r.length \in Sizes /\ r.length \in 0 .. 3 /\ r.arm \in Arms /\ r.coords \in Cells
        /\ r.arm \in 1 .. 4
    BY RegsOf DEF Sizes, Arms
  <1>2. Stride <= AddrSpan
    BY <1>1, FitsSpan
  <1>3. PICK k \in 0 .. r.length + 1 :
          /\ r.Address = CellAt(r.coords, r.arm, k)
          /\ r.count = 7 \/ r.count = FirstCount(r.length) + k
          /\ Covers(r, W, S, IF r.count = 7 THEN r.length + 1 ELSE k)
          /\ al /\ r.count # 7 => Passable(S, r.coords, r.arm, k)
    BY DEF AreaOK, ArmArea
  <1>4. al => W \subseteq Area(r, S)
    BY DEF AreaOK, Burning
  <1>5. CASE ~ArmEnded(r)
    <2>1. /\ y.phase = "REPLACE" /\ y.coords = r.coords /\ y.length = r.length
          /\ y.Address = Toward(r.arm, r.Address) /\ ~y.WE_O
          /\ y.arm = r.arm /\ y.count = r.count + 1
      BY <1>5, OnFields
    <2> HIDE DEF y
    <2>2. /\ r.count = (3 - r.length) + k /\ k + 1 \in 1 .. r.length + 1 /\ k \in 0 .. 3
          /\ r.count # 7 /\ (k + 1) - 1 = k
      BY <1>1, <1>3, <1>5 DEF ArmEnded, FirstCount
    <2>3. y.Address = CellAt(y.coords, y.arm, k + 1)
      BY <1>1, <1>2, <1>3, <2>1, <2>2, OneOn
    <2>4. y.count = FirstCount(y.length) + (k + 1)
      BY <1>1, <2>1, <2>2 DEF FirstCount
    <2>5. Covers(y, W, S, (k + 1) - 1)
      <3>1. Covers(r, W, S, k)
        BY <1>3, <2>2
      <3> QED BY <2>1, <2>2, <3>1 DEF Covers
    <2>6. al => Passable(S, y.coords, y.arm, (k + 1) - 1)
      BY <1>3, <2>1, <2>2
    <2>7. ReplaceArea(y, W, S, al)
      BY <2>1, <2>2, <2>3, <2>4, <2>5, <2>6 DEF ReplaceArea
    <2>8. Area(y, S) = Area(r, S)
      BY <2>1 DEF Area
    <2>9. ~y.WE_O /\ y.phase \in Burning /\ AreaOK(y, W, S, al)
      BY <1>4, <2>1, <2>7, <2>8 DEF AreaOK, Burning
    <2> QED BY <2>9 DEF y
  <1>6. ASSUME ArmEnded(r)
        PROVE  Covers(r, W, S, r.length + 1)
    <2>1. CASE r.count = 7
      BY <1>3, <2>1
    <2>2. CASE r.count # 7
      <3>1. k = r.length + 1
        BY <1>1, <1>3, <1>6, <2>2 DEF ArmEnded, FirstCount
      <3> QED BY <1>3, <2>2, <3>1
    <2> QED BY <2>1, <2>2
  <1>7. CASE ArmEnded(r) /\ r.arm < 4
    <2>1. /\ y.phase = "ARM" /\ y.coords = r.coords /\ y.length = r.length
          /\ y.Address = r.coords /\ ~y.WE_O
          /\ y.arm = r.arm + 1 /\ y.count = FirstCount(r.length)
      BY <1>7, TurnFields
    <2> HIDE DEF y
    <2>2. y.arm \in Arms /\ 0 \in 0 .. y.length + 1
      BY <1>1, <1>7, <2>1 DEF Arms
    <2>3. y.Address = CellAt(y.coords, y.arm, 0)
      BY <1>1, <1>2, <2>1, <2>2, NoStep
    <2>4. y.count = FirstCount(y.length) + 0 /\ y.count # 7
      BY <1>1, <2>1 DEF FirstCount
    <2>5. Covers(y, W, S, 0)
      <3>1. \A a \in Arms, j \in 1 .. r.length + 1 :
               a < y.arm \/ (a = y.arm /\ j <= 0) => a < r.arm \/ (a = r.arm /\ j <= r.length + 1)
        BY <1>1, <2>1 DEF Arms
      <3>2. Covers(r, W, S, r.length + 1)
        BY <1>6, <1>7
      <3> QED BY <2>1, <3>1, <3>2 DEF Covers
    <2>6. Passable(S, y.coords, y.arm, 0)
      BY DEF Passable
    <2>7. ArmArea(y, W, S, al)
      BY <2>2, <2>3, <2>4, <2>5, <2>6 DEF ArmArea
    <2>8. Area(y, S) = Area(r, S)
      BY <2>1 DEF Area
    <2>9. ~y.WE_O /\ y.phase \in Burning /\ AreaOK(y, W, S, al)
      BY <1>4, <2>1, <2>7, <2>8 DEF AreaOK, Burning
    <2> QED BY <2>9 DEF y
  <1>8. CASE ArmEnded(r) /\ ~(r.arm < 4)
    <2>1. /\ y.phase = "MID" /\ y.coords = r.coords /\ y.length = r.length
          /\ y.Address = r.coords /\ ~y.WE_O
      BY <1>8, LastFields
    <2> HIDE DEF y
    <2>2. Area(y, S) = Area(r, S)
      BY <2>1 DEF Area
    <2>3. Area(r, S) \subseteq W \union {r.coords}
      <3> SUFFICES ASSUME NEW d \in Area(r, S), d # r.coords PROVE d \in W
        OBVIOUS
      <3>1. PICK a \in Arms, j \in 1 .. r.length + 1 :
              d = CellAt(r.coords, a, j) /\ Reached(S, r.coords, a, j)
        BY <1>1, InArea DEF Area
      <3>2. a < r.arm \/ (a = r.arm /\ j <= r.length + 1)
        BY <1>1, <1>8 DEF Arms
      <3>3. Covers(r, W, S, r.length + 1)
        BY <1>6, <1>8
      <3> QED BY <3>1, <3>2, <3>3 DEF Covers
    <2>4. ~y.WE_O /\ y.phase \in Burning /\ AreaOK(y, W, S, al)
      BY <1>4, <2>1, <2>2, <2>3 DEF AreaOK, Burning
    <2> QED BY <2>4 DEF y
  <1> QED BY <1>5, <1>7, <1>8

LEMMA AreaReplace ==
    ASSUME NEW r \in Regs, NEW p \in Players, NEW in, NEW W, NEW S, NEW al \in BOOLEAN,
           r.phase = "REPLACE", AreaOK(r, W, S, al),
           in.Data_IN \in Solid => S[r.Address] = in.Data_IN,
           al => S[r.Address] = in.Data_IN
    PROVE  LET y == ReplaceNext(r, p, in)
           IN  y.phase \in Burning /\ AreaOK(y, Wire(y, W), S, al)
  <1> DEFINE y == ReplaceNext(r, p, in)
             V == Wire(y, W)
  <1>1. /\ y.phase = "ARM" /\ y.coords = r.coords /\ y.length = r.length
        /\ y.Address = r.Address /\ y.arm = r.arm
        /\ y.count = (IF StopsFire(in.Data_IN) THEN 7 ELSE r.count)
        /\ (y.WE_O <=> in.Data_IN \notin {wall, bomb})
    BY ReplaceFields
  <1> HIDE DEF y
  <1>2. r.length \in Sizes /\ r.length \in 0 .. 3 /\ r.arm \in Arms
    BY RegsOf DEF Sizes
  <1>3. PICK k \in 1 .. r.length + 1 :
          /\ r.Address = CellAt(r.coords, r.arm, k)
          /\ r.count = FirstCount(r.length) + k
          /\ Covers(r, W, S, k - 1)
          /\ al => Passable(S, r.coords, r.arm, k - 1)
    BY DEF AreaOK, ReplaceArea
  <1>4. al => W \subseteq Area(r, S)
    BY DEF AreaOK, Burning
  <1>5. /\ k \in 0 .. r.length + 1 /\ r.count # 7 /\ k \in Nat
        /\ y.count = 7 <=> in.Data_IN \in Solid
    BY <1>1, <1>2, <1>3 DEF FirstCount, StopsFire, Solid
  <1>6. W \subseteq V /\ (y.WE_O => r.Address \in V)
    BY <1>1 DEF Wire
  <1>7. Covers(y, V, S, IF y.count = 7 THEN y.length + 1 ELSE k)
    <2> SUFFICES ASSUME NEW a \in Arms, NEW j \in 1 .. r.length + 1,
                        Reached(S, r.coords, a, j),
                        \/ a < r.arm
                        \/ a = r.arm /\ j <= (IF y.count = 7 THEN r.length + 1 ELSE k)
                 PROVE  CellAt(r.coords, a, j) \in V
      BY <1>1 DEF Covers
    <2>1. CASE a < r.arm \/ (a = r.arm /\ j <= k - 1)
      BY <1>3, <1>6, <2>1 DEF Covers
    <2>2. CASE a = r.arm /\ j = k
      <3>1. S[r.Address] \notin {wall, bomb}
        BY <1>3, <2>2 DEF Reached
      <3>2. in.Data_IN \notin {wall, bomb}
        BY <3>1 DEF Solid
      <3> QED BY <1>1, <1>3, <1>6, <2>2, <3>2
    <2>3. CASE a = r.arm /\ j > k
      <3>1. in.Data_IN \in Solid
        <4>1. y.count = 7
          BY <1>2, <1>5, <2>3 DEF Arms
        <4> QED BY <1>5, <4>1
      <3>2. k \in 1 .. j - 1
        BY <1>2, <1>5, <2>3
      <3>3. S[CellAt(r.coords, a, k)] \notin Solid
        BY <3>2 DEF Reached, Passable
      <3> QED BY <1>3, <2>3, <3>1, <3>3
    <2>4. a < r.arm \/ a = r.arm
      OBVIOUS
    <2>5. j <= k - 1 \/ j = k \/ j > k
      BY <1>2, <1>5
    <2> QED BY <2>1, <2>2, <2>3, <2>4, <2>5
  <1>8. al /\ y.count # 7 => Passable(S, y.coords, y.arm, k)
    <2> SUFFICES ASSUME al, y.count # 7, NEW i \in 1 .. k
                 PROVE  S[CellAt(r.coords, r.arm, i)] \notin Solid
      BY <1>1 DEF Passable
    <2>1. CASE i = k
      BY <1>3, <1>5, <2>1
    <2>2. CASE i # k
      <3>1. i \in 1 .. k - 1
        BY <1>5, <2>2
      <3> QED BY <1>3, <3>1 DEF Passable
    <2> QED BY <2>1, <2>2
  <1>9. ArmArea(y, V, S, al)
    <2>1. y.Address = CellAt(y.coords, y.arm, k) /\ k \in 0 .. y.length + 1
      BY <1>1, <1>3, <1>5
    <2>2. y.count = 7 \/ y.count = FirstCount(y.length) + k
      BY <1>1, <1>3
    <2> HIDE DEF V
    <2> QED BY <1>7, <1>8, <2>1, <2>2 DEF ArmArea
  <1>10. Area(y, S) = Area(r, S)
    BY <1>1 DEF Area
  <1>11. al => V \subseteq Area(r, S)
    <2> SUFFICES ASSUME al, y.WE_O PROVE r.Address \in Area(r, S)
      BY <1>1, <1>4 DEF Wire
    <2>1. S[CellAt(r.coords, r.arm, k)] \notin {wall, bomb}
      BY <1>1, <1>3
    <2>2. Reached(S, r.coords, r.arm, k)
      BY <1>3, <2>1 DEF Reached
    <2> QED BY <1>2, <1>3, <2>2, InArea DEF Area
  <1> HIDE DEF V
  <1>12. y.phase \in Burning /\ AreaOK(y, V, S, al)
    BY <1>1, <1>9, <1>10, <1>11 DEF AreaOK, Burning
  <1> QED BY <1>12 DEF y, V

LEMMA AreaMid ==
    ASSUME NEW r \in Regs, NEW p \in Players, NEW W, NEW S, NEW al \in BOOLEAN,
           r.phase = "MID", AreaOK(r, W, S, al)
    PROVE  LET y == MidNext(r, p)
           IN  y.phase \in Burning /\ AreaOK(y, Wire(y, W), S, al)
  <1> DEFINE y == MidNext(r, p)
  <1>1. /\ y.phase = "WAIT" /\ y.coords = r.coords /\ y.length = r.length
        /\ y.Address = r.Address /\ y.WE_O
    BY MidFields
  <1> HIDE DEF y
  <1>2. /\ r.Address = r.coords /\ Area(r, S) \subseteq W \union {r.coords}
        /\ al => W \subseteq Area(r, S)
    BY DEF AreaOK, Burning
  <1>3. Wire(y, W) = W \union {r.coords} /\ Area(y, S) = Area(r, S)
    BY <1>1, <1>2 DEF Wire, Area
  <1>4. r.coords \in Area(r, S)
    BY RegsOf, InArea DEF Area
  <1>5. y.phase \in Burning /\ AreaOK(y, Wire(y, W), S, al)
    BY <1>1, <1>2, <1>3, <1>4 DEF AreaOK, Burning
  <1> QED BY <1>5 DEF y

LEMMA AreaStart ==
    ASSUME BoardOK, NEW r \in Regs, NEW p \in Players, NEW in, NEW S, NEW al \in BOOLEAN,
           in.ready, in.length \in Sizes, Fits(in.length), in.coordinate \in Cells
    PROVE  LET y == StartNext(r, p, in)
           IN  AreaOK(y, Wire(y, {}), S, al)
  <1> DEFINE y == StartNext(r, p, in)
  <1>1. /\ y.phase = "ARM" /\ y.coords = in.coordinate /\ y.length = in.length
        /\ y.Address = in.coordinate /\ ~y.WE_O /\ y.arm = 1
        /\ y.count = FirstCount(in.length)
    BY StartFields
  <1> HIDE DEF y
  <1>2. Stride <= AddrSpan /\ 1 \in Arms
    BY FitsSpan, Values
  <1>3. y.Address = CellAt(y.coords, y.arm, 0)
    BY <1>1, <1>2, NoStep
  <1>4. 0 \in 0 .. y.length + 1 /\ y.count = FirstCount(y.length) + 0 /\ y.count # 7
    BY <1>1 DEF Sizes, FirstCount
  <1>5. Covers(y, {}, S, 0)
    <2>1. \A a \in Arms, j \in 1 .. y.length + 1 : ~(a < y.arm \/ (a = y.arm /\ j <= 0))
      BY <1>1 DEF Arms
    <2> QED BY <2>1 DEF Covers
  <1>6. Passable(S, y.coords, y.arm, 0)
    BY DEF Passable
  <1>7. ArmArea(y, {}, S, al)
    BY <1>3, <1>4, <1>5, <1>6 DEF ArmArea
  <1>8. Wire(y, {}) = {}
    BY <1>1 DEF Wire
  <1>9. AreaOK(y, Wire(y, {}), S, al)
    BY <1>1, <1>7, <1>8 DEF AreaOK
  <1> QED BY <1>9 DEF y

(* A clock edge.  A burning explosion has on fire what it wrote.           *)
LEMMA WireBurns ==
    ASSUME NEW r, NEW p, NEW in, NEW B, r.phase \in Burning, DataOK(r, p)
    PROVE  BurnedNext(r, B, p, in) = Wire(r, B)
  BY DEF BurnedNext, Wire, DataOK, Ignites, Burning

LEMMA AreaStep ==
    ASSUME BoardOK, NEW r \in Regs, NEW p \in Players, NEW in, NEW B, NEW S, NEW T,
           NEW al \in BOOLEAN, NEW an \in BOOLEAN,
           r.phase # "START" => Fits(r.length),
           WritingOK(r, p), DataOK(r, p), AreaOK(r, Wire(r, B), S, al),
           in.ready => in.length \in Sizes /\ Fits(in.length) /\ in.coordinate \in Cells,
           ~Ignites(r, in) => T = S /\ (an => al),
           r.phase = "REPLACE" /\ in.Data_IN \in Solid => S[r.Address] = in.Data_IN,
           r.phase = "REPLACE" /\ al => S[r.Address] = in.Data_IN
    PROVE  LET y == ExplosionNext(r, p, in)
           IN  AreaOK(y, Wire(y, BurnedNext(r, B, p, in)), T, an)
  <1> DEFINE y == ExplosionNext(r, p, in)
             C == BurnedNext(r, B, p, in)
             W == Wire(r, B)
  <1>1. ASSUME NEW z, NEW V, AreaOK(z, V, S, al), z.phase \in Burning, ~Ignites(r, in)
        PROVE  AreaOK(z, V, T, an)
    <2>1. T = S /\ (an => al)
      BY <1>1
    <2>2. ArmArea(z, V, S, al) => ArmArea(z, V, S, an)
      BY <2>1 DEF ArmArea
    <2>3. ReplaceArea(z, V, S, al) => ReplaceArea(z, V, S, an)
      BY <2>1 DEF ReplaceArea
    <2> QED BY <1>1, <2>1, <2>2, <2>3 DEF AreaOK
  <1>2. ASSUME y.phase \notin Burning
        PROVE  AreaOK(y, Wire(y, C), T, an)
    <2> HIDE DEF y, C
    <2> QED BY <1>2 DEF AreaOK, Burning
  <1>3. CASE r.phase = "START"
    <2>1. y = StartNext(r, p, in)
      BY <1>3 DEF ExplosionNext
    <2>2. CASE in.ready
      <3>1. C = {}
        BY <1>3, <2>2 DEF BurnedNext, Ignites
      <3>2. AreaOK(StartNext(r, p, in), Wire(StartNext(r, p, in), {}), T, an)
        BY <2>2, AreaStart
      <3> QED BY <2>1, <3>1, <3>2
    <2>3. CASE ~in.ready
      <3>1. y.phase = "START"
        BY <1>3, <2>1, <2>3, IdleFields DEF StartNext
      <3>2. y.phase \notin Burning
        BY <3>1 DEF Burning
      <3> QED BY <1>2, <3>2
    <2> QED BY <2>2, <2>3
  <1>4. CASE r.phase = "ARM"
    <2>1. y = ArmNext(r, p, "REPLACE", "MID") /\ C = W
      BY <1>4, WireBurns DEF ExplosionNext, Burning
    <2>2. ~y.WE_O /\ y.phase \in Burning /\ AreaOK(y, W, S, al)
      BY <1>4, <2>1, AreaArm DEF Burning
    <2>3. Wire(y, C) = W
      BY <2>1, <2>2 DEF Wire
    <2>4. ~Ignites(r, in)
      BY <1>4 DEF Ignites
    <2> HIDE DEF y, C, W
    <2> QED BY <1>1, <2>2, <2>3, <2>4 DEF y, C
  <1>5. CASE r.phase = "REPLACE"
    <2>1. y = ReplaceNext(r, p, in) /\ C = W
      BY <1>5, WireBurns DEF ExplosionNext, Burning
    <2>2. y.phase \in Burning /\ AreaOK(y, Wire(y, W), S, al)
      BY <1>5, <2>1, AreaReplace
    <2>3. ~Ignites(r, in)
      BY <1>5 DEF Ignites
    <2> HIDE DEF y, C, W
    <2> QED BY <1>1, <2>1, <2>2, <2>3 DEF y, C
  <1>6. CASE r.phase = "MID"
    <2>1. y = MidNext(r, p) /\ C = W
      BY <1>6, WireBurns DEF ExplosionNext, Burning
    <2>2. y.phase \in Burning /\ AreaOK(y, Wire(y, W), S, al)
      BY <1>6, <2>1, AreaMid
    <2>3. ~Ignites(r, in)
      BY <1>6 DEF Ignites
    <2> HIDE DEF y, C, W
    <2> QED BY <1>1, <2>1, <2>2, <2>3 DEF y, C
  <1>7. CASE r.phase = "WAIT"
    <2>1. y = WaitNext(r, p, in) /\ C = W
      BY <1>7, WireBurns DEF ExplosionNext, Burning
    <2>2. /\ y.phase \in {r.phase, "C_ARM"} /\ y.coords = r.coords /\ y.length = r.length
          /\ ~y.WE_O
      BY <2>1, WaitFields
    <2>3. ~Ignites(r, in)
      BY <1>7 DEF Ignites
    <2>4. CASE y.phase = "WAIT"
      <3>1. Wire(y, C) = W
        BY <2>1, <2>2 DEF Wire
      <3> HIDE DEF y, C, W
      <3>2. Area(y, S) = Area(r, S)
        BY <2>2 DEF Area
      <3>3. Area(r, S) \subseteq W /\ (al => W \subseteq Area(r, S))
        BY <1>7 DEF AreaOK, Burning, W
      <3>4. y.phase \in Burning /\ AreaOK(y, W, S, al)
        BY <2>4, <3>2, <3>3 DEF AreaOK, Burning
      <3> QED BY <1>1, <2>3, <3>1, <3>4 DEF y, C
    <2>5. CASE y.phase = "C_ARM"
      <3>1. y.phase \notin Burning
        BY <2>5 DEF Burning
      <3> QED BY <1>2, <3>1
    <2> HIDE DEF y, C
    <2> QED BY <1>7, <2>2, <2>4, <2>5 DEF y, C
  <1>8. CASE r.phase \in {"C_ARM", "CLEAR", "C_MID"}
    <2>1. y.phase \in {"START", "C_ARM", "CLEAR", "C_MID"}
      BY <1>8, TimeStep
    <2>2. y.phase \notin Burning
      BY <2>1 DEF Burning
    <2> QED BY <1>2, <2>2
  <1>9. r.phase \in Phases
    BY RegsOf
  <1> QED BY <1>3, <1>4, <1>5, <1>6, <1>7, <1>8, <1>9 DEF Phases

LEMMA DataStep ==
    ASSUME NEW r \in Regs, NEW p \in Players, NEW in
    PROVE  DataOK(ExplosionNext(r, p, in), p)
  <1> DEFINE y == ExplosionNext(r, p, in)
  <1>1. Remains(p, in) \in {path, item(p)}
    BY DEF Remains
  <1>2. CASE r.phase = "START"
    <2>1. ~y.WE_O
      BY <1>2, StartFields, IdleFields DEF ExplosionNext, StartNext
    <2> QED BY <2>1 DEF DataOK
  <1>3. CASE r.phase \in {"ARM", "C_ARM"}
    <2>1. ~y.WE_O
      BY <1>3, OnFields, TurnFields, LastFields DEF ExplosionNext
    <2> QED BY <2>1 DEF DataOK
  <1>4. CASE r.phase = "REPLACE"
    <2>1. y.Data_O = flame(p)
      BY <1>4, ReplaceFields DEF ExplosionNext
    <2> HIDE DEF y
    <2>2. DataOK(y, p)
      BY <2>1 DEF DataOK
    <2> QED BY <2>2 DEF y
  <1>5. CASE r.phase = "MID"
    <2>1. y.Data_O = flame(p)
      BY <1>5, MidFields DEF ExplosionNext
    <2> HIDE DEF y
    <2>2. DataOK(y, p)
      BY <2>1 DEF DataOK
    <2> QED BY <2>2 DEF y
  <1>6. CASE r.phase = "WAIT"
    <2>1. ~y.WE_O
      BY <1>6, WaitFields DEF ExplosionNext
    <2> QED BY <2>1 DEF DataOK
  <1>7. CASE r.phase = "CLEAR"
    <2>1. y.phase = "C_ARM" /\ (y.WE_O => y.Data_O = Remains(p, in))
      BY <1>7, ClearFields DEF ExplosionNext
    <2> HIDE DEF y
    <2>2. DataOK(y, p)
      BY <1>1, <2>1 DEF DataOK, Burning
    <2> QED BY <2>2 DEF y
  <1>8. CASE r.phase = "C_MID"
    <2>1. y.phase = "START" /\ y.Data_O = Remains(p, in)
      BY <1>8, ClearMidFields DEF ExplosionNext
    <2> HIDE DEF y
    <2>2. DataOK(y, p)
      BY <1>1, <2>1 DEF DataOK, Burning
    <2> QED BY <2>2 DEF y
  <1>9. r.phase \in Phases
    BY RegsOf
  <1> QED BY <1>2, <1>3, <1>4, <1>5, <1>6, <1>7, <1>8, <1>9 DEF Phases

(* The cell an explosion looks at has not burned.                          *)
LEMMA LookAhead ==
    ASSUME BoardOK, NEW r \in Regs, NEW B, BurningOK(r, B), r.phase = "REPLACE"
    PROVE  r.Address \notin B
  <1>1. /\ r.length \in Sizes /\ r.coords \in Cells /\ r.arm \in Arms /\ r.arm \in 1 .. 4
        /\ r.length \in Nat
    BY RegsOf DEF Sizes, Arms
  <1>2. Fits(r.length) /\ ReplaceOK(r, B)
    BY DEF BurningOK
  <1>3. PICK k \in 1 .. r.length + 1 :
          r.Address = CellAt(r.coords, r.arm, k) /\ BurnedBefore(r, B, k)
    BY <1>2 DEF ReplaceOK
  <1>4. SUFFICES ASSUME r.Address \in B PROVE FALSE
    OBVIOUS
  <1>5. PICK a \in Arms, j \in 1 .. r.length + 1 :
          /\ r.Address = CellAt(r.coords, a, j)
          /\ a < r.arm \/ (a = r.arm /\ j < k)
    BY <1>3, <1>4 DEF BurnedBefore
  <1>6. CellAt(r.coords, r.arm, k) = CellAt(r.coords, a, j)
    BY <1>3, <1>5
  <1>7. r.arm = a /\ k = j
    BY ONLY BoardOK, <1>1, <1>2, <1>3, <1>5, <1>6, CellsApart
  <1> QED BY <1>1, <1>5, <1>7

-----------------------------------------------------------------------------
(***************************************************************************)
(* The explosions, the log and the map without Reset.                      *)
(***************************************************************************)
LEMMA NothingSolid ==
    ASSUME NEW p \in Players, NEW d \in {flame(p), path, item(p)}
    PROVE  d \notin Solid
  BY DEF flame, path, item, Players, Solid, wall, wood, bomb

LEMMA ClockOpens ==
    ASSUME AreaInv, NEW lucky \in Luck, Clock(FALSE, lucky)
    PROVE  OpensOK'
  <1>1. /\ TypeOK /\ ~log.sweeping /\ log \in LogStates /\ log.pending \in Seq(Requests)
        /\ \A k \in 1 .. Len(log.pending) : log.pending[k].data \notin Solid
    BY DEF AreaInv, IInv, TypeOK, OpensOK, LogStates
  <1>2. ~log'.sweeping /\ Moved(log.pending, log'.pending, Writing, Asked)
    BY <1>1, ClockMoves
  <1>3. ASSUME NEW k \in 1 .. Len(log'.pending)
        PROVE  log'.pending[k].data \notin Solid
    <2>1. CASE k + 1 \in 1 .. Len(log.pending) /\ log'.pending[k] = log.pending[k + 1]
      BY <1>1, <2>1
    <2>2. CASE \E q \in Players : x[q].WE_O /\ log'.pending[k].data = x[q].Data_O
      BY <2>2, NothingSolid DEF AreaInv, DataOK
    <2> QED BY <1>1, <1>2, <2>1, <2>2, NewRequests
  <1>4. ASSUME NEW p \in Players, NEW a \in Addrs, map'[a] \in Solid
        PROVE  start'[p][a] = map'[a]
    <2>1. map'[a] = IF log.pending # << >> /\ log.pending[1].addr = a
                    THEN log.pending[1].data ELSE map[a]
      BY <1>1, CellNext DEF Clock
    <2>2. log.pending # << >> => 1 \in 1 .. Len(log.pending)
      BY <1>1
    <2>3. map'[a] = map[a]
      BY <1>1, <1>4, <2>1, <2>2
    <2>4. start'[p] = map \/ start'[p] = start[p]
      BY DEF Clock
    <2>5. map[a] \in Solid => start[p][a] = map[a]
      BY DEF AreaInv, OpensOK
    <2> QED BY <1>4, <2>3, <2>4, <2>5
  <1> QED BY <1>2, <1>3, <1>4 DEF OpensOK

(* The histories of p after an edge.                                       *)
LEMMA Histories ==
    ASSUME AreaInv, NEW lucky \in Luck, Clock(FALSE, lucky), NEW p \in Players
    PROVE  LET in == Input(p, lucky)
           IN  /\ x'[p] = ExplosionNext(x[p], p, in)
               /\ burned'[p] = BurnedNext(x[p], burned[p], p, in)
               /\ Ignites(x[p], in) => start'[p] = map /\ (alone'[p] => Undisturbed)
               /\ ~Ignites(x[p], in) => start'[p] = start[p] /\ (alone'[p] => alone[p])
               /\ alone'[p] => /\ Resting(Other(p))
                               /\ ~Ignites(x[Other(p)], Input(Other(p), lucky))
               /\ alone' \in [Players -> BOOLEAN]
  <1> DEFINE in == Input(p, lucky)
             lit(q) == Ignites(x[q], Input(q, lucky))
  <1>1. x'[p] = ExplosionNext(x[p], p, in)
    BY DEF Clock
  <1>2. burned'[p] = BurnedNext(x[p], burned[p], p, in)
    BY DEF Clock, BurnedNext, SetsFire
  <1>3. start'[p] = IF lit(p) THEN map ELSE start[p]
    BY DEF Clock
  <1>4. alone' = [q \in Players |-> /\ IF lit(q) THEN Undisturbed ELSE alone[q]
                                    /\ Resting(Other(q)) /\ ~lit(Other(q))]
    BY DEF Clock
  <1>5. /\ alone \in [Players -> BOOLEAN]
    BY DEF AreaInv
  <1> HIDE DEF lit
  <1>6. alone'[p] <=> /\ IF lit(p) THEN Undisturbed ELSE alone[p]
                      /\ Resting(Other(p)) /\ ~lit(Other(p))
    BY ONLY <1>4, <1>5, p \in Players
  <1>7. alone' \in [Players -> BOOLEAN]
    BY ONLY <1>4, <1>5
  <1> QED BY <1>1, <1>2, <1>3, <1>6, <1>7 DEF lit

LEMMA ClockAlone ==
    ASSUME AreaInv, NEW lucky \in Luck, Clock(FALSE, lucky), NEW p \in Players
    PROVE  AloneOK(p)'
  <1> DEFINE in == Input(p, lucky)
             o == Other(p)
  <1>1. /\ TypeOK /\ ~log.sweeping /\ log \in LogStates /\ log.pending \in Seq(Requests)
        /\ AloneOK(p) /\ DataOK(x[p], p) /\ x[p] \in Regs /\ o \in Players
        /\ x[o] \in Regs /\ WritingOK(x[p], p)
    BY RegsAre DEF AreaInv, IInv, TypeOK, OpensOK, LogStates, FireOK, Other, Players
  <1>2. Moved(log.pending, log'.pending, Writing, Asked)
    BY <1>1, ClockMoves
  <1>3. SUFFICES ASSUME alone'[p]
                 PROVE  /\ ~x'[o].WE_O
                        /\ x'[p].phase \in Burning =>
                              /\ \A a \in Addrs : map'[a] = start'[p][a] \/ a \in burned'[p]
                              /\ \A k \in 1 .. Len(log'.pending) :
                                    log'.pending[k].addr \in burned'[p]
    BY DEF AloneOK
  <1>4. /\ Resting(o) /\ ~Ignites(x[o], Input(o, lucky))
        /\ x'[o] = ExplosionNext(x[o], o, Input(o, lucky))
    BY <1>1, <1>3, Histories
  <1>5. ~x'[o].WE_O
    <2>1. CASE x[o].phase = "START"
      <3>1. ~Input(o, lucky).ready
        BY <1>4, <2>1 DEF Ignites
      <3> QED BY <1>1, <1>4, <2>1, <3>1, IdleFields DEF ExplosionNext, StartNext
    <2>2. CASE x[o].phase = "WAIT"
      <3>1. x'[o] = WaitNext(x[o], o, Input(o, lucky))
        BY <1>4, <2>2 DEF ExplosionNext
      <3> HIDE DEF o
      <3> QED BY <1>1, <3>1, WaitFields
    <2> QED BY <1>4, <2>1, <2>2 DEF Resting
  <1>6. \A q \in Players : x[q].WE_O => q = p
    BY <1>4 DEF Resting, Other, Players
  <1>7. ASSUME NEW a \in Addrs
        PROVE  map'[a] = IF log.pending # << >> /\ log.pending[1].addr = a
                         THEN log.pending[1].data ELSE map[a]
    BY <1>1, CellNext DEF Clock
  <1>8. CASE Ignites(x[p], in)
    <2>1. start'[p] = map /\ log.pending = << >> /\ Writing = {}
      BY <1>3, <1>8, Histories DEF Undisturbed
    <2>2. \A a \in Addrs : map'[a] = start'[p][a]
      BY <1>7, <2>1
    <2>3. ASSUME NEW k \in 1 .. Len(log'.pending) PROVE FALSE
      <3>1. ~ \E q \in Players : x[q].WE_O
        BY <2>1 DEF Writing
      <3> QED BY <1>1, <1>2, <2>1, <3>1, NewRequests
    <2> QED BY <1>5, <2>2, <2>3
  <1>9. CASE ~Ignites(x[p], in) /\ x'[p].phase \in Burning
    <2>1. /\ alone[p] /\ start'[p] = start[p]
          /\ x'[p] = ExplosionNext(x[p], p, in)
          /\ burned'[p] = BurnedNext(x[p], burned[p], p, in)
      BY <1>3, <1>9, Histories
    <2>2. x[p].phase \in Burning
      <3>1. CASE x[p].phase = "START"
        <4>1. ~in.ready
          BY <1>9, <3>1 DEF Ignites
        <4>2. x'[p].phase = "START"
          BY <1>1, <2>1, <3>1, <4>1, TimeStep
        <4> QED BY <1>9, <4>2 DEF Burning
      <3>2. CASE x[p].phase \in {"C_ARM", "CLEAR", "C_MID"}
        <4>1. ExplosionNext(x[p], p, in).phase \in {"START", "C_ARM", "CLEAR", "C_MID"}
          <5> HIDE DEF in
          <5> QED BY <1>1, <3>2, TimeStep
        <4> QED BY <1>9, <2>1, <4>1 DEF Burning
      <3>3. x[p].phase \in Phases
        BY <1>1, RegsOf
      <3> QED BY <3>1, <3>2, <3>3 DEF Phases, Burning
    <2>3. burned'[p] = Wire(x[p], burned[p])
      BY <1>1, <2>1, <2>2, WireBurns
    <2>4. burned[p] \subseteq burned'[p] /\ (x[p].WE_O => x[p].Address \in burned'[p])
      BY <2>3 DEF Wire
    <2>5. /\ \A a \in Addrs : map[a] = start[p][a] \/ a \in burned[p]
          /\ \A k \in 1 .. Len(log.pending) : log.pending[k].addr \in burned[p]
      BY <1>1, <2>1, <2>2 DEF AloneOK
    <2>6. ASSUME NEW a \in Addrs PROVE map'[a] = start'[p][a] \/ a \in burned'[p]
      <3>1. CASE log.pending # << >> /\ log.pending[1].addr = a
        <4>1. 1 \in 1 .. Len(log.pending)
          BY <1>1, <3>1
        <4> QED BY <2>4, <2>5, <3>1, <4>1
      <3>2. CASE ~(log.pending # << >> /\ log.pending[1].addr = a)
        BY <1>7, <2>1, <2>4, <2>5, <3>2
      <3> QED BY <3>1, <3>2
    <2>7. ASSUME NEW k \in 1 .. Len(log'.pending) PROVE log'.pending[k].addr \in burned'[p]
      <3>1. CASE k + 1 \in 1 .. Len(log.pending) /\ log'.pending[k] = log.pending[k + 1]
        BY <2>4, <2>5, <3>1
      <3>2. CASE \E q \in Players : x[q].WE_O /\ log'.pending[k].addr = x[q].Address
        BY <1>6, <2>4, <3>2
      <3> QED BY <1>1, <1>2, <3>1, <3>2, NewRequests
    <2> QED BY <1>5, <2>6, <2>7
  <1> QED BY <1>5, <1>8, <1>9

LEMMA ClockArea ==
    ASSUME AreaInv, NEW lucky \in Luck, Clock(FALSE, lucky), NEW p \in Players
    PROVE  AreaOK(x[p], Wire(x[p], burned[p]), start[p], alone[p])' /\ DataOK(x'[p], p)
  <1> DEFINE r == x[p]
             in == Input(p, lucky)
             B == burned[p]
             S == start[p]
             al == alone[p]
             an == alone'[p]
             T == start'[p]
  <1>1. /\ r \in Regs /\ r.Address \in Addrs /\ in.Data_IN = map[r.Address]
        /\ BurningOK(r, B) /\ WritingOK(r, p)
        /\ AreaOK(r, Wire(r, B), S, al) /\ DataOK(r, p) /\ AloneOK(p)
        /\ al \in BOOLEAN
    BY RegsAre, RegsOf, Board DEF AreaInv, IInv, TypeOK, FireOK, Input
  <1>2. in.ready => in.length \in Sizes /\ Fits(in.length) /\ in.coordinate \in Cells
    BY InputOK DEF AreaInv, IInv
  <1>3. /\ x'[p] = ExplosionNext(r, p, in)
        /\ burned'[p] = BurnedNext(r, B, p, in)
        /\ ~Ignites(r, in) => T = S /\ (an => al)
        /\ an \in BOOLEAN
    BY Histories
  <1>4. in.Data_IN \in Solid => S[r.Address] = in.Data_IN
    BY <1>1 DEF AreaInv, OpensOK
  <1>5. r.phase = "REPLACE" /\ al => S[r.Address] = in.Data_IN
    <2> SUFFICES ASSUME r.phase = "REPLACE", al PROVE S[r.Address] = in.Data_IN
      OBVIOUS
    <2>1. r.Address \notin B
      BY <1>1, Board, LookAhead
    <2> QED BY <1>1, <2>1 DEF AloneOK, Burning
  <1>6. r.phase # "START" => Fits(r.length)
    BY <1>1 DEF BurningOK
  <1>7. BoardOK
    BY Board
  <1> HIDE DEF r, in, B, S, T, al, an
  <1>8. AreaOK(ExplosionNext(r, p, in), Wire(ExplosionNext(r, p, in), BurnedNext(r, B, p, in)), T, an)
    BY <1>1, <1>2, <1>3, <1>4, <1>5, <1>6, <1>7, AreaStep
  <1>9. DataOK(ExplosionNext(r, p, in), p)
    BY <1>1, DataStep
  <1> QED BY <1>3, <1>8, <1>9 DEF T, an

LEMMA AreaInvariance == Spec => [](~swept => AreaInv)
  <1>1. Init => AreaInv
    <2> SUFFICES ASSUME Init PROVE AreaInv
      OBVIOUS
    <2>1. OpensOK /\ alone \in [Players -> BOOLEAN]
      BY DEF Init, EmptyLog, OpensOK
    <2>2. ASSUME NEW p \in Players
          PROVE  /\ AreaOK(x[p], Wire(x[p], burned[p]), start[p], alone[p])
                 /\ DataOK(x[p], p) /\ AloneOK(p)
      <3>1. x[p].phase = "START" /\ ~x[p].WE_O /\ ~alone[p]
        BY DEF Init, ExplosionPowerUp
      <3> QED BY <3>1 DEF AreaOK, DataOK, AloneOK, Burning
    <2> QED BY <2>1, <2>2, InitOK DEF AreaInv
  <1>2. (~swept => AreaInv) /\ IInv' /\ [Next]_vars => (~swept' => AreaInv')
    <2> SUFFICES ASSUME ~swept => AreaInv, IInv', [Next]_vars, ~swept'
                 PROVE  AreaInv'
      OBVIOUS
    <2>1. CASE Work
      <3>1. PICK lucky \in Luck : Clock(FALSE, lucky)
        BY <2>1 DEF Work
      <3>2. AreaInv
        BY <3>1 DEF Clock
      <3>3. OpensOK' /\ alone' \in [Players -> BOOLEAN]
        <4>1. 0 \in Players
          BY DEF Players
        <4> QED BY <3>1, <3>2, <4>1, ClockOpens, Histories
      <3>4. ASSUME NEW p \in Players
            PROVE  /\ AreaOK(x[p], Wire(x[p], burned[p]), start[p], alone[p])'
                   /\ DataOK(x'[p], p) /\ AloneOK(p)'
        BY <3>1, <3>2, ClockArea, ClockAlone
      <3> QED BY <3>3, <3>4 DEF AreaInv
    <2>2. CASE Reset
      <3>1. swept'
        BY <2>2 DEF Reset, Clock
      <3> QED BY <3>1
    <2>3. CASE Tick \/ UNCHANGED vars
      <3>1. /\ x' = x /\ log' = log /\ map' = map /\ start' = start /\ burned' = burned
            /\ alone' = alone /\ swept' = swept
        BY <2>3 DEF Tick, vars
      <3> QED BY <3>1 DEF AreaInv, OpensOK, AloneOK
    <2> QED BY <2>1, <2>2, <2>3 DEF Next
  <1> QED BY <1>1, <1>2, Invariance, PTL DEF Spec

(* Until somebody presses Reset, an explosion sets on fire every cell the  *)
(* rules give it on the map on which it began, and no other cell if it     *)
(* began undisturbed and the other explosion rests, for all maps, bombs    *)
(* and timers (explosion.sv).                                              *)
THEOREM RulesAreKept == Spec => []BurnsBlastArea
  <1>1. (~swept => AreaInv) => BurnsBlastArea
    <2> SUFFICES ASSUME AreaInv, Quiet, NEW p \in Players, x[p].phase = "WAIT"
                 PROVE  LET area == BlastArea(start[p], x[p].coords, x[p].length)
                        IN  area \subseteq burned[p] /\ (alone[p] => burned[p] = area)
      BY DEF BurnsBlastArea
    <2>1. ~x[p].WE_O
      BY DEF Quiet, Rested, Resting
    <2>2. Wire(x[p], burned[p]) = burned[p]
      BY <2>1 DEF Wire
    <2>3. AreaOK(x[p], burned[p], start[p], alone[p])
      BY <2>2 DEF AreaInv
    <2> QED BY <2>3 DEF AreaOK, Area, Burning
  <1> QED BY <1>1, AreaInvariance, PTL
=============================================================================
