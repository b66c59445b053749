-------------------------- MODULE MapEditorProofs --------------------------
(***************************************************************************)
(* For every set of ports, every map and every ring with room for two      *)
(* requests more than there are sporadic ports: the queue of MapEditor     *)
(* never overflows and the map takes, cycle for cycle, the writes that an  *)
(* unbounded queue would give it.                                          *)
(***************************************************************************)
EXTENDS MapEditor, MapLemmas

(* The window of the ring that holds the waiting requests.                 *)
Holds(words, r, n, s) ==
    /\ Len(s) = n
    /\ \A i \in 1 .. n : s[i] = words[Around(r + i - 1)]

Window == /\ e.writePtr = Around(e.readPtr + e.count)
          /\ Holds(e.words, e.readPtr, e.count, log.pending)

SameMode == /\ log \in LogStates
            /\ e.state = "RESETTING" <=> log.sweeping
            /\ e.reset_addr = log.at
            /\ log.sweeping => e.count = 0

(* Two successive cycles bring at most two requests of the explosions, and *)
(* a cycle takes one out: right after a cycle with both, two of theirs can *)
(* wait, after any other one.                                              *)
Backlog == e.count <= (IF Cardinality(last) = 2 THEN 2 ELSE 1)
                      + Cardinality(spent)

(* The cells a sweep has passed hold their initial content.                *)
Swept == e.state = "RESETTING" =>
            \A a \in Addrs : a < e.reset_addr => map[a] = InitialMap[a]

IInv == TypeOK /\ Backlog /\ SameMode /\ Window /\ Swept

-----------------------------------------------------------------------------
LEMMA DisjointUnion ==
    ASSUME NEW S, NEW T, IsFiniteSet(S), IsFiniteSet(T), S \cap T = {}
    PROVE  Cardinality(S \cup T) = Cardinality(S) + Cardinality(T)
PROOF
<1>1. Cardinality(S \cup T)
        = Cardinality(S) + Cardinality(T) - Cardinality(S \cap T)
  BY FS_Union
<1>2. Cardinality(S \cap T) = 0
  BY FS_EmptySet
<1>3. Cardinality(S) \in Nat /\ Cardinality(T) \in Nat
  BY FS_CardinalityType
<1> QED
  BY <1>1, <1>2, <1>3

(* Steps along the ring add up, as long as they stay within one turn.      *)
LEMMA AroundSum ==
    ASSUME NEW p \in WordsOf, NEW a \in Nat, NEW b \in Nat, a + b <= QueueSize
    PROVE  Around(Around(p + a) + b) = Around(p + (a + b))
PROOF
  BY EditorAssumption DEF Around, WordsOf

(* What the casex tables put where: the requests of one cycle, in order of *)
(* priority, in the words from wp on; no other word changes.               *)
LEMMA PushedWords ==
    ASSUME NEW we \in SUBSET Ports, NEW req \in [Ports -> Requests],
           NEW r \in EditorRegs, r.writePtr \in WordsOf, Cardinality(we) <= QueueSize
    PROVE  /\ Len(Batch(we, req)) = Cardinality(we)
           /\ \A i \in 1 .. Cardinality(we) :
                  /\ \E p \in we : Batch(we, req)[i] = req[p]
                  /\ Pushed(r, we, req)[Around(r.writePtr + i - 1)]
                        = Batch(we, req)[i]
           /\ \A w \in WordsOf :
                  (\A i \in 1 .. Cardinality(we) :
                       w # Around(r.writePtr + i - 1))
                  => Pushed(r, we, req)[w] = r.words[w]
PROOF
<1> DEFINE At(p) == Around(r.writePtr + Rank(we, p))
           Upto(p) == Cardinality({o \in we : o <= p})
<1> USE EditorAssumption
<1>1. Cardinality(we) \in Nat
  BY FinitePorts
<1>2. \A p \in we : /\ Rank(we, p) \in 0 .. Cardinality(we) - 1
                    /\ Upto(p) = Rank(we, p) + 1
  BY RankProperties
<1>3. \A p, o \in we : Rank(we, p) = Rank(we, o) => p = o
  BY RankProperties
<1>4. \A p, o \in we : At(p) = At(o) => p = o
  <2> SUFFICES ASSUME NEW p \in we, NEW o \in we, At(p) = At(o)
               PROVE  Rank(we, p) = Rank(we, o)
    BY <1>3
  <2>1. /\ Rank(we, p) \in 0 .. Cardinality(we) - 1
        /\ Rank(we, o) \in 0 .. Cardinality(we) - 1
    BY <1>2
  <2> QED
    BY <1>1, <2>1 DEF Around, WordsOf
<1>5. ASSUME NEW i \in 1 .. Cardinality(we)
      PROVE  /\ \E p \in we : Batch(we, req)[i] = req[p]
             /\ Pushed(r, we, req)[Around(r.writePtr + i - 1)]
                   = Batch(we, req)[i]
  <2>1. PICK p \in we : Upto(p) = i
    BY RankProperties
  <2>2. Rank(we, p) = i - 1
    BY <1>1, <1>2, <2>1
  <2>3. \A o \in we : Upto(o) = i => o = p
    <3> SUFFICES ASSUME NEW o \in we, Upto(o) = i PROVE o = p
      OBVIOUS
    <3>1. Rank(we, o) = i - 1
      BY <1>1, <1>2
    <3> QED
      BY <1>3, <2>2, <3>1
  <2>4. (CHOOSE o \in we : Upto(o) = i) = p
    BY <2>1, <2>3
  <2>5. Batch(we, req)[i] = req[p]
    BY <2>4 DEF Batch
  <2>6. At(p) = Around(r.writePtr + i - 1) /\ At(p) \in WordsOf
    <3>1. At(p) = Around(r.writePtr + (i - 1))
      BY <2>2
    <3>2. r.writePtr + (i - 1) = r.writePtr + i - 1
      BY <1>1 DEF WordsOf
    <3> QED
      BY <1>1, <3>1, <3>2 DEF Around, WordsOf
  <2>7. (CHOOSE o \in we : At(p) = At(o)) = p
    BY <1>4
  <2>8. Pushed(r, we, req)[At(p)] = req[p]
    BY <2>6, <2>7 DEF Pushed
  <2> QED
    BY <2>5, <2>6, <2>8
<1>6. ASSUME NEW w \in WordsOf,
             \A i \in 1 .. Cardinality(we) : w # Around(r.writePtr + i - 1)
      PROVE  Pushed(r, we, req)[w] = r.words[w]
  <2>1. ASSUME NEW p \in we PROVE w # At(p)
    <3>1. Upto(p) \in 1 .. Cardinality(we)
      BY <1>1, <1>2
    <3>2. r.writePtr + Upto(p) - 1 = r.writePtr + Rank(we, p)
      BY <1>1, <1>2 DEF WordsOf
    <3> QED
      BY <1>6, <3>1, <3>2
  <2> QED
    BY <2>1 DEF Pushed
<1>7. Len(Batch(we, req)) = Cardinality(we)
  BY <1>1 DEF Batch
<1> QED
  BY <1>5, <1>6, <1>7

-----------------------------------------------------------------------------
LEMMA InitIInv == Init => IInv
PROOF
<1> SUFFICES ASSUME Init PROVE IInv
  OBVIOUS
<1> USE EditorAssumption
<1>1. Cardinality({}) = 0
  BY FS_EmptySet
<1>2. Nothing \in Requests
  BY DEF Nothing, Requests, Addrs
<1>3. TypeOK
  BY <1>2 DEF Init, TypeOK, EditorPowerUp, EditorRegs, WordsOf
<1>4. Backlog
  BY <1>1 DEF Init, Backlog, EditorPowerUp
<1>5. SameMode
  BY DEF Init, SameMode, EditorPowerUp, EmptyLog, LogStates
<1>6. Window
  BY DEF Init, Window, Holds, EditorPowerUp, EmptyLog, Around
<1>7. Swept
  BY DEF Init, Swept, EditorPowerUp
<1> QED
  BY <1>3, <1>4, <1>5, <1>6, <1>7 DEF IInv

(* What every clock edge keeps, whatever the editor does.                  *)
LEMMA SurroundingsStep ==
    ASSUME IInv, NEW reset \in BOOLEAN, NEW we, NEW req \in [Ports -> Requests],
           Clock(reset, we, req)
    PROVE  /\ we \in SUBSET Ports
           /\ map' \in [Addrs -> Data]
           /\ last' \subseteq Paced
           /\ spent' \subseteq Sporadic
           /\ Cardinality(spent') \in Nat
PROOF
<1> USE EditorAssumption
<1>1. we \in SUBSET Ports
  BY DEF Clock, MayWrite
<1>2. last' \subseteq Paced /\ spent' \subseteq Sporadic
  BY DEF Clock, IInv, TypeOK
<1>3. EditorWrites(e) \subseteq Requests
  BY DEF EditorWrites, IInv, TypeOK, EditorRegs, Requests
<1>4. \A a \in Addrs, w \in Requests : w.data \in Data
  BY DEF Requests
<1>5. map' = MapNext(map, EditorWrites(e)) /\ map \in [Addrs -> Data]
  BY DEF Clock, IInv, TypeOK
<1>6. \A a \in Addrs : map'[a] \in Data
  <2> SUFFICES ASSUME NEW a \in Addrs PROVE map'[a] \in Data
    OBVIOUS
  <2>1. CASE \E w \in EditorWrites(e) : w.addr = a
    <3>1. (CHOOSE w \in EditorWrites(e) : w.addr = a) \in Requests
      BY <1>3, <2>1
    <3> QED
      BY <1>4, <1>5, <2>1, <3>1 DEF MapNext
  <2>2. CASE ~\E w \in EditorWrites(e) : w.addr = a
    BY <1>5, <2>2 DEF MapNext
  <2> QED
    BY <2>1, <2>2
<1>7. map' \in [Addrs -> Data]
  BY <1>5, <1>6 DEF MapNext
<1>8. Cardinality(spent') \in Nat
  BY <1>2, FS_Subset, FS_CardinalityType
<1> QED
  BY <1>1, <1>2, <1>7, <1>8

(* One cycle of the sweep restores the cell at reset_addr, the first of    *)
(* those it has not passed.                                                *)
LEMMA SweepCell ==
    ASSUME IInv, NEW reset \in BOOLEAN, NEW we, NEW req \in [Ports -> Requests],
           Clock(reset, we, req), e.state = "RESETTING"
    PROVE  \A a \in Addrs : a <= e.reset_addr => map'[a] = InitialMap[a]
PROOF
<1> SUFFICES ASSUME NEW a \in Addrs, a <= e.reset_addr
             PROVE  map'[a] = InitialMap[a]
  OBVIOUS
<1>1. e.reset_addr \in Nat /\ a \in Nat
  BY EditorAssumption DEF IInv, TypeOK, EditorRegs, Addrs
<1>2. map' = MapNext(map, EditorWrites(e))
  BY DEF Clock
<1>3. EditorWrites(e) = {[addr |-> c, data |-> InitialMap[c]] :
                              c \in {e.reset_addr} \cap Addrs}
  BY DEF EditorWrites
<1>4. CASE a = e.reset_addr
  <2>1. EditorWrites(e) = {[addr |-> a, data |-> InitialMap[a]]}
    BY <1>3, <1>4
  <2>2. (CHOOSE w \in EditorWrites(e) : w.addr = a)
            = [addr |-> a, data |-> InitialMap[a]]
    BY <2>1
  <2> QED
    BY <1>2, <2>1, <2>2 DEF MapNext
<1>5. CASE a # e.reset_addr
  <2>1. ~\E w \in EditorWrites(e) : w.addr = a
    BY <1>3, <1>5
  <2>2. map'[a] = map[a]
    BY <1>2, <2>1 DEF MapNext
  <2>3. a < e.reset_addr
    BY <1>1, <1>5
  <2> QED
    BY <2>2, <2>3 DEF IInv, Swept
<1> QED
  BY <1>4, <1>5

(* Reset, and every cycle of the sweep: the queue is empty.                *)
LEMMA SweepStep ==
    ASSUME IInv, NEW reset \in BOOLEAN, NEW we, NEW req \in [Ports -> Requests],
           Clock(reset, we, req), reset \/ e.state = "RESETTING"
    PROVE  IInv'
PROOF
<1> USE EditorAssumption
<1> DEFINE ends == ~reset /\ e.reset_addr = SweepLast
<1>1. e' = [e EXCEPT !.state = IF ends THEN "RUNNING" ELSE "RESETTING",
                     !.reset_addr = IF reset \/ e.reset_addr = SweepLast
                                    THEN 0 ELSE e.reset_addr + 1,
                     !.count = 0, !.readPtr = 0, !.writePtr = 0]
  BY DEF Clock, EditorNext, Remaining, SweepEnds
<1>2. e \in EditorRegs
  BY DEF IInv, TypeOK
<1>3. e' \in EditorRegs /\ e'.count = 0 /\ e'.readPtr = 0 /\ e'.writePtr = 0
  <2>1. /\ 0 \in 0 .. 2 * QueueSize - 1 /\ 0 \in WordsOf
        /\ 0 \in 0 .. SweepLast
    BY DEF WordsOf
  <2>2. e.reset_addr # SweepLast => e.reset_addr + 1 \in 0 .. SweepLast
    BY <1>2 DEF EditorRegs
  <2> QED
    BY <1>1, <1>2, <2>1, <2>2 DEF EditorRegs
<1>4. TypeOK'
  BY <1>3, SurroundingsStep DEF TypeOK
<1>5. Backlog'
  BY <1>3, SurroundingsStep DEF Backlog
<1>6. log \in LogStates /\ e.reset_addr = log.at
  BY DEF IInv, SameMode
<1>7. ~reset => log.pending = << >> /\ log.sweeping
  <2>1. ~reset => e.count = 0 /\ log.sweeping
    BY DEF IInv, SameMode
  <2> QED
    BY <1>6, <2>1 DEF IInv, Window, Holds, LogStates
<1>8. log' = IF reset THEN [sweeping |-> TRUE, at |-> 0, pending |-> << >>]
             ELSE IF log.at = SweepLast THEN EmptyLog
             ELSE [log EXCEPT !.at = @ + 1]
  BY <1>7 DEF Clock, LogNext
<1>9. log' \in LogStates /\ log'.pending = << >>
  BY <1>6, <1>7, <1>8 DEF LogStates, EmptyLog
<1>10. SameMode'
  <2>1. e'.state = "RESETTING" <=> log'.sweeping
    BY <1>1, <1>2, <1>6, <1>7, <1>8 DEF EditorRegs, LogStates, EmptyLog
  <2>2. e'.reset_addr = log'.at
    BY <1>1, <1>2, <1>6, <1>8 DEF EditorRegs, LogStates, EmptyLog
  <2> QED
    BY <1>3, <1>9, <2>1, <2>2 DEF SameMode
<1>11. Window'
  BY <1>3, <1>9 DEF Window, Holds, Around
<1>12. Swept'
  <2> SUFFICES ASSUME NEW a \in Addrs, a < e'.reset_addr
               PROVE  map'[a] = InitialMap[a]
    BY DEF Swept
  <2>1. e.reset_addr \in Nat /\ a \in Nat
    BY <1>2 DEF EditorRegs, Addrs
  <2>2. ~reset /\ e'.reset_addr = e.reset_addr + 1
    BY <1>1, <1>2, <2>1 DEF EditorRegs
  <2>3. a <= e.reset_addr
    BY <2>1, <2>2
  <2>4. e.state = "RESETTING"
    BY <2>2
  <2> QED
    BY <2>3, <2>4, SweepCell
<1> QED
  BY <1>4, <1>5, <1>10, <1>11, <1>12 DEF IInv

(* The arithmetic of one cycle: the ports of the explosions that are high  *)
(* were low in the previous cycle, and the others were not yet spent.      *)
LEMMA BacklogStep ==
    ASSUME IInv, NEW reset \in BOOLEAN, NEW we, NEW req \in [Ports -> Requests],
           Clock(reset, we, req)
    PROVE  LET left == IF e.count = 0 THEN 0 ELSE e.count - 1
               n    == left + Cardinality(we)
           IN  /\ n <= (IF Cardinality(last') = 2 THEN 2 ELSE 1)
                       + Cardinality(spent')
               /\ n <= QueueSize
               /\ Cardinality(spent') <= Cardinality(Sporadic)
PROOF
<1> DEFINE left == IF e.count = 0 THEN 0 ELSE e.count - 1
           fresh == we \cap Sporadic
<1>1. /\ we \in SUBSET Ports /\ we \cap last = {} /\ we \cap spent = {}
      /\ last' = we \cap Paced
      /\ spent' = IF Calm(we) THEN {} ELSE spent \cup fresh
  BY DEF Clock, MayWrite
<1>2. e.count \in Nat /\ last \subseteq Paced /\ spent \subseteq Sporadic
  BY EditorAssumption DEF IInv, TypeOK, EditorRegs
<1>3. /\ IsFiniteSet(last') /\ IsFiniteSet(last) /\ IsFiniteSet(fresh)
      /\ IsFiniteSet(spent) /\ IsFiniteSet(spent')
      /\ IsFiniteSet(Paced) /\ IsFiniteSet(Sporadic)
  <2>1. IsFiniteSet(Paced) /\ IsFiniteSet(Sporadic)
    BY EditorAssumption
  <2>2. last' \in SUBSET Paced /\ last \in SUBSET Paced
    BY <1>1, <1>2
  <2>3. /\ fresh \in SUBSET Sporadic /\ spent \in SUBSET Sporadic
        /\ spent' \in SUBSET Sporadic
    BY <1>1, <1>2
  <2>4. IsFiniteSet(last') /\ IsFiniteSet(last)
    BY <2>1, <2>2, FS_Subset
  <2>5. IsFiniteSet(fresh) /\ IsFiniteSet(spent) /\ IsFiniteSet(spent')
    BY <2>1, <2>3, FS_Subset
  <2> QED
    BY <2>1, <2>4, <2>5
<1>4. /\ Cardinality(last') \in Nat /\ Cardinality(last) \in Nat
      /\ Cardinality(fresh) \in Nat /\ Cardinality(spent) \in Nat
      /\ Cardinality(spent') \in Nat /\ Cardinality(Sporadic) \in Nat
      /\ Cardinality(Paced) \in Nat
  BY <1>3, FS_CardinalityType
<1>5. Cardinality(we) = Cardinality(last') + Cardinality(fresh)
  <2>1. we = last' \cup fresh /\ last' \cap fresh = {}
    BY <1>1, EditorAssumption DEF Ports
  <2> QED
    BY <1>3, <2>1, DisjointUnion
<1>6. Cardinality(last') + Cardinality(last) <= 2
  <2>1. last' \cap last = {} /\ (last' \cup last) \in SUBSET Paced
    BY <1>1, <1>2
  <2>2. Cardinality(last' \cup last) = Cardinality(last') + Cardinality(last)
    BY <1>3, <2>1, DisjointUnion
  <2>3. Cardinality(last' \cup last) <= Cardinality(Paced)
    BY <1>3, <2>1, FS_Subset
  <2> QED
    BY <1>4, <2>2, <2>3, FitsAssumption
<1>7. ~Calm(we) => Cardinality(spent') = Cardinality(spent) + Cardinality(fresh)
  <2>1. spent \cap fresh = {}
    BY <1>1
  <2> QED
    BY <1>1, <1>3, <2>1, DisjointUnion
<1>8. Calm(we) => Cardinality(we) = 0 /\ e.count = 0
  BY FS_EmptySet DEF Calm
<1>9. e.count <= (IF Cardinality(last) = 2 THEN 2 ELSE 1) + Cardinality(spent)
  BY DEF IInv, Backlog
<1>10. left + Cardinality(we)
          <= (IF Cardinality(last') = 2 THEN 2 ELSE 1) + Cardinality(spent')
  <2>1. CASE Calm(we)
    BY <1>4, <1>8, <2>1
  <2>2. CASE ~Calm(we) /\ e.count = 0
    BY <1>4, <1>5, <1>6, <1>7, <2>2
  <2>3. CASE ~Calm(we) /\ e.count # 0
    BY <1>2, <1>4, <1>5, <1>6, <1>7, <1>9, <2>3
  <2> QED
    BY <2>1, <2>2, <2>3
<1>11. Cardinality(spent') <= Cardinality(Sporadic)
  BY <1>3, FS_Subset, SurroundingsStep
<1>12. left + Cardinality(we) <= QueueSize
  <2>1. Cardinality(we) \in Nat /\ left \in Nat /\ QueueSize \in Nat
    BY <1>1, <1>2, FinitePorts, EditorAssumption
  <2> QED
    BY <1>4, <1>10, <1>11, <2>1, FitsAssumption
<1> QED
  BY <1>10, <1>11, <1>12

LEMMA CountFits ==
    ASSUME IInv
    PROVE  e.count <= QueueSize
PROOF
<1>1. spent \in SUBSET Sporadic /\ IsFiniteSet(Sporadic)
  BY EditorAssumption DEF IInv, TypeOK
<1>2. /\ Cardinality(spent) \in Nat /\ Cardinality(Sporadic) \in Nat
      /\ Cardinality(spent) <= Cardinality(Sporadic)
  BY <1>1, FS_Subset, FS_CardinalityType
<1>3. e.count \in Nat /\ QueueSize \in Nat
  BY EditorAssumption DEF IInv, TypeOK, EditorRegs
<1> QED
  BY <1>2, <1>3, FitsAssumption DEF IInv, Backlog

(* A cycle of normal operation: the request at readPtr goes to the map,    *)
(* those of this cycle join the queue.                                     *)
LEMMA RunStep ==
    ASSUME IInv, NEW we, NEW req \in [Ports -> Requests],
           Clock(FALSE, we, req), e.state # "RESETTING"
    PROVE  IInv'
PROOF
<1> USE EditorAssumption
<1> DEFINE d == IF e.count = 0 THEN 0 ELSE 1
           c == e.count - d
           k == Cardinality(we)
           old == IF log.pending = << >> THEN << >> ELSE Tail(log.pending)
           new == Batch(we, req)
<1>1. e \in EditorRegs /\ log \in LogStates
  BY DEF IInv, TypeOK, SameMode
<1>2. /\ d \in {0, 1} /\ c \in Nat /\ k \in Nat /\ e.count \in Nat
      /\ e.count = c + d
      /\ e.readPtr \in WordsOf /\ e.writePtr \in WordsOf
  <2>1. e.count \in Nat /\ e.readPtr \in WordsOf /\ e.writePtr \in WordsOf
    BY <1>1 DEF EditorRegs
  <2>2. k \in Nat
    BY SurroundingsStep, FinitePorts
  <2> QED
    BY <2>1, <2>2
<1>3. c + k <= QueueSize /\ k <= QueueSize
  <2>1. (IF e.count = 0 THEN 0 ELSE e.count - 1) + k <= QueueSize
    BY BacklogStep
  <2> QED
    BY <1>2, <2>1
<1>4. e' = [e EXCEPT !.count = SixBits((IF e.count = 0 THEN 0
                                        ELSE e.count - 1) + k),
                     !.readPtr = IF e.count = 0 THEN e.readPtr
                                 ELSE Around(e.readPtr + 1),
                     !.writePtr = Around(e.writePtr + k),
                     !.words = Pushed(e, we, req)]
  BY DEF Clock, EditorNext, Remaining, SweepEnds
<1>5. (IF e.count = 0 THEN 0 ELSE e.count - 1) + k = c + k
  BY <1>2
<1>6. SixBits(c + k) = c + k /\ c + k \in 0 .. 2 * QueueSize - 1
  BY <1>2, <1>3 DEF SixBits
<1>7. /\ e'.count = c + k
      /\ e'.readPtr = Around(e.readPtr + d)
      /\ e'.writePtr = Around(e.writePtr + k)
      /\ e'.words = Pushed(e, we, req)
      /\ e'.state = e.state /\ e'.reset_addr = e.reset_addr
  <2>1. e'.readPtr = Around(e.readPtr + d)
    <3>1. e'.readPtr = IF e.count = 0 THEN e.readPtr ELSE Around(e.readPtr + 1)
      BY <1>1, <1>4 DEF EditorRegs
    <3> QED
      BY <1>2, <3>1 DEF Around, WordsOf
  <2> QED
    BY <1>1, <1>4, <1>5, <1>6, <2>1 DEF EditorRegs
<1>8. we \in SUBSET Ports
  BY SurroundingsStep
<1>9. /\ Len(new) = k
      /\ \A i \in 1 .. k :
             /\ \E p \in we : new[i] = req[p]
             /\ e'.words[Around(e.writePtr + i - 1)] = new[i]
      /\ \A w \in WordsOf :
             (\A i \in 1 .. k : w # Around(e.writePtr + i - 1))
             => e'.words[w] = e.words[w]
  <2>1. e.writePtr \in WordsOf /\ Cardinality(we) <= QueueSize
    BY <1>2, <1>3
  <2>2. /\ Len(Batch(we, req)) = Cardinality(we)
        /\ \A i \in 1 .. Cardinality(we) :
               /\ \E p \in we : Batch(we, req)[i] = req[p]
               /\ Pushed(e, we, req)[Around(e.writePtr + i - 1)]
                     = Batch(we, req)[i]
        /\ \A w \in WordsOf :
               (\A i \in 1 .. Cardinality(we) :
                    w # Around(e.writePtr + i - 1))
               => Pushed(e, we, req)[w] = e.words[w]
    BY <1>1, <1>8, <2>1, PushedWords
  <2> QED
    BY <1>7, <2>2
<1>10. new \in Seq(Requests) /\ Len(new) = k
  <2>1. \A p \in we : req[p] \in Requests
    BY <1>8
  <2>2. \A i \in 1 .. k : new[i] \in Requests
    BY <1>9, <2>1
  <2>3. new = [i \in 1 .. k |-> new[i]]
    BY DEF Batch
  <2> HIDE DEF new, k
  <2> QED
    BY <1>2, <2>2, <2>3
<1>11. /\ log.pending \in Seq(Requests) /\ Len(log.pending) = e.count
       /\ \A i \in 1 .. e.count :
              log.pending[i] = e.words[Around(e.readPtr + i - 1)]
       /\ e.writePtr = Around(e.readPtr + e.count)
  BY <1>1 DEF IInv, Window, Holds, LogStates
<1>12. /\ old \in Seq(Requests) /\ Len(old) = c
       /\ \A i \in 1 .. c : old[i] = log.pending[i + d]
  <2>1. CASE log.pending = << >>
    BY <1>2, <1>11, <2>1
  <2>2. CASE log.pending # << >>
    <3>1. e.count # 0
      BY <1>11, <2>2
    <3> QED
      BY <1>2, <1>11, <2>2, <3>1
  <2> QED
    BY <2>1, <2>2
<1>13. log' = [log EXCEPT !.pending = old \o new]
  <2>1. ~log.sweeping
    BY DEF IInv, SameMode
  <2> QED
    BY <2>1 DEF Clock, LogNext
<1> HIDE DEF old, new, c, d, k
<1>14. /\ log'.pending = old \o new
       /\ log' \in LogStates /\ log'.sweeping = log.sweeping /\ log'.at = log.at
  <2>1. old \o new \in Seq(Requests)
    BY <1>10, <1>12
  <2> QED
    BY <1>1, <1>13, <2>1 DEF LogStates
<1>15. /\ Len(log'.pending) = c + k
       /\ \A i \in 1 .. c : log'.pending[i] = old[i]
       /\ \A i \in 1 .. k : log'.pending[c + i] = new[i]
  <2>1. Len(old \o new) = c + k
    BY <1>10, <1>12
  <2>2. \A i \in 1 .. c + k :
            (old \o new)[i] = IF i <= c THEN old[i] ELSE new[i - c]
    BY <1>2, <1>10, <1>12
  <2> QED
    BY <1>2, <1>14, <2>1, <2>2
<1>16. ASSUME NEW i \in 1 .. c
       PROVE  log'.pending[i] = e'.words[Around(e'.readPtr + i - 1)]
  <2> DEFINE w == Around(e.readPtr + (i + d) - 1)
  <2>1. i + d \in 1 .. e.count
    BY <1>2
  <2>2. log'.pending[i] = e.words[w]
    BY <1>11, <1>12, <1>15, <2>1
  <2>3. Around(e'.readPtr + i - 1) = w
    BY <1>2, <1>3, <1>7 DEF Around, WordsOf
  <2>4. w \in WordsOf
    BY <1>2, <1>3 DEF Around, WordsOf
  <2>5. ASSUME NEW j \in 1 .. k
        PROVE  w # Around(e.writePtr + j - 1)
    BY <1>2, <1>3, <1>11 DEF Around, WordsOf
  <2> HIDE DEF w
  <2>6. e'.words[w] = e.words[w]
    BY <1>9, <2>4, <2>5
  <2> QED
    BY <2>2, <2>3, <2>6
<1>17. ASSUME NEW i \in 1 .. k
       PROVE  log'.pending[c + i] = e'.words[Around(e'.readPtr + (c + i) - 1)]
  <2>1. i - 1 \in Nat /\ c + (i - 1) \in Nat /\ c + (i - 1) + d <= QueueSize
    BY <1>2, <1>3
  <2>2. Around(e'.readPtr + (c + (i - 1))) = Around(e.readPtr + (d + (c + (i - 1))))
    BY <1>2, <1>7, <2>1, AroundSum
  <2>3. Around(e.writePtr + (i - 1)) = Around(e.readPtr + (e.count + (i - 1)))
    BY <1>2, <1>11, <2>1, AroundSum
  <2>4. d + (c + (i - 1)) = e.count + (i - 1)
    BY <1>2
  <2>5. /\ e'.readPtr + (c + i) - 1 = e'.readPtr + (c + (i - 1))
        /\ e.writePtr + i - 1 = e.writePtr + (i - 1)
    BY <1>2, <1>7 DEF Around, WordsOf
  <2> QED
    BY <1>9, <1>15, <2>2, <2>3, <2>4, <2>5
<1>18. Window'
  <2>1. e'.writePtr = Around(e'.readPtr + e'.count)
    <3>1. e.count <= QueueSize
      BY CountFits
    <3>2. e.writePtr = Around(e'.readPtr + c)
      BY <1>2, <1>7, <1>11, <3>1, AroundSum
    <3>3. e'.readPtr \in WordsOf
      BY <1>2, <1>7 DEF Around, WordsOf
    <3>4. Around(Around(e'.readPtr + c) + k) = Around(e'.readPtr + (c + k))
      BY <1>2, <1>3, <3>3, AroundSum
    <3> QED
      BY <1>7, <3>2, <3>4
  <2>2. ASSUME NEW i \in 1 .. e'.count
        PROVE  log'.pending[i] = e'.words[Around(e'.readPtr + i - 1)]
    <3>1. CASE i \in 1 .. c
      BY <1>16, <3>1
    <3>2. CASE i \notin 1 .. c
      <4>1. i - c \in 1 .. k /\ i = c + (i - c)
        BY <1>2, <1>7, <3>2
      <4>2. log'.pending[c + (i - c)]
              = e'.words[Around(e'.readPtr + (c + (i - c)) - 1)]
        BY <1>17, <4>1
      <4> QED
        BY <4>1, <4>2
    <3> QED
      BY <3>1, <3>2
  <2> QED
    BY <1>7, <1>15, <2>1, <2>2 DEF Window, Holds
<1>19. TypeOK'
  <2>1. e'.words \in [WordsOf -> Requests]
    <3>1. ASSUME NEW w \in WordsOf PROVE e'.words[w] \in Requests
      <4>1. CASE \E i \in 1 .. k : w = Around(e.writePtr + i - 1)
        BY <1>9, <1>8, <4>1
      <4>2. CASE ~\E i \in 1 .. k : w = Around(e.writePtr + i - 1)
        BY <1>1, <1>9, <4>2 DEF EditorRegs
      <4> QED
        BY <4>1, <4>2
    <3> QED
      BY <1>7, <3>1 DEF Pushed
  <2>2. e'.readPtr \in WordsOf /\ e'.writePtr \in WordsOf
    BY <1>2, <1>3, <1>7 DEF Around, WordsOf
  <2>3. e' \in EditorRegs
    BY <1>1, <1>4, <1>6, <1>7, <2>1, <2>2 DEF EditorRegs
  <2> QED
    BY <2>3, SurroundingsStep DEF TypeOK
<1>20. Backlog'
  <2>1. (IF e.count = 0 THEN 0 ELSE e.count - 1) + Cardinality(we)
          <= (IF Cardinality(last') = 2 THEN 2 ELSE 1) + Cardinality(spent')
    BY BacklogStep
  <2> QED
    BY <1>5, <1>7, <2>1 DEF Backlog, k
<1>21. SameMode'
  BY <1>7, <1>14 DEF IInv, SameMode
<1>22. Swept'
  BY <1>7 DEF Swept
<1> QED
  BY <1>18, <1>19, <1>20, <1>21, <1>22 DEF IInv

LEMMA Invariance == Spec => []IInv
PROOF
<1>1. IInv /\ [Next]_vars => IInv'
  <2> SUFFICES ASSUME IInv, [Next]_vars PROVE IInv'
    OBVIOUS
  <2>1. CASE Next
    <3>1. PICK reset \in BOOLEAN, we \in SUBSET Ports, req \in Asks :
              Clock(reset, we, req)
      BY <2>1 DEF Next
    <3>2. req \in [Ports -> Requests]
      BY AsksAssumption
    <3>3. CASE reset \/ e.state = "RESETTING"
      BY <3>1, <3>2, <3>3, SweepStep
    <3>4. CASE reset = FALSE /\ e.state # "RESETTING"
      BY <3>1, <3>2, <3>4, RunStep
    <3> QED
      BY <3>3, <3>4
  <2>2. CASE UNCHANGED vars
    BY <2>2 DEF vars, IInv, TypeOK, Backlog, SameMode, Window, Holds, Swept
  <2> QED
    BY <2>1, <2>2
<1> QED
  BY <1>1, InitIInv, PTL DEF Spec

(* The registers of MapEditor and the map keep their widths and ranges.    *)
THEOREM EditorTypeCorrect == Spec => []TypeOK
PROOF
  BY Invariance, PTL DEF IInv

(* The ring of MapEditor never overflows: at most two requests of the      *)
(* explosions and one of each other port wait.  The report only calls an   *)
(* overflow unlikely.                                                      *)
THEOREM EditorNeverOverflows == Spec => []NeverOverflows
PROOF
<1>1. IInv => NeverOverflows
  <2> SUFFICES ASSUME IInv PROVE NeverOverflows
    OBVIOUS
  <2>1. spent \in SUBSET Sporadic /\ IsFiniteSet(Sporadic)
    BY EditorAssumption DEF IInv, TypeOK
  <2>2. Cardinality(spent) \in Nat
    BY <2>1, FS_Subset, FS_CardinalityType
  <2>3. e.count \in Nat
    BY EditorAssumption DEF IInv, TypeOK, EditorRegs
  <2> QED
    BY <2>2, <2>3 DEF IInv, Backlog, NeverOverflows
<1> QED
  BY <1>1, Invariance, PTL

(* In every cycle the map takes the write an unbounded queue, served in    *)
(* order of arrival and priority, would give it.                           *)
THEOREM EditorKeepsPromise == Spec => []WritesAsPromised
PROOF
<1>1. IInv => WritesAsPromised
  <2> SUFFICES ASSUME IInv PROVE WritesAsPromised
    OBVIOUS
  <2>1. /\ e \in EditorRegs /\ log \in LogStates
        /\ e.state = "RESETTING" <=> log.sweeping
        /\ e.reset_addr = log.at
    BY DEF IInv, TypeOK, SameMode
  <2>2. CASE e.state = "RESETTING"
    BY <2>1, <2>2 DEF WritesAsPromised, EditorWrites, LogWrites
  <2>3. CASE e.state # "RESETTING"
    <3>1. /\ Len(log.pending) = e.count /\ e.count \in Nat
          /\ \A i \in 1 .. e.count :
                 log.pending[i] = e.words[Around(e.readPtr + i - 1)]
          /\ log.pending \in Seq(Requests)
      BY <2>1, EditorAssumption
         DEF IInv, Window, Holds, LogStates, EditorRegs
    <3>2. e.count = 0 <=> log.pending = << >>
      BY <3>1
    <3>3. e.count # 0 => Head(log.pending) = e.words[e.readPtr]
      <4>1. Around(e.readPtr + 1 - 1) = e.readPtr
        BY <2>1, EditorAssumption DEF EditorRegs, WordsOf, Around
      <4> QED
        BY <3>1, <4>1
    <3> QED
      BY <2>1, <2>3, <3>2, <3>3 DEF WritesAsPromised, EditorWrites, LogWrites
  <2> QED
    BY <2>2, <2>3
<1> QED
  BY <1>1, Invariance, PTL

(* Every sweep ends with the initial map.                                  *)
THEOREM EditorSweepRestores == Spec => SweepRestores
PROOF
<1> DEFINE A == e.state = "RESETTING" /\ e'.state = "RUNNING"
                    => map' = InitialMap
<1>1. IInv /\ [Next]_vars => [A]_vars
  <2> SUFFICES ASSUME IInv, Next, e.state = "RESETTING", e'.state = "RUNNING"
               PROVE  map' = InitialMap
    OBVIOUS
  <2>1. PICK reset \in BOOLEAN, we \in SUBSET Ports, req \in Asks :
            Clock(reset, we, req)
    BY DEF Next
  <2>2. req \in [Ports -> Requests]
    BY AsksAssumption
  <2>3. e \in EditorRegs
    BY DEF IInv, TypeOK
  <2>4. e.reset_addr = SweepLast
    BY <2>1, <2>3 DEF Clock, EditorNext, EditorRegs, Remaining, SweepEnds
  <2>5. \A a \in Addrs : a <= e.reset_addr => map'[a] = InitialMap[a]
    BY <2>1, <2>2, SweepCell
  <2>6. \A a \in Addrs : map'[a] = InitialMap[a]
    BY <2>4, <2>5, EditorAssumption DEF Addrs
  <2>7. map' = [a \in Addrs |-> map'[a]]
    BY <2>1 DEF Clock, MapNext
  <2>8. InitialMap = [a \in Addrs |-> InitialMap[a]]
    BY EditorAssumption
  <2> QED
    BY <2>6, <2>7, <2>8
<1> QED
  BY <1>1, Invariance, PTL DEF Spec, SweepRestores

=============================================================================
