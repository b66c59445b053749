----------------------------- MODULE MapLemmas -----------------------------
(***************************************************************************)
(* Facts about the operators that Explosions, BombManager and MapEditor    *)
(* are built from: addresses and ticks modulo a span, the priorities of    *)
(* the ports, and the register transfers, which stay within their widths.  *)
(***************************************************************************)
EXTENDS Explosion, WriteLog, FiniteSetTheorems, TLAPS

-----------------------------------------------------------------------------
(***************************************************************************)
(* Addresses and ticks modulo a span.                                      *)
(***************************************************************************)
LEMMA RestInRange ==
    ASSUME NEW a \in Int, NEW n \in Nat \ {0}
    PROVE  a % n \in 0 .. n - 1
  OBVIOUS

LEMMA UniqueRest ==
    ASSUME NEW N \in Nat \ {0}, NEW q \in Int, NEW p \in Int,
           NEW r \in 0 .. N - 1, NEW s \in 0 .. N - 1, q * N + r = p * N + s
    PROVE  r = s
<1>1. ASSUME NEW a \in Int, NEW b \in Int, NEW c \in 0 .. N - 1, NEW d \in 0 .. N - 1,
             a < b, a * N + c = b * N + d
      PROVE  FALSE
  <2>1. PICK e \in Nat : b = a + 1 + e
    <3>1. b - a - 1 \in Nat
      BY <1>1
    <3>. QED  BY <3>1
  <2>2. b * N = a * N + N + e * N
    BY <2>1
  <2>3. e * N >= 0
    OBVIOUS
  <2>. QED  BY <1>1, <2>2, <2>3
<1>2. CASE q = p
  BY <1>2
<1>3. CASE q < p
  BY <1>1, <1>3
<1>4. CASE p < q
  BY <1>1, <1>4
<1>. QED  BY <1>2, <1>3, <1>4

LEMMA Rest ==
    ASSUME NEW N \in Nat \ {0}, NEW a \in Nat
    PROVE  a = ((a \div N) * N) + (a % N) /\ a % N \in 0 .. N - 1 /\ a \div N \in Nat
OBVIOUS

LEMMA RestAdds ==
    ASSUME NEW N \in Nat \ {0}, NEW a \in Nat, NEW b \in Nat
    PROVE  ((a % N) + b) % N = (a + b) % N
<1>. DEFINE q == a \div N
            r == a % N
            p == (r + b) \div N
            s == (r + b) % N
            u == (a + b) \div N
            v == (a + b) % N
<1>1. a = q * N + r /\ r \in 0 .. N - 1 /\ q \in Nat
  BY Rest
<1>2. r + b = p * N + s /\ s \in 0 .. N - 1 /\ p \in Nat
  <2>1. r + b \in Nat
    BY <1>1
  <2>. QED  BY ONLY N \in Nat \ {0}, <2>1, Rest, Zenon
<1>3. a + b = u * N + v /\ v \in 0 .. N - 1 /\ u \in Nat
  <2>1. a + b \in Nat
    OBVIOUS
  <2>. QED  BY ONLY N \in Nat \ {0}, <2>1, Rest, Zenon
<1>. HIDE DEF q, r, p, s, u, v
<1>4. (q + p) * N + s = u * N + v
  <2>1. (q + p) * N = q * N + p * N
    BY <1>1, <1>2
  <2>. QED  BY <2>1, <1>1, <1>2, <1>3
<1>5. s = v
  <2>1. q + p \in Int /\ u \in Int /\ s \in 0 .. N - 1 /\ v \in 0 .. N - 1
    BY <1>1, <1>2, <1>3
  <2>. QED  BY ONLY N \in Nat \ {0}, <2>1, <1>4, UniqueRest
<1>. QED  BY <1>5 DEF r, s, v

LEMMA SmallMultiple ==
    ASSUME NEW N \in Nat \ {0}, NEW t \in Int, NEW d \in Int, d = t * N, -N < d, d < N
    PROVE  d = 0
  <1>1. CASE t >= 1
    <2>1. PICK e \in Nat : t = e + 1
      <3>1. t - 1 \in Nat /\ t = (t - 1) + 1
        BY <1>1
      <3> QED BY <3>1
    <2>2. t * N = e * N + N /\ e * N >= 0
      BY <2>1
    <2> QED BY <2>2
  <1>2. CASE t <= -1
    <2>1. PICK e \in Nat : t = -(e + 1)
      <3>1. -t - 1 \in Nat /\ t = -((-t - 1) + 1)
        BY <1>2
      <3> QED BY <3>1
    <2>2. t * N = -(e * N) - N /\ e * N >= 0
      BY <2>1
    <2> QED BY <2>2
  <1>3. CASE t = 0
    BY <1>3
  <1> QED BY <1>1, <1>2, <1>3

LEMMA SameRest ==
    ASSUME NEW N \in Nat \ {0}, NEW a \in Nat, NEW b \in Nat, a % N = b % N
    PROVE  \E t \in Int : a - b = t * N
  <1> DEFINE q == a \div N
             p == b \div N
  <1>1. a = q * N + (a % N) /\ q \in Nat /\ a % N \in 0 .. N - 1
    BY Rest
  <1>2. b = p * N + (b % N) /\ p \in Nat /\ b % N \in 0 .. N - 1
    BY Rest
  <1> HIDE DEF q, p
  <1>3. a - b = q * N - p * N
    BY <1>1, <1>2
  <1>4. q * N - p * N = (q - p) * N /\ q - p \in Int
    BY <1>1, <1>2
  <1> QED BY <1>3, <1>4

LEMMA RestOfRest ==
    ASSUME NEW N \in Nat \ {0}, NEW M \in Nat \ {0}, M % N = 0, NEW a \in Nat
    PROVE  (a % M) % N = a % N
  <1> DEFINE m == M \div N
             q == a \div M
             r == a % M
             p == r \div N
             s == r % N
             u == a \div N
             v == a % N
  <1>1. M = m * N /\ m \in Nat
    <2>1. M = ((M \div N) * N) + (M % N) /\ M \div N \in Nat
      BY Rest
    <2> QED BY <2>1
  <1>2. a = q * M + r /\ r \in 0 .. M - 1 /\ q \in Nat
    BY Rest
  <1>3. r = p * N + s /\ s \in 0 .. N - 1 /\ p \in Nat
    <2>1. r \in Nat
      BY <1>2
    <2> QED BY ONLY N \in Nat \ {0}, <2>1, Rest, Zenon
  <1>4. a = u * N + v /\ v \in 0 .. N - 1 /\ u \in Nat
    BY Rest
  <1> HIDE DEF m, q, r, p, s, u, v
  <1>5. (q * m + p) * N = q * M + p * N /\ q * m + p \in Nat
    <2>1. q * (m * N) = (q * m) * N /\ q * m \in Nat
      BY <1>1, <1>2
    <2> QED BY <1>1, <1>3, <2>1
  <1>6. (q * m + p) * N + s = u * N + v
    BY <1>2, <1>3, <1>4, <1>5
  <1>7. s = v
    <2>1. q * m + p \in Int /\ u \in Int /\ s \in 0 .. N - 1 /\ v \in 0 .. N - 1
      BY <1>3, <1>4, <1>5
    <2> QED BY ONLY N \in Nat \ {0}, <2>1, <1>6, UniqueRest
  <1> QED BY <1>7 DEF r, s, v

-----------------------------------------------------------------------------
(***************************************************************************)
(* The ports of MapEditor and the log of their requests.                   *)
(***************************************************************************)
LEMMA FinitePorts ==
    ASSUME NEW we \in SUBSET Ports
    PROVE  /\ IsFiniteSet(we)
           /\ Cardinality(we) \in Nat
PROOF
<1>1. IsFiniteSet(Ports)
  BY EditorAssumption, FS_Union DEF Ports
<1> QED
  BY <1>1, FS_Subset, FS_CardinalityType

(* Ranks number the ports that are high from 0, without gaps.              *)
LEMMA RankProperties ==
    ASSUME NEW we \in SUBSET Ports
    PROVE  /\ \A p \in we : /\ Rank(we, p) \in 0 .. Cardinality(we) - 1
                            /\ Cardinality({o \in we : o <= p}) = Rank(we, p) + 1
           /\ \A p, r \in we : Rank(we, p) = Rank(we, r) => p = r
           /\ \A i \in 1 .. Cardinality(we) :
                  \E p \in we : Cardinality({o \in we : o <= p}) = i
PROOF
<1> DEFINE Below(p) == {o \in we : o < p}
<1>1. IsFiniteSet(we) /\ Cardinality(we) \in Nat /\ \A x \in we : x \in Nat
  BY FinitePorts, EditorAssumption DEF Ports
<1>2. ASSUME NEW p \in we
      PROVE  /\ IsFiniteSet(Below(p))
             /\ Rank(we, p) \in 0 .. Cardinality(we) - 1
             /\ Cardinality({o \in we : o <= p}) = Rank(we, p) + 1
  <2>1. Below(p) \in SUBSET we /\ p \notin Below(p)
    <3>1. ~(p < p)
      BY <1>1
    <3> QED
      BY <3>1
  <2>2. IsFiniteSet(Below(p)) /\ Cardinality(Below(p)) <= Cardinality(we)
        /\ Cardinality(Below(p)) # Cardinality(we)
    BY <1>1, <2>1, FS_Subset
  <2>3. Cardinality(Below(p)) \in Nat
    BY <2>2, FS_CardinalityType
  <2>4. {o \in we : o <= p} = Below(p) \cup {p}
    <3>1. \A o \in we : o <= p <=> (o < p \/ o = p)
      BY <1>1
    <3> QED
      BY <3>1
  <2>5. Cardinality(Below(p) \cup {p}) = Cardinality(Below(p)) + 1
    BY <2>1, <2>2, FS_AddElement
  <2>6. Rank(we, p) = Cardinality(Below(p))
    BY DEF Rank
  <2> QED
    BY <1>1, <2>2, <2>3, <2>4, <2>5, <2>6
<1>3. ASSUME NEW o \in we, NEW p \in we, o < p
      PROVE  Rank(we, o) # Rank(we, p)
  <2>1. Below(o) \in SUBSET Below(p) /\ o \in Below(p) /\ o \notin Below(o)
    <3>1. ~(o < o) /\ \A x \in we : x < o => x < p
      BY <1>1, <1>3
    <3> QED
      BY <1>3, <3>1
  <2>2. Cardinality(Below(o)) # Cardinality(Below(p))
    BY <1>2, <2>1, FS_Subset
  <2> QED
    BY <2>2 DEF Rank
<1>4. \A p, r \in we : Rank(we, p) = Rank(we, r) => p = r
  <2> SUFFICES ASSUME NEW p \in we, NEW r \in we, p # r
               PROVE  Rank(we, p) # Rank(we, r)
    OBVIOUS
  <2>1. p < r \/ r < p
    BY <1>1
  <2> QED
    BY <1>3, <2>1
<1>5. ASSUME NEW i \in 1 .. Cardinality(we)
      PROVE  \E p \in we : Cardinality({o \in we : o <= p}) = i
  <2> DEFINE f == [p \in we |-> Rank(we, p)]
             T == 0 .. Cardinality(we) - 1
  <2>1. f \in Injection(we, T)
    BY <1>2, <1>4 DEF Injection, IsInjective
  <2>2. IsFiniteSet(T) /\ Cardinality(T) = Cardinality(we)
    <3>1. 0 \in Int /\ Cardinality(we) - 1 \in Int
      BY <1>1
    <3>2. Cardinality(T) = IF 0 > Cardinality(we) - 1 THEN 0
                           ELSE Cardinality(we) - 1 - 0 + 1
      BY <3>1, FS_Interval
    <3> QED
      BY <1>1, <3>1, <3>2, FS_Interval
  <2> HIDE DEF f, T
  <2>3. f \in Surjection(we, T)
    BY <2>1, <2>2, FS_Injection
  <2>4. i - 1 \in T
    BY <1>1, <1>5 DEF T
  <2>5. PICK p \in we : f[p] = i - 1
    BY <2>3, <2>4 DEF Surjection
  <2>6. Rank(we, p) = i - 1
    BY <2>5 DEF f
  <2>7. Cardinality({o \in we : o <= p}) = Rank(we, p) + 1
    BY <1>2
  <2>8. Rank(we, p) + 1 = i
    BY <1>1, <2>6
  <2> QED
    BY <2>7, <2>8
<1> QED
  BY <1>2, <1>4, <1>5


LEMMA BatchStays ==
    ASSUME NEW we \in SUBSET Ports, NEW req, \A p \in we : req[p] \in Requests
    PROVE  Batch(we, req) \in Seq(Requests)
  <1> DEFINE at(i) == CHOOSE p \in we : Cardinality({o \in we : o <= p}) = i
  <1>1. Cardinality(we) \in Nat
    BY FinitePorts
  <1>2. \A i \in 1 .. Cardinality(we) : at(i) \in we
    BY RankProperties
  <1>3. \A i \in 1 .. Cardinality(we) : req[at(i)] \in Requests
    BY <1>2
  <1>4. Batch(we, req) = [i \in 1 .. Cardinality(we) |-> req[at(i)]]
    BY DEF Batch
  <1> HIDE DEF at
  <1> QED BY <1>1, <1>3, <1>4

LEMMA JoinedStays ==
    ASSUME NEW S, NEW s \in Seq(S), NEW t \in Seq(S)
    PROVE  s \o t \in Seq(S)
  OBVIOUS

LEMMA TailStays ==
    ASSUME NEW S, NEW s \in Seq(S), s # << >>
    PROVE  Tail(s) \in Seq(S) /\ Head(s) \in S
  OBVIOUS

LEMMA LogStays ==
    ASSUME NEW l \in LogStates, NEW reset \in BOOLEAN, NEW we \in SUBSET Ports,
           NEW req, \A p \in we : req[p] \in Requests
    PROVE  LogNext(l, reset, we, req) \in LogStates
  <1>1. /\ l = [sweeping |-> l.sweeping, at |-> l.at, pending |-> l.pending]
        /\ l.sweeping \in BOOLEAN /\ l.at \in 0 .. SweepLast
        /\ l.pending \in Seq(Requests)
    BY DEF LogStates
  <1>2. SweepLast \in Nat /\ << >> \in Seq(Requests)
    BY EditorAssumption
  <1>3. CASE reset
    BY <1>2, <1>3 DEF LogNext, LogStates
  <1>4. CASE ~reset /\ l.sweeping
    BY <1>1, <1>2, <1>4 DEF LogNext, LogStates, EmptyLog
  <1>5. CASE ~reset /\ ~l.sweeping
    <2> DEFINE left == IF l.pending = << >> THEN l.pending ELSE Tail(l.pending)
    <2>1. left \in Seq(Requests)
      BY <1>1, TailStays
    <2>2. left \o Batch(we, req) \in Seq(Requests)
      BY <2>1, BatchStays, JoinedStays
    <2>3. LogNext(l, reset, we, req) = [l EXCEPT !.pending = left \o Batch(we, req)]
      BY <1>5 DEF LogNext
    <2> HIDE DEF left
    <2> QED BY <1>1, <2>2, <2>3 DEF LogStates
  <1> QED BY <1>3, <1>4, <1>5

LEMMA WritesAreRequests ==
    ASSUME NEW l \in LogStates
    PROVE  LogWrites(l) \subseteq Requests
  <1>1. l.pending \in Seq(Requests)
    BY DEF LogStates
  <1>2. \A a \in Addrs : [addr |-> a, data |-> InitialMap[a]] \in Requests
    BY EditorAssumption DEF Requests
  <1> QED BY <1>1, <1>2, TailStays DEF LogWrites

LEMMA MapStays ==
    ASSUME NEW map \in [Addrs -> Data], NEW writes, writes \subseteq Requests
    PROVE  MapNext(map, writes) \in [Addrs -> Data]
  <1>1. \A a \in Addrs : (\E w \in writes : w.addr = a)
                            => (CHOOSE w \in writes : w.addr = a) \in Requests
    OBVIOUS
  <1> QED BY <1>1 DEF MapNext, Requests

-----------------------------------------------------------------------------
(***************************************************************************)
(* The log and the map, request by request.                                *)
(***************************************************************************)
LEMMA BatchIsAsked ==
    ASSUME NEW we \in SUBSET Ports, NEW req
    PROVE  /\ \A i \in 1 .. Len(Batch(we, req)) :
                  \E p \in we : Batch(we, req)[i] = req[p]
           /\ \A p \in we : \E i \in 1 .. Len(Batch(we, req)) :
                  Batch(we, req)[i] = req[p]
           /\ Len(Batch(we, req)) \in Nat
  <1> DEFINE at(i) == CHOOSE p \in we : Cardinality({o \in we : o <= p}) = i
             n == Cardinality(we)
  <1>1. n \in Nat
    BY FinitePorts
  <1>2. \A i \in 1 .. n : at(i) \in we /\ Cardinality({o \in we : o <= at(i)}) = i
    BY RankProperties
  <1>3. Batch(we, req) = [i \in 1 .. n |-> req[at(i)]]
    BY DEF Batch
  <1>4. ASSUME NEW p \in we
        PROVE  \E i \in 1 .. n : at(i) = p
    <2> DEFINE i == Cardinality({o \in we : o <= p})
    <2>1. i \in 1 .. n
      <3>1. Rank(we, p) \in 0 .. n - 1 /\ i = Rank(we, p) + 1
        BY RankProperties
      <3> HIDE DEF i, n
      <3> QED BY ONLY <1>1, <3>1
    <2>2. at(i) \in we /\ Cardinality({o \in we : o <= at(i)}) = i
      BY <1>2, <2>1
    <2> HIDE DEF at
    <2>3. Rank(we, at(i)) + 1 = Rank(we, p) + 1
      BY <2>2, RankProperties
    <2>4. Rank(we, at(i)) \in Int /\ Rank(we, p) \in Int
      BY <2>2, RankProperties, <1>1
    <2>5. Rank(we, at(i)) = Rank(we, p)
      BY <2>3, <2>4
    <2>6. at(i) = p
      BY <2>2, <2>5, RankProperties
    <2> QED BY <2>1, <2>6
  <1> HIDE DEF at, n
  <1>5. Len(Batch(we, req)) = n
    BY <1>1, <1>3
  <1>6. \A i \in 1 .. n : Batch(we, req)[i] = req[at(i)]
    BY <1>3
  <1> QED BY <1>1, <1>2, <1>4, <1>5, <1>6

(* From a log with the requests s to one with the requests t: the first    *)
(* one has been written, those of the ports in we have come in.            *)
StillWaiting(s) == IF s = << >> THEN 0 ELSE Len(s) - 1

Moved(s, t, we, req) ==
    /\ Len(t) \in Nat /\ StillWaiting(s) \in 0 .. Len(t)
    /\ \A k \in 1 .. StillWaiting(s) : t[k] = s[k + 1]
    /\ \A k \in StillWaiting(s) + 1 .. Len(t) : \E p \in we : t[k] = req[p]
    /\ \A p \in we : \E k \in StillWaiting(s) + 1 .. Len(t) : t[k] = req[p]

LEMMA LogMoves ==
    ASSUME NEW l \in LogStates, ~l.sweeping, NEW reset \in BOOLEAN, ~reset,
           NEW we \in SUBSET Ports, NEW req, \A p \in we : req[p] \in Requests,
           NEW n, n = LogNext(l, reset, we, req)
    PROVE  ~n.sweeping /\ Moved(l.pending, n.pending, we, req)
  <1> DEFINE s == l.pending
             left == IF s = << >> THEN s ELSE Tail(s)
             b == Batch(we, req)
             m == StillWaiting(s)
             t == left \o b
  <1>1. /\ l = [sweeping |-> l.sweeping, at |-> l.at, pending |-> s]
        /\ s \in Seq(Requests)
    BY DEF LogStates
  <1>2. n = [l EXCEPT !.pending = t]
    BY DEF LogNext
  <1>3. n.sweeping = l.sweeping /\ n.pending = t
    <2> HIDE DEF t, s
    <2> QED BY ONLY <1>1, <1>2
  <1>4. b \in Seq(Requests) /\ left \in Seq(Requests)
    BY <1>1, BatchStays, TailStays
  <1>5. Len(left) = m /\ m \in Nat /\ \A k \in 1 .. m : left[k] = s[k + 1]
    BY ONLY <1>1 DEF StillWaiting
  <1>6. /\ \A i \in 1 .. Len(b) : \E p \in we : b[i] = req[p]
        /\ \A p \in we : \E i \in 1 .. Len(b) : b[i] = req[p]
        /\ Len(b) \in Nat
    BY BatchIsAsked
  <1> HIDE DEF left, b, m
  <1>7. /\ Len(t) = m + Len(b)
        /\ \A k \in 1 .. m : t[k] = left[k]
        /\ \A i \in 1 .. Len(b) : t[m + i] = b[i]
    <2>1. Len(left) = m /\ Len(t) = Len(left) + Len(b)
      BY ONLY <1>4, <1>5
    <2>2. \A k \in 1 .. Len(left) : t[k] = left[k]
      BY ONLY <1>4
    <2>3. \A i \in 1 .. Len(b) : t[Len(left) + i] = b[i]
      BY ONLY <1>4
    <2> QED BY ONLY <2>1, <2>2, <2>3
  <1> HIDE DEF t
  <1>8. Len(t) \in Nat /\ m \in 0 .. Len(t) /\ \A k \in 1 .. m : t[k] = s[k + 1]
    BY ONLY <1>5, <1>6, <1>7
  <1>9. ASSUME NEW k \in m + 1 .. Len(t) PROVE \E p \in we : t[k] = req[p]
    <2>1. k - m \in 1 .. Len(b) /\ m + (k - m) = k
      BY ONLY <1>5, <1>6, <1>7, k \in m + 1 .. Len(t)
    <2>2. t[k] = b[k - m]
      BY ONLY <1>7, <2>1
    <2> QED BY <1>6, <2>1, <2>2
  <1>10. ASSUME NEW p \in we PROVE \E k \in m + 1 .. Len(t) : t[k] = req[p]
    <2>1. PICK i \in 1 .. Len(b) : b[i] = req[p]
      BY <1>6
    <2>2. m + i \in m + 1 .. Len(t) /\ t[m + i] = b[i]
      BY ONLY <1>5, <1>6, <1>7, i \in 1 .. Len(b)
    <2> QED BY <2>1, <2>2
  <1> QED BY <1>3, <1>8, <1>9, <1>10 DEF Moved, m

(* One cell of the map.                                                    *)
LEMMA CellNext ==
    ASSUME NEW map, NEW a \in Addrs, NEW l \in LogStates, ~l.sweeping
    PROVE  MapNext(map, LogWrites(l))[a] =
             IF l.pending # << >> /\ l.pending[1].addr = a
             THEN l.pending[1].data ELSE map[a]
  <1>1. LogWrites(l) = IF l.pending = << >> THEN {} ELSE {Head(l.pending)}
    BY DEF LogWrites
  <1>2. l.pending \in Seq(Requests)
    BY DEF LogStates
  <1>3. CASE l.pending = << >>
    <2>1. LogWrites(l) = {}
      BY <1>1, <1>3
    <2> QED BY ONLY <1>3, <2>1, a \in Addrs DEF MapNext
  <1>4. CASE l.pending # << >>
    <2> DEFINE h == Head(l.pending)
    <2>1. LogWrites(l) = {h} /\ h = l.pending[1]
      BY <1>1, <1>2, <1>4
    <2> HIDE DEF h
    <2>2. MapNext(map, {h})[a] = IF h.addr = a THEN h.data ELSE map[a]
      BY DEF MapNext
    <2> QED BY <1>4, <2>1, <2>2
  <1> QED BY <1>3, <1>4

LEMMA CellSwept ==
    ASSUME NEW map, NEW a \in Addrs, NEW l \in LogStates, l.sweeping
    PROVE  /\ a = l.at => MapNext(map, LogWrites(l))[a] = InitialMap[a]
           /\ a # l.at => MapNext(map, LogWrites(l))[a] = map[a]
  <1>1. LogWrites(l) = {[addr |-> b, data |-> InitialMap[b]] : b \in {l.at} \cap Addrs}
    BY DEF LogWrites
  <1> DEFINE W == LogWrites(l)
  <1>2. CASE a = l.at
    <2>1. W = {[addr |-> a, data |-> InitialMap[a]]}
      BY <1>1, <1>2
    <2> HIDE DEF W
    <2>2. MapNext(map, W)[a] = InitialMap[a]
      <3>1. \A w \in W : w.addr = a /\ w.data = InitialMap[a]
        BY ONLY <2>1
      <3>2. (CHOOSE w \in W : w.addr = a) \in W /\ \E w \in W : w.addr = a
        BY ONLY <2>1, <3>1
      <3> QED BY ONLY <3>1, <3>2, a \in Addrs DEF MapNext
    <2> QED BY <1>2, <2>2 DEF W
  <1>3. CASE a # l.at
    <2>1. \A w \in W : w.addr # a
      BY <1>1, <1>3
    <2> HIDE DEF W
    <2>2. MapNext(map, W)[a] = map[a]
      BY <2>1 DEF MapNext
    <2> QED BY <1>3, <2>2 DEF W
  <1> QED BY <1>2, <1>3

-----------------------------------------------------------------------------
(***************************************************************************)
(* Explosions.                                                             *)
(***************************************************************************)
Inputs == [ready : BOOLEAN, length : 0 .. 3, coordinate : 0 .. AddrSpan - 1,
           timer : 0 .. TimerSpan - 1, Data_IN : Identifiers, item_true : BOOLEAN]

SpansOK == /\ Stride \in Nat /\ AddrSpan \in Nat \ {0} /\ TimerSpan \in Nat \ {0}
           /\ FlameTicks \in Nat

LEMMA TowardInRange ==
    ASSUME SpansOK, NEW arm \in Arms, NEW a \in 0 .. AddrSpan - 1
    PROVE  Toward(arm, a) \in 0 .. AddrSpan - 1
  <1>1. arm \in {1, 2, 3, 4}
    BY DEF Arms
  <1>2. <<AddrSpan - Stride, Stride, AddrSpan - 1, 1>>[arm] \in Int
    BY <1>1 DEF SpansOK
  <1>3. a + <<AddrSpan - Stride, Stride, AddrSpan - 1, 1>>[arm] \in Int
    BY <1>2 DEF SpansOK
  <1> QED BY <1>3, RestInRange DEF Toward, SpansOK

(* The registers with names for the ranges.                                *)
Counts  == 0 .. 7
Sizes   == 0 .. 3
Cells   == 0 .. AddrSpan - 1
Times   == 0 .. TimerSpan - 1
Regs    == [phase : Phases, arm : Arms, count : Counts, length : Sizes,
            coords : Cells, Address : Cells, WE_O : BOOLEAN,
            Data_O : Identifiers, clear_time : Times]

LEMMA RegsAre == ExplosionRegs = Regs
  BY DEF ExplosionRegs, Regs, Counts, Sizes, Cells, Times

LEMMA RegsOf ==
    ASSUME NEW x \in Regs
    PROVE  /\ x.phase \in Phases /\ x.arm \in Arms /\ x.count \in Counts
           /\ x.length \in Sizes /\ x.coords \in Cells
           /\ x.Address \in Cells /\ x.WE_O \in BOOLEAN
           /\ x.Data_O \in Identifiers /\ x.clear_time \in Times
  BY DEF Regs

LEMMA Values ==
    /\ 1 \in Arms /\ 7 \in Counts
    /\ {"START", "ARM", "REPLACE", "MID", "WAIT", "C_ARM", "CLEAR", "C_MID"} = Phases
    /\ \A l \in Sizes : FirstCount(l) \in Counts
    /\ \A p \in Players : flame(p) \in Identifiers /\ item(p) \in Identifiers
    /\ path \in Identifiers
  BY DEF Arms, Counts, Phases, Sizes, FirstCount, Identifiers

LEMMA IdleStays ==
    ASSUME NEW x \in Regs, NEW p \in Players
    PROVE  Idle(x, p) \in Regs
  <1>1. flame(p) \in Identifiers /\ 1 \in Arms /\ 7 \in Counts
    BY Values
  <1> QED BY ONLY <1>1, x \in Regs DEF Regs, Idle

LEMMA ArmStays ==
    ASSUME SpansOK, NEW x \in Regs, NEW p \in Players, NEW look \in Phases,
           NEW centre \in Phases
    PROVE  ArmNext(x, p, look, centre) \in Regs
  <1>1. Idle(x, p) \in Regs
    BY IdleStays
  <1>2. x.arm \in Arms /\ x.length \in Sizes /\ x.count \in Counts /\ x.Address \in Cells
    BY RegsOf
  <1>3. FirstCount(x.length) \in Counts
    BY <1>2, Values
  <1>4. CASE ~ArmEnded(x)
    <2>1. x.count + 1 \in Counts
      BY <1>2, <1>4 DEF ArmEnded, Counts
    <2>2. Toward(x.arm, x.Address) \in Cells
      BY <1>2, TowardInRange DEF Cells
    <2> QED BY ONLY <1>1, <1>2, <1>4, <2>1, <2>2, look \in Phases DEF ArmNext, Regs
  <1>5. CASE ArmEnded(x) /\ x.arm < 4
    <2>1. x.arm + 1 \in Arms
      BY <1>2, <1>5 DEF Arms
    <2> QED BY ONLY <1>1, <1>3, <1>5, <2>1 DEF ArmNext, Regs
  <1>6. CASE ArmEnded(x) /\ ~(x.arm < 4)
    BY ONLY <1>1, <1>3, <1>6, centre \in Phases DEF ArmNext, Regs
  <1> QED BY <1>4, <1>5, <1>6

(* Whatever its phase and its inputs, an explosion keeps its registers     *)
(* within their widths (explosion.sv).                                     *)
LEMMA ExplosionStays ==
    ASSUME SpansOK, NEW x \in ExplosionRegs, NEW p \in Players, NEW in \in Inputs
    PROVE  ExplosionNext(x, p, in) \in ExplosionRegs
  <1>1. x \in Regs /\ Idle(x, p) \in Regs
    BY RegsAre, IdleStays
  <1>2. Remains(p, in) \in Identifiers /\ Own(p, in.Data_IN) \in BOOLEAN
        /\ (in.Data_IN \notin {wall, bomb}) \in BOOLEAN
    BY Values DEF Remains, Own
  <1>3. x.length \in Sizes /\ x.arm \in Arms /\ x.count \in Counts
        /\ x.Address \in Cells
    BY <1>1, RegsOf
  <1>4. FirstCount(x.length) \in Counts /\ 7 \in Counts
    BY <1>3, Values
  <1>5. in.length \in Sizes /\ in.coordinate \in Cells /\ in.timer \in Times
    BY DEF Inputs, Sizes, Cells, Times
  <1>6. ClearTime(in.timer) \in Times /\ FirstCount(in.length) \in Counts
    <2>1. in.timer + FlameTicks \in Int
      BY <1>5 DEF Times, SpansOK
    <2> QED BY <1>5, <2>1, RestInRange, Values DEF ClearTime, Times, SpansOK
  <1>7. /\ "ARM" \in Phases /\ "REPLACE" \in Phases /\ "MID" \in Phases
        /\ "WAIT" \in Phases /\ "C_ARM" \in Phases /\ "CLEAR" \in Phases
        /\ "C_MID" \in Phases /\ "START" \in Phases
    BY Values
  <1>8. CASE x.phase = "START"
    <2>1. ExplosionNext(x, p, in) = StartNext(x, p, in)
      BY <1>8 DEF ExplosionNext
    <2>2. StartNext(x, p, in) \in Regs
      BY ONLY <1>1, <1>5, <1>6, <1>7 DEF StartNext, Regs
    <2> QED BY <2>1, <2>2, RegsAre
  <1>9. CASE x.phase = "ARM"
    BY <1>1, <1>7, <1>9, ArmStays, RegsAre DEF ExplosionNext
  <1>10. CASE x.phase = "C_ARM"
    BY <1>1, <1>7, <1>10, ArmStays, RegsAre DEF ExplosionNext
  <1>11. CASE x.phase = "REPLACE"
    <2>1. ExplosionNext(x, p, in) = ReplaceNext(x, p, in)
      BY <1>11 DEF ExplosionNext
    <2>2. ReplaceNext(x, p, in) \in Regs
      BY ONLY <1>1, <1>2, <1>3, <1>4, <1>7 DEF ReplaceNext, Regs
    <2> QED BY <2>1, <2>2, RegsAre
  <1>12. CASE x.phase = "MID"
    <2>1. ExplosionNext(x, p, in) = MidNext(x, p)
      BY <1>12 DEF ExplosionNext
    <2>2. MidNext(x, p) \in Regs
      BY ONLY <1>1, <1>3, <1>7 DEF MidNext, Regs
    <2> QED BY <2>1, <2>2, RegsAre
  <1>13. CASE x.phase = "WAIT"
    <2>1. ExplosionNext(x, p, in) = WaitNext(x, p, in)
      BY <1>13 DEF ExplosionNext
    <2>2. WaitNext(x, p, in) \in Regs
      BY ONLY <1>1, <1>4, <1>7 DEF WaitNext, Regs
    <2> QED BY <2>1, <2>2, RegsAre
  <1>14. CASE x.phase = "CLEAR"
    <2>1. ExplosionNext(x, p, in) = ClearNext(x, p, in)
      BY <1>14 DEF ExplosionNext
    <2>2. ClearNext(x, p, in) \in Regs
      BY ONLY <1>1, <1>2, <1>3, <1>4, <1>7 DEF ClearNext, Regs
    <2> QED BY <2>1, <2>2, RegsAre
  <1>15. CASE x.phase = "C_MID"
    <2>1. ExplosionNext(x, p, in) = ClearMidNext(x, p, in)
      BY <1>15 DEF ExplosionNext
    <2>2. ClearMidNext(x, p, in) \in Regs
      BY ONLY <1>1, <1>2, <1>3, <1>7 DEF ClearMidNext, Regs
    <2> QED BY <2>1, <2>2, RegsAre
  <1>16. x.phase \in Phases
    BY <1>1, RegsOf
  <1> QED BY <1>8, <1>9, <1>10, <1>11, <1>12, <1>13, <1>14, <1>15, <1>16 DEF Phases
=============================================================================
