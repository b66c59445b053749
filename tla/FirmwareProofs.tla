--------------------------- MODULE FirmwareProofs ---------------------------
(***************************************************************************)
(* Proofs about the parts the keyboard software stands on.                 *)
(*                                                                         *)
(* Alarms: every alarm of a careful program rings in the tick it was set   *)
(* for, for every width of the tick counter and any number of alarms:      *)
(* CarefulAlarms implements AlarmClock.  Files: for every number of        *)
(* descriptors and every set of devices, a claim of a device, once granted *)
(* beside at most one descriptor above it, is kept: Files implements the   *)
(* weaker specification of DeviceLocks.                                    *)
(* Hpi: for all words and addresses, what is written over the bus arrives  *)
(* and is read back, if two accesses to the ports are two clocks apart.    *)
(* JtagUart: for rings of every length, a device of every depth and calls  *)
(* of every size, no character is lost, doubled or out of turn, and no     *)
(* interrupt stays off while there is something for it to do.              *)
(***************************************************************************)
EXTENDS Alarms, Files, Hpi, JtagUart, TLAPS

(***************************************************************************)
(* The alarms.                                                             *)
(***************************************************************************)
Ticks == 0 .. Span - 1

(* The alarms from a node of the list on, and all of them.                 *)
From(n) == IF n = AlarmList THEN {} ELSE {n} \union behind[n]
InList  == {b \in Alarms : Linked(b)}

ListTypes ==
    /\ next \in [Nodes -> Nodes \union {Null}]
    /\ previous \in [Nodes -> Nodes \union {Null}]
    /\ behind \in [Alarms -> SUBSET Alarms]

(* `next` and `previous` are inverse to each other where they are set, and *)
(* `behind` tells what `next` leads to.                                    *)
ListOK ==
    /\ ListTypes
    /\ next[AlarmList] # Null
    /\ \A n \in Nodes : next[n] = Null <=> previous[n] = Null
    /\ \A n \in Nodes : next[n] # Null => /\ previous[next[n]] = n
                                          /\ next[previous[n]] = n
    /\ \A a \in Alarms : /\ a \notin behind[a]
                         /\ behind[a] \subseteq InList
    /\ \A a \in Alarms : Linked(a) => behind[a] = From(next[a])
    /\ InList = From(next[AlarmList])

WalkOK ==
    /\ alarm \in Nodes /\ following \in Nodes /\ calling \in BOOLEAN
    /\ alarm = AlarmList => ~calling
    /\ ~calling => following = AlarmList
    /\ next[alarm] # Null
    /\ alarm # AlarmList /\ ~calling => Linked(alarm)
    /\ following # AlarmList => Linked(following)
    /\ following # alarm \/ alarm = AlarmList
    /\ calling /\ Linked(alarm) => next[alarm] = following

(* The alarms the walk has yet to come to.                                 *)
Position == IF calling THEN following ELSE alarm
ToVisit  == From(Position)

TimesOK ==
    /\ nticks \in Ticks /\ time \in [Alarms -> Ticks]
    /\ rollover \in [Alarms -> BOOLEAN]
    /\ \A a \in InList :
         IF a \in ToVisit
         THEN rollover[a] <=> (time[a] < nticks \/ nticks = 0)
         ELSE IF calling /\ a = alarm
         THEN time[a] = nticks /\ rollover[a] = FALSE
         ELSE time[a] # nticks /\ (rollover[a] <=> time[a] < nticks)

AlarmsInv == ListOK /\ WalkOK /\ TimesOK

-----------------------------------------------------------------------------
LEMMA LinkedOrNot ==
    ASSUME ListOK, NEW n \in Nodes, next[n] # Null, next[n] # n, next[n] # AlarmList
    PROVE  next[n] \in Alarms /\ Linked(next[n])
<1>. USE AlarmsAssumption DEF Nodes
<1>1. next[n] \in Alarms /\ previous[next[n]] = n
  BY DEF ListOK, ListTypes
<1>2. next[next[n]] # Null
  BY <1>1 DEF ListOK, ListTypes
<1>3. next[next[n]] # next[n]
  BY <1>1, <1>2 DEF ListOK, ListTypes
<1>. QED  BY <1>1, <1>2, <1>3 DEF Linked

LEMMA InsertKeepsList ==
    ASSUME ListOK, NEW a \in Alarms, ~Linked(a), Insert(a)
    PROVE  /\ ListOK'
           /\ InList' = InList \union {a}
           /\ \A b \in Alarms \ {a} : behind'[b] = behind[b] /\ next'[b] = next[b]
<1>. USE AlarmsAssumption DEF Nodes
<1>1. ListTypes'
  BY DEF ListOK, ListTypes, Insert
<1>2. next'[a] = next[AlarmList] /\ next'[AlarmList] = a
      /\ \A b \in Alarms \ {a} : next'[b] = next[b]
  BY DEF ListOK, ListTypes, Insert
<1>3. /\ next[AlarmList] \in Nodes /\ next[AlarmList] # a
      /\ next[AlarmList] # AlarmList => next[AlarmList] \in Alarms /\ Linked(next[AlarmList])
  BY LinkedOrNot DEF ListOK, ListTypes, Linked
<1>4. previous'[a] = AlarmList /\ previous'[next[AlarmList]] = a
      /\ \A n \in Nodes \ {a, next[AlarmList]} : previous'[n] = previous[n]
  BY <1>3 DEF ListOK, ListTypes, Insert
<1>5. behind'[a] = InList /\ \A b \in Alarms \ {a} : behind'[b] = behind[b]
  BY DEF ListOK, ListTypes, Insert, InList
<1>6. \A b \in Alarms \ {a} : Linked(b)' <=> Linked(b)
  BY <1>2 DEF Linked
<1>7. Linked(a)'
  BY <1>2, <1>3 DEF Linked, ListOK
<1>8. InList' = InList \union {a}
  BY <1>6, <1>7 DEF InList
<1>9. \A n \in Nodes : next'[n] = Null <=> previous'[n] = Null
  <2>1. next'[AlarmList] # Null /\ previous'[AlarmList] # Null
    BY <1>2, <1>3, <1>4 DEF ListOK, ListTypes
  <2>2. \A b \in Alarms \ {a} : next'[b] = Null <=> previous'[b] = Null
    BY <1>2, <1>3, <1>4 DEF ListOK, ListTypes, Linked
  <2>. QED  BY <1>2, <1>3, <1>4, <2>1, <2>2
<1>10. \A n \in Nodes : next'[n] # Null => /\ previous'[next'[n]] = n
                                           /\ next'[previous'[n]] = n
  <2>. SUFFICES ASSUME NEW n \in Nodes, next'[n] # Null
                PROVE  previous'[next'[n]] = n /\ next'[previous'[n]] = n
    OBVIOUS
  <2>1. CASE n = a
    BY <2>1, <1>2, <1>3, <1>4
  <2>2. CASE n = AlarmList
    <3>1. previous'[next'[AlarmList]] = AlarmList
      BY <1>2, <1>4
    <3>2. next'[previous'[AlarmList]] = AlarmList
      <4>1. CASE next[AlarmList] = AlarmList
        BY <4>1, <1>2, <1>4
      <4>2. CASE next[AlarmList] # AlarmList
        <5>1. previous'[AlarmList] = previous[AlarmList] /\ next[previous[AlarmList]] = AlarmList
          BY <4>2, <1>4 DEF ListOK, ListTypes
        <5>2. previous[AlarmList] # AlarmList /\ previous[AlarmList] # a
          BY <5>1, <4>2 DEF ListOK, ListTypes, Linked
        <5>3. previous[AlarmList] \in Nodes
          BY DEF ListOK, ListTypes
        <5>. QED  BY <5>1, <5>2, <5>3, <1>2
      <4>. QED  BY <4>1, <4>2
    <3>. QED  BY <2>2, <3>1, <3>2
  <2>3. CASE n \in Alarms \ {a}
    <3>1. next'[n] = next[n] /\ next[n] # Null /\ previous[next[n]] = n
          /\ next[previous[n]] = n /\ previous[n] \in Nodes /\ next[n] \in Nodes
      BY <2>3, <1>2 DEF ListOK, ListTypes
    <3>2. next[n] # a /\ next[n] # next[AlarmList]
      BY <2>3, <3>1 DEF ListOK, ListTypes, Linked
    <3>3. previous'[next'[n]] = n
      BY <3>1, <3>2, <1>4
    <3>4. CASE n = next[AlarmList]
      BY <3>3, <3>4, <1>2, <1>4
    <3>5. CASE n # next[AlarmList]
      <4>1. previous'[n] = previous[n] /\ previous[n] # AlarmList /\ previous[n] # a
        BY <3>1, <3>5, <2>3, <1>4 DEF ListOK, Linked
      <4>. QED  BY <4>1, <3>1, <3>3, <1>2
    <3>. QED  BY <3>4, <3>5
  <2>. QED  BY <2>1, <2>2, <2>3
<1>11. \A b \in Alarms : b \notin behind'[b] /\ behind'[b] \subseteq InList'
  BY <1>5, <1>8 DEF ListOK, InList
<1>12. \A b \in Alarms : Linked(b)' => behind'[b] = From(next[b])'
  <2>1. From(next[a])' = From(next[AlarmList])
    BY <1>2, <1>3, <1>5 DEF From
  <2>2. ASSUME NEW b \in Alarms \ {a}, Linked(b)'
        PROVE  behind'[b] = From(next[b])'
    <3>1. Linked(b) /\ next'[b] = next[b] /\ next[b] \in Nodes /\ next[b] # a
      BY <2>2, <1>2, <1>6 DEF ListOK, ListTypes, Linked
    <3>2. From(next[b])' = From(next[b])
      BY <3>1, <1>5 DEF From
    <3>. QED  BY <3>1, <3>2, <1>5, <2>2 DEF ListOK
  <2>. QED  BY <2>1, <2>2, <1>5 DEF ListOK
<1>13. InList' = From(next[AlarmList])'
  BY <1>2, <1>5, <1>8 DEF From
<1>. QED  BY <1>1, <1>2, <1>3, <1>5, <1>8, <1>9, <1>10, <1>11, <1>12, <1>13
             DEF ListOK
LEMMA RemoveKeepsList ==
    ASSUME ListOK, NEW a \in Alarms, next[a] # Null, Remove(a)
    PROVE  /\ ListOK'
           /\ InList' = InList \ {a}
           /\ \A b \in Alarms \ {a} : behind'[b] = behind[b] \ {a}
           /\ \A n \in Nodes \ {a} : next[n] # a => next'[n] = next[n]
<1>. USE AlarmsAssumption DEF Nodes
<1>0. PICK p \in Nodes, s \in Nodes : p = previous[a] /\ s = next[a]
  BY DEF ListOK, ListTypes
<1>1. ListTypes'
  BY DEF ListOK, ListTypes, Remove
<1>2. /\ next[a] = s
      /\ next[p] = a /\ previous[s] = a
      /\ \A n \in Nodes : next[n] = a => n = p
      /\ \A n \in Nodes : previous[n] = a => n = s
  BY <1>0 DEF ListOK, ListTypes
<1>3. next'[a] = a /\ previous'[a] = a
  BY DEF ListOK, ListTypes, Remove
<1>4. \A n \in Nodes \ {a} : next'[n] = IF n = p THEN s ELSE next[n]
  BY <1>0, <1>2 DEF ListOK, ListTypes, Remove
<1>5. \A n \in Nodes \ {a} : previous'[n] = IF n = s THEN p ELSE previous[n]
  BY <1>0, <1>2 DEF ListOK, ListTypes, Remove
<1>6. behind'[a] = {} /\ \A b \in Alarms \ {a} : behind'[b] = behind[b] \ {a}
  BY DEF ListOK, ListTypes, Remove
<1>7. \A n \in Nodes \ {a} : next[n] # a => next'[n] = next[n]
  BY <1>2, <1>4
<1>8. p = a <=> s = a
  BY <1>2
<1>9. p \in Alarms \ {a} => s # p /\ Linked(p)
  <2>. SUFFICES ASSUME p \in Alarms \ {a} PROVE s # p /\ Linked(p)
    OBVIOUS
  <2>1. Linked(p) /\ Linked(a)
    BY <1>2, <1>8 DEF Linked
  <2>2. behind[p] = {a} \union behind[a] /\ behind[a] = From(s)
    BY <2>1, <1>2 DEF ListOK, From
  <2>3. p \notin behind[p]
    BY DEF ListOK
  <2>. QED  BY <2>1, <2>2, <2>3, <1>2 DEF From
<1>10. \A b \in Alarms \ {a} : Linked(b)' <=> Linked(b)
  BY <1>2, <1>4, <1>9 DEF Linked
<1>11. ~Linked(a)'
  BY <1>3 DEF Linked
<1>12. InList' = InList \ {a}
  BY <1>10, <1>11 DEF InList
<1>13. \A n \in Nodes : next'[n] = Null <=> previous'[n] = Null
  BY <1>2, <1>3, <1>4, <1>5 DEF ListOK, ListTypes
<1>14. next'[AlarmList] # Null
  BY <1>2, <1>4 DEF ListOK
<1>15. \A n \in Nodes : next'[n] # Null => /\ previous'[next'[n]] = n
                                           /\ next'[previous'[n]] = n
  <2>. SUFFICES ASSUME NEW n \in Nodes \ {a}, next'[n] # Null
                PROVE  previous'[next'[n]] = n /\ next'[previous'[n]] = n
    BY <1>3
  <2>1. next[n] # Null
    BY <1>2, <1>4 DEF ListOK
  <2>2. /\ previous[next[n]] = n /\ next[previous[n]] = n
        /\ next[n] \in Nodes /\ previous[n] \in Nodes
    BY <2>1 DEF ListOK, ListTypes
  <2>3. previous'[next'[n]] = n
    BY <2>2, <1>2, <1>4, <1>5, <1>8
  <2>4. next'[previous'[n]] = n
    BY <2>2, <1>2, <1>4, <1>5, <1>8
  <2>. QED  BY <2>3, <2>4
<1>16. \A b \in Alarms : b \notin behind'[b] /\ behind'[b] \subseteq InList'
  BY <1>6, <1>12 DEF ListOK
<1>17. \A n \in Nodes \ {a} : From(n)' = From(n) \ {a}
  BY <1>6 DEF From
<1>18. a \in InList => From(a) \ {a} = From(s) /\ a \notin From(s)
  <2>. HAVE a \in InList
  <2>1. Linked(a)
    BY DEF InList
  <2>2. behind[a] = From(s) /\ a \notin behind[a]
    BY <2>1, <1>2 DEF ListOK
  <2>3. From(a) = {a} \union behind[a]
    BY DEF From
  <2>. QED  BY <2>2, <2>3
<1>19. s # a => From(s)' = From(s)
  <2>. HAVE s # a
  <2>1. a \in InList
    BY <1>2 DEF InList, Linked
  <2>. QED  BY <2>1, <1>2, <1>17, <1>18
<1>20. \A b \in Alarms : Linked(b)' => behind'[b] = From(next[b])'
  <2>. SUFFICES ASSUME NEW b \in Alarms \ {a}, Linked(b)'
                PROVE  behind'[b] = From(next[b])'
    BY <1>11
  <2>1. Linked(b) /\ behind[b] = From(next[b]) /\ next[b] \in Nodes
    BY <1>10 DEF ListOK, ListTypes, Linked
  <2>2. CASE next[b] = a
    <3>1. b = p /\ next'[b] = s /\ s # a
      BY <2>2, <1>2, <1>4, <1>8
    <3>2. behind'[b] = From(a) \ {a}
      BY <2>1, <2>2, <1>6
    <3>3. From(a) \ {a} = From(s)
      BY <3>1, <1>18, <1>2 DEF InList, Linked
    <3>4. From(next[b])' = From(s)'
      BY <3>1 DEF From
    <3>. QED  BY <3>1, <3>2, <3>3, <3>4, <1>19
  <2>3. CASE next[b] # a
    <3>1. next'[b] = next[b]
      BY <2>3, <1>7
    <3>2. From(next[b])' = From(next[b]) \ {a}
      BY <3>1, <2>1, <2>3, <1>17 DEF From
    <3>. QED  BY <3>2, <2>1, <1>6
  <2>. QED  BY <2>2, <2>3
<1>21. InList' = From(next[AlarmList])'
  <2>1. InList = From(next[AlarmList]) /\ next[AlarmList] \in Nodes
    BY DEF ListOK, ListTypes
  <2>2. CASE next[AlarmList] = a
    <3>1. AlarmList = p /\ next'[AlarmList] = s /\ s # a /\ a \in InList
      BY <2>1, <2>2, <1>2, <1>4, <1>8 DEF InList, Linked
    <3>2. From(next[AlarmList])' = From(s)'
      BY <3>1 DEF From
    <3>. QED  BY <3>1, <3>2, <2>1, <2>2, <1>12, <1>18, <1>19
  <2>3. CASE next[AlarmList] # a
    <3>1. next'[AlarmList] = next[AlarmList]
      BY <2>3, <1>7
    <3>2. From(next[AlarmList])' = From(next[AlarmList]) \ {a}
      BY <3>1, <2>1, <2>3, <1>17 DEF From
    <3>. QED  BY <3>2, <2>1, <1>12
  <2>. QED  BY <2>2, <2>3
<1>. QED  BY <1>1, <1>6, <1>7, <1>12, <1>13, <1>14, <1>15, <1>16, <1>20, <1>21
             DEF ListOK
-----------------------------------------------------------------------------
LEMMA AlarmsInitOK == AlarmsInit => AlarmsInv
<1>. USE AlarmsAssumption DEF Nodes
<1>. SUFFICES ASSUME AlarmsInit PROVE AlarmsInv
  OBVIOUS
<1>1. InList = {}
  BY DEF AlarmsInit, InList, Linked
<1>2. ListOK
  BY <1>1 DEF AlarmsInit, ListOK, ListTypes, Linked, From
<1>3. WalkOK
  BY DEF AlarmsInit, WalkOK
<1>4. TimesOK
  BY <1>1 DEF AlarmsInit, TimesOK, Ticks
<1>. QED  BY <1>2, <1>3, <1>4 DEF AlarmsInv

(* Which alarms wait to be visited, when one is taken out of the list.     *)
LEMMA FromMember ==
    ASSUME ListOK, NEW n \in Nodes, n # AlarmList => Linked(n)
    PROVE  From(n) \subseteq InList
BY AlarmsAssumption DEF Nodes, From, InList, ListOK

LEMMA Behind ==
    ASSUME ListOK, NEW a \in Alarms, Linked(a)
    PROVE  /\ next[a] \in Nodes /\ next[a] # a
           /\ next[a] # AlarmList => Linked(next[a])
           /\ From(a) = {a} \union From(next[a])
           /\ a \notin From(next[a])
<1>. USE AlarmsAssumption DEF Nodes
<1>1. next[a] \in Nodes /\ next[a] # a /\ next[a] # Null
  BY DEF Linked, ListOK, ListTypes
<1>2. next[a] # AlarmList => Linked(next[a])
  BY <1>1, LinkedOrNot
<1>3. behind[a] = From(next[a]) /\ a \notin behind[a]
  BY DEF ListOK
<1>4. From(a) = {a} \union behind[a]
  BY DEF From
<1>. QED  BY <1>1, <1>2, <1>3, <1>4

LEMMA StartOK ==
    ASSUME AlarmsInv, NEW a \in Alarms, NEW delay \in Delays,
           MayStart(a, delay), Start(a, delay)
    PROVE  AlarmsInv'
<1>. USE AlarmsAssumption DEF Nodes
<1>0. ListOK /\ WalkOK /\ TimesOK /\ ~Linked(a) /\ Insert(a) /\ a # alarm
      /\ delay + 2 <= Span
  BY DEF AlarmsInv, Start, MayStart
<1>1. /\ ListOK' /\ InList' = InList \union {a}
      /\ \A b \in Alarms \ {a} : behind'[b] = behind[b] /\ next'[b] = next[b]
  BY <1>0, InsertKeepsList
<1>2. UNCHANGED <<nticks, alarm, following, calling>>
  BY DEF Start, walk
<1>3. a # following
  BY <1>0 DEF WalkOK
<1>4. WalkOK'
  <2>1. \A n \in Nodes \ {a} : next[n] # Null => next'[n] # Null
    BY <1>1 DEF ListOK
  <2>2. \A b \in Alarms \ {a} : Linked(b)' <=> Linked(b)
    BY <1>1 DEF Linked
  <2>. QED  BY <2>1, <2>2, <1>0, <1>1, <1>2, <1>3 DEF WalkOK, Linked
<1>5. ToVisit' = ToVisit
  <2>1. Position \in Nodes /\ Position # a /\ Position' = Position
    BY <1>0, <1>2, <1>3 DEF WalkOK, Position
  <2>. QED  BY <2>1, <1>1 DEF ToVisit, From
<1>6. a \notin ToVisit
  <2>1. Position \in Nodes /\ (Position # AlarmList => Linked(Position))
    BY <1>0 DEF WalkOK, Position
  <2>2. ToVisit \subseteq InList
    BY <2>1, <1>0, FromMember DEF ToVisit
  <2>. QED  BY <2>2, <1>0 DEF InList
<1>7. TimesOK'
  <2>. DEFINE t == Wrapped(delay + nticks + 1)
  <2>1. nticks \in Ticks /\ delay \in Nat /\ delay + 2 <= Span /\ Span \in Nat
    BY <1>0 DEF TimesOK
  <2>2. t \in Ticks /\ t # nticks
    BY <2>1 DEF Wrapped, Ticks
  <2>. HIDE DEF t
  <2>3. time' = [time EXCEPT ![a] = t] /\ rollover' = [rollover EXCEPT ![a] = t < nticks]
    BY DEF Start, t
  <2>4. time'[a] = t /\ (rollover'[a] <=> t < nticks)
        /\ \A b \in Alarms \ {a} : time'[b] = time[b] /\ rollover'[b] = rollover[b]
    BY <2>3, <1>0 DEF TimesOK
  <2>5. time' \in [Alarms -> Ticks] /\ rollover' \in [Alarms -> BOOLEAN]
    BY <2>2, <2>3, <1>0 DEF TimesOK
  <2>6. ASSUME NEW b \in InList'
        PROVE  IF b \in ToVisit'
               THEN rollover'[b] <=> (time'[b] < nticks' \/ nticks' = 0)
               ELSE IF calling' /\ b = alarm'
               THEN time'[b] = nticks' /\ rollover'[b] = FALSE
               ELSE time'[b] # nticks' /\ (rollover'[b] <=> time'[b] < nticks')
    <3>1. CASE b = a
      BY <3>1, <1>0, <1>2, <1>5, <1>6, <2>2, <2>4
    <3>2. CASE b # a
      BY <2>6, <3>2, <1>0, <1>1, <1>2, <1>5, <2>4 DEF TimesOK, InList
    <3>. QED  BY <3>1, <3>2
  <2>. QED  BY <2>1, <2>5, <2>6, <1>2 DEF TimesOK
<1>. QED  BY <1>1, <1>4, <1>7 DEF AlarmsInv
(* Removing an alarm other than the one the walk goes to next.             *)
LEMMA RemoveFromVisits ==
    ASSUME ListOK, NEW n \in Nodes, n # AlarmList => Linked(n),
           NEW a \in Alarms, a # n, next[a] # Null, Remove(a)
    PROVE  /\ From(n)' = From(n) \ {a}
           /\ n # AlarmList => Linked(n)'
<1>. USE AlarmsAssumption DEF Nodes
<1>1. /\ InList' = InList \ {a}
      /\ \A b \in Alarms \ {a} : behind'[b] = behind[b] \ {a}
  BY RemoveKeepsList
<1>. QED  BY <1>1 DEF From, InList

LEMMA StopOK ==
    ASSUME AlarmsInv, NEW a \in Alarms, MayStop(a), Stop(a)
    PROVE  AlarmsInv'
<1>. USE AlarmsAssumption DEF Nodes
<1>0. /\ ListOK /\ WalkOK /\ TimesOK
      /\ next[a] # Null /\ Remove(a) /\ a # following /\ Program
  BY DEF AlarmsInv, Stop, MayStop
<1>1. /\ ListOK' /\ InList' = InList \ {a}
      /\ \A n \in Nodes \ {a} : next[n] # a => next'[n] = next[n]
  BY <1>0, RemoveKeepsList
<1>2. UNCHANGED <<nticks, time, rollover, alarm, following, calling>>
  BY DEF Stop, walk
<1>3. /\ Position \in Nodes /\ Position # a /\ Position' = Position
      /\ Position # AlarmList => Linked(Position)
  BY <1>0, <1>2 DEF WalkOK, Position, Program
<1>4. ToVisit' = ToVisit \ {a} /\ (Position # AlarmList => Linked(Position)')
  BY <1>0, <1>3, RemoveFromVisits DEF ToVisit
<1>5. WalkOK'
  <2>0. \A b \in Alarms : Linked(b)' => Linked(b) /\ b # a
    BY <1>1 DEF InList
  <2>1. ASSUME calling, Linked(alarm)' PROVE next'[alarm] = following
    <3>1. alarm \in Alarms /\ Linked(alarm)' /\ alarm' = alarm
      BY <2>1, <1>0, <1>2 DEF WalkOK
    <3>2. alarm # a /\ Linked(alarm)
      BY <2>0, <3>1, <1>2 DEF Linked
    <3>3. next[alarm] = following
      BY <2>1, <3>2, <1>0 DEF WalkOK
    <3>. QED  BY <3>1, <3>2, <3>3, <1>0, <1>1
  <2>2. next'[alarm] # Null
    BY <1>0, <1>1 DEF WalkOK, ListOK, ListTypes, Remove
  <2>3. following # AlarmList => Linked(following)'
    BY <1>0, <1>2, <1>3, <1>4 DEF WalkOK, Position, Program
  <2>4. alarm = AlarmList \/ calling
    BY <1>0 DEF Program
  <2>. QED  BY <2>1, <2>2, <2>3, <2>4, <1>0, <1>2 DEF WalkOK, Linked
<1>6. TimesOK'
  BY <1>0, <1>1, <1>2, <1>4 DEF TimesOK, InList
<1>. QED  BY <1>1, <1>5, <1>6 DEF AlarmsInv

LEMMA TickOK == AlarmsInv /\ TickBegins => AlarmsInv'
<1>. USE AlarmsAssumption DEF Nodes
<1>. SUFFICES ASSUME AlarmsInv, TickBegins PROVE AlarmsInv'
  OBVIOUS
<1>0. /\ ListOK /\ WalkOK /\ TimesOK /\ alarm = AlarmList /\ ~calling
      /\ following = AlarmList /\ nticks' = Wrapped(nticks + 1)
      /\ alarm' = next[AlarmList]
      /\ UNCHANGED <<links, time, rollover, following, calling>>
  BY DEF AlarmsInv, TickBegins, WalkOK
<1>1. ListOK' /\ InList' = InList
  BY <1>0 DEF ListOK, ListTypes, Linked, InList, From, links
<1>2. /\ next[AlarmList] \in Nodes
      /\ next[AlarmList] # AlarmList => Linked(next[AlarmList])
  BY <1>0, LinkedOrNot DEF ListOK, ListTypes
<1>3. WalkOK'
  BY <1>0, <1>2 DEF WalkOK, Linked, links
<1>4. ToVisit' = InList /\ ToVisit = {}
  BY <1>0 DEF ToVisit, Position, From, links, ListOK
<1>5. nticks' \in Ticks /\ nticks \in Ticks
      /\ nticks' = IF nticks + 1 = Span THEN 0 ELSE nticks + 1
  BY <1>0 DEF TimesOK, Ticks, Wrapped
<1>6. \A a \in InList : /\ time[a] \in Ticks /\ time[a] # nticks
                        /\ rollover[a] <=> time[a] < nticks
  BY <1>0, <1>4 DEF TimesOK, InList
<1>7. \A a \in InList : rollover[a] <=> (time[a] < nticks' \/ nticks' = 0)
  BY <1>5, <1>6 DEF Ticks
<1>8. TimesOK'
  BY <1>0, <1>1, <1>4, <1>5, <1>7 DEF TimesOK
<1>. QED  BY <1>1, <1>3, <1>8 DEF AlarmsInv

(* The alarm the walk has come to is called if and only if it is due.      *)
LEMMA ExpiredIsDue ==
    ASSUME AlarmsInv, alarm # AlarmList, ~calling
    PROVE  /\ alarm \in InList
           /\ Expired(alarm) => time[alarm] = nticks /\ ~StillOver(alarm)
           /\ ~Expired(alarm) => /\ time[alarm] # nticks
                                 /\ StillOver(alarm) <=> time[alarm] < nticks
<1>1. alarm \in InList
  BY AlarmsAssumption DEF AlarmsInv, WalkOK, InList, Nodes
<1>2. alarm \in ToVisit
  BY DEF ToVisit, Position, From
<1>3. /\ nticks \in Ticks /\ time[alarm] \in Ticks /\ rollover[alarm] \in BOOLEAN
      /\ rollover[alarm] <=> (time[alarm] < nticks \/ nticks = 0)
  BY <1>1, <1>2 DEF AlarmsInv, TimesOK, InList
<1>. QED  BY <1>1, <1>3 DEF Expired, StillOver, Ticks

LEMMA VisitOK == AlarmsInv /\ Visit => AlarmsInv'
<1>. USE AlarmsAssumption DEF Nodes
<1>. SUFFICES ASSUME AlarmsInv, Visit PROVE AlarmsInv'
  OBVIOUS
<1>0. /\ ListOK /\ WalkOK /\ TimesOK /\ alarm # AlarmList /\ ~calling
      /\ UNCHANGED <<nticks, links, time>>
      /\ rollover' = [rollover EXCEPT ![alarm] = StillOver(alarm)]
      /\ alarm \in Alarms /\ Linked(alarm)
  BY DEF AlarmsInv, Visit, WalkOK
<1>1. ListOK' /\ InList' = InList
  BY <1>0 DEF ListOK, ListTypes, Linked, InList, From, links
<1>2. /\ next[alarm] \in Nodes /\ next[alarm] # alarm
      /\ next[alarm] # AlarmList => Linked(next[alarm])
      /\ From(alarm) = {alarm} \union From(next[alarm])
      /\ alarm \notin From(next[alarm])
  BY <1>0, Behind
<1>3. /\ alarm \in InList
      /\ Expired(alarm) => time[alarm] = nticks /\ ~StillOver(alarm)
      /\ ~Expired(alarm) => /\ time[alarm] # nticks
                            /\ StillOver(alarm) <=> time[alarm] < nticks
  BY <1>0, ExpiredIsDue
<1>4. StillOver(alarm) \in BOOLEAN
  BY <1>0 DEF StillOver, TimesOK
<1>5. /\ rollover' \in [Alarms -> BOOLEAN]
      /\ rollover'[alarm] = StillOver(alarm)
      /\ \A a \in Alarms \ {alarm} : rollover'[a] = rollover[a]
  BY <1>0, <1>4 DEF TimesOK
<1>6. WalkOK' /\ ToVisit' = From(next[alarm]) /\ ToVisit = From(alarm)
      /\ (IF Expired(alarm) THEN calling' /\ alarm' = alarm
          ELSE ~calling' /\ alarm' = next[alarm])
  <2>1. CASE Expired(alarm)
    <3>1. calling' = TRUE /\ following' = next[alarm] /\ alarm' = alarm
      BY <2>1 DEF Visit
    <3>. QED  BY <3>1, <2>1, <1>0, <1>2
              DEF WalkOK, Linked, links, ToVisit, Position, From
  <2>2. CASE ~Expired(alarm)
    <3>1. calling' = calling /\ following' = following /\ alarm' = next[alarm]
      BY <2>2 DEF Visit
    <3>2. next[next[alarm]] # Null
      BY <1>0, <1>2 DEF ListOK, Linked
    <3>. QED  BY <3>1, <3>2, <2>2, <1>0, <1>2
              DEF WalkOK, Linked, links, ToVisit, Position, From
  <2>. QED  BY <2>1, <2>2
<1>7. ASSUME NEW a \in InList'
      PROVE  IF a \in ToVisit'
             THEN rollover'[a] <=> (time'[a] < nticks' \/ nticks' = 0)
             ELSE IF calling' /\ a = alarm'
             THEN time'[a] = nticks' /\ rollover'[a] = FALSE
             ELSE time'[a] # nticks' /\ (rollover'[a] <=> time'[a] < nticks')
  <2>0. a \in InList /\ a \in Alarms
    BY <1>1 DEF InList
  <2>1. CASE a = alarm
    BY <2>1, <1>0, <1>2, <1>3, <1>4, <1>5, <1>6
  <2>2. CASE a # alarm
    <3>1. rollover'[a] = rollover[a] /\ time'[a] = time[a]
      BY <2>0, <2>2, <1>0, <1>5
    <3>2. a \in ToVisit' <=> a \in ToVisit
      BY <2>2, <1>2, <1>6
    <3>3. a \in From(next[alarm]) \/ a # alarm'  \/ ~calling'
      BY <2>2, <1>6
    <3>. QED  BY <2>0, <2>2, <3>1, <3>2, <1>0, <1>6 DEF TimesOK
  <2>. QED  BY <2>1, <2>2
<1>8. TimesOK'
  BY <1>0, <1>5, <1>7 DEF TimesOK
<1>. QED  BY <1>1, <1>6, <1>8 DEF AlarmsInv

LEMMA ReturnOK ==
    ASSUME AlarmsInv, NEW period \in Periods, Return(period)
    PROVE  AlarmsInv'
<1>. USE AlarmsAssumption DEF Nodes
<1>0. /\ ListOK /\ WalkOK /\ TimesOK /\ calling /\ alarm # AlarmList
      /\ alarm \in Alarms /\ alarm # following
      /\ alarm' = following /\ following' = AlarmList /\ calling' = FALSE
      /\ UNCHANGED nticks
  BY DEF AlarmsInv, Return, WalkOK
<1>f. PICK f \in Nodes : f = following
  BY <1>0 DEF WalkOK
<1>a. PICK a \in Alarms : a = alarm
  BY <1>0
<1>1. /\ f # AlarmList => Linked(f)
      /\ ToVisit = From(f) /\ ToVisit' = From(f)' /\ a # f
  BY <1>0, <1>f, <1>a DEF WalkOK, ToVisit, Position, From
<1>2. a \notin From(f)
  <2>1. CASE Linked(a)
    BY <2>1, <1>0, <1>f, <1>a, Behind DEF WalkOK
  <2>2. CASE ~Linked(a)
    BY <2>2, <1>0, <1>1, FromMember DEF InList
  <2>. QED  BY <2>1, <2>2
<1>3. CASE period = 0
  <2>1. Remove(a) /\ UNCHANGED <<time, rollover>> /\ next[a] # Null
    BY <1>0, <1>3, <1>a DEF Return, WalkOK
  <2>2. ListOK' /\ InList' = InList \ {a}
    BY <1>0, <2>1, RemoveKeepsList
  <2>3. ToVisit' = ToVisit /\ (f # AlarmList => Linked(f)')
    <3>1. From(f)' = From(f) \ {a} /\ (f # AlarmList => Linked(f)')
      <4>1. ListOK /\ (f # AlarmList => Linked(f)) /\ a # f /\ next[a] # Null /\ Remove(a)
        BY <1>0, <1>1, <2>1
      <4>. QED  BY ONLY <4>1, f \in Nodes, a \in Alarms, RemoveFromVisits
    <3>2. From(f) \ {a} = From(f)
      BY <1>2
    <3>. QED  BY ONLY <3>1, <3>2, <1>1
  <2>4. next'[f] # Null
    BY <1>1, <2>2, <2>3 DEF Linked, ListOK
  <2>5. WalkOK'
    BY <1>0, <1>f, <1>1, <2>3, <2>4 DEF WalkOK, Linked
  <2>6. TimesOK'
    BY <1>0, <1>a, <1>1, <1>2, <2>1, <2>2, <2>3 DEF TimesOK, InList
  <2>. QED  BY <2>2, <2>5, <2>6 DEF AlarmsInv
<1>4. CASE period # 0
  <2>. DEFINE t == Wrapped(time[a] + period)
              r == t < nticks \/ rollover[a]
  <2>1. UNCHANGED links /\ time' = [time EXCEPT ![a] = t]
        /\ rollover' = [rollover EXCEPT ![a] = r]
    BY <1>4, <1>a DEF Return, Period
  <2>2. ListOK' /\ InList' = InList /\ ToVisit' = ToVisit
    BY <1>0, <1>1, <2>1 DEF ListOK, ListTypes, Linked, InList, From, links
  <2>3. WalkOK'
    BY <1>0, <1>f, <1>1, <2>1 DEF WalkOK, Linked, links, ListOK
  <2>4. /\ nticks \in Ticks /\ time[a] \in Ticks
        /\ period \in Nat /\ period < Span /\ Span \in Nat
        /\ Linked(a) => time[a] = nticks /\ rollover[a] = FALSE
    BY <1>0, <1>a, <1>1, <1>2 DEF TimesOK, InList
  <2>5. t \in Ticks
    BY <2>4 DEF Ticks, Wrapped
  <2>7. Linked(a) => t # nticks /\ (r <=> t < nticks)
    BY <2>4, <1>4 DEF Ticks, Wrapped
  <2>6. r \in BOOLEAN
    BY Zenon
  <2>. HIDE DEF t, r
  <2>8. /\ time' \in [Alarms -> Ticks] /\ rollover' \in [Alarms -> BOOLEAN]
        /\ time'[a] = t /\ rollover'[a] = r
        /\ \A b \in Alarms \ {a} : time'[b] = time[b] /\ rollover'[b] = rollover[b]
    <3>1. time \in [Alarms -> Ticks] /\ rollover \in [Alarms -> BOOLEAN]
      BY <1>0 DEF TimesOK
    <3>2. time' \in [Alarms -> Ticks] /\ time'[a] = t
          /\ \A b \in Alarms \ {a} : time'[b] = time[b]
      BY <3>1, <2>1, <2>5
    <3>3. rollover' \in [Alarms -> BOOLEAN] /\ rollover'[a] = r
          /\ \A b \in Alarms \ {a} : rollover'[b] = rollover[b]
      BY <3>1, <2>1, <2>6
    <3>. QED  BY <3>2, <3>3
  <2>9. ASSUME NEW b \in InList'
        PROVE  IF b \in ToVisit'
               THEN rollover'[b] <=> (time'[b] < nticks' \/ nticks' = 0)
               ELSE IF calling' /\ b = alarm'
               THEN time'[b] = nticks' /\ rollover'[b] = FALSE
               ELSE time'[b] # nticks' /\ (rollover'[b] <=> time'[b] < nticks')
    <3>1. CASE b = a
      BY <3>1, <2>2, <2>7, <2>8, <1>0, <1>1, <1>2 DEF InList
    <3>2. CASE b # a
      BY <2>9, <3>2, <2>2, <2>8, <1>0, <1>a DEF TimesOK, InList
    <3>. QED  BY <3>1, <3>2
  <2>10. TimesOK'
    BY <1>0, <2>8, <2>9 DEF TimesOK
  <2>. QED  BY <2>2, <2>3, <2>10 DEF AlarmsInv
<1>. QED  BY <1>3, <1>4
LEMMA AlarmsInvariant == CarefulAlarms => []AlarmsInv
<1>1. AlarmsInv /\ [CarefulNext]_alarmVars => AlarmsInv'
  <2>. SUFFICES ASSUME AlarmsInv, [CarefulNext]_alarmVars PROVE AlarmsInv'
    OBVIOUS
  <2>1. CASE TickBegins
    BY <2>1, TickOK
  <2>2. CASE Visit
    BY <2>2, VisitOK
  <2>3. ASSUME NEW period \in Periods, Return(period) PROVE AlarmsInv'
    BY <2>3, ReturnOK
  <2>4. ASSUME NEW a \in Alarms, MayStop(a), Stop(a) PROVE AlarmsInv'
    BY <2>4, StopOK
  <2>5. ASSUME NEW a \in Alarms, NEW delay \in Delays,
               MayStart(a, delay), Start(a, delay)
        PROVE  AlarmsInv'
    BY <2>5, StartOK
  <2>6. CASE UNCHANGED alarmVars
    BY <2>6 DEF alarmVars, AlarmsInv, ListOK, ListTypes, WalkOK, TimesOK, InList,
                Linked, ToVisit, Position, From
  <2>. QED  BY <2>1, <2>2, <2>3, <2>4, <2>5, <2>6 DEF CarefulNext, Walks
<1>. QED  BY AlarmsInitOK, <1>1, PTL DEF CarefulAlarms

-----------------------------------------------------------------------------
(* How the ticks left change with each step.                               *)
LEMMA LeftFacts ==
    ASSUME AlarmsInv, NEW a \in Alarms
    PROVE  /\ ~Linked(a) => Left[a] = Null
           /\ Linked(a) => Left[a] = Ahead(time[a]) /\ Left[a] \in Ticks
           /\ Left[a] = Null <=> ~Linked(a)
<1>. USE AlarmsAssumption
<1>1. nticks \in Ticks /\ time[a] \in Ticks
  BY DEF AlarmsInv, TimesOK
<1>2. Ahead(time[a]) \in Ticks
  BY <1>1 DEF Ahead, Ticks
<1>3. Ahead(time[a]) # Null
  BY <1>2 DEF Ticks
<1>. QED  BY <1>2, <1>3 DEF Left

LEMMA TickRefines == AlarmsInv /\ TickBegins => Clock!Tick
<1>. USE AlarmsAssumption DEF Nodes
<1>. SUFFICES ASSUME AlarmsInv, TickBegins PROVE Clock!Tick
  OBVIOUS
<1>0. /\ alarm = AlarmList /\ ~calling /\ ~calling'
      /\ nticks' = Wrapped(nticks + 1) /\ UNCHANGED <<next, time>>
  BY DEF AlarmsInv, TickBegins, WalkOK, links
<1>1. nticks \in Ticks /\ nticks' = IF nticks + 1 = Span THEN 0 ELSE nticks + 1
  BY <1>0 DEF AlarmsInv, TimesOK, Ticks, Wrapped
<1>2. ASSUME NEW a \in Alarms, Linked(a)
      PROVE  Left[a] # 0 /\ Left'[a] = Left[a] - 1
  <2>1. a \in InList /\ a \notin ToVisit
    BY <1>0, <1>2 DEF InList, ToVisit, Position, From
  <2>2. time[a] \in Ticks /\ time[a] # nticks
    BY <2>1, <1>0 DEF AlarmsInv, TimesOK
  <2>3. Left[a] = Ahead(time[a])
    BY <1>2 DEF Left
  <2>4. Left'[a] = IF time[a] >= nticks' THEN time[a] - nticks'
                   ELSE time[a] + Span - nticks'
    BY <1>0, <1>2 DEF Left, Linked, Ahead
  <2>. QED  BY <2>2, <2>3, <2>4, <1>1 DEF Ahead, Ticks
<1>3. ASSUME NEW a \in Alarms, ~Linked(a)
      PROVE  Left[a] = Null /\ Left'[a] = Null
  BY <1>0, <1>3 DEF Left, Linked
<1>4. \A a \in Alarms : Left[a] # 0
  BY <1>2, <1>3
<1>5. Left' = [a \in Alarms |-> IF Left[a] = Null THEN Null ELSE Left[a] - 1]
  <2>1. \A a \in Alarms : Left'[a] = IF Left[a] = Null THEN Null ELSE Left[a] - 1
    BY <1>2, <1>3, LeftFacts
  <2>. QED  BY <2>1 DEF Left
<1>. QED  BY <1>0, <1>4, <1>5 DEF Clock!Tick
LEMMA StartRefines ==
    ASSUME AlarmsInv, NEW a \in Alarms, NEW delay \in Delays,
           MayStart(a, delay), Start(a, delay)
    PROVE  Clock!Start(a, delay)
<1>. USE AlarmsAssumption DEF Nodes
<1>. DEFINE t == Wrapped(delay + nticks + 1)
<1>0. /\ ~Linked(a) /\ a # alarm /\ Insert(a)
      /\ UNCHANGED <<nticks, alarm, following, calling>>
      /\ time' = [time EXCEPT ![a] = t] /\ delay + 2 <= Span
  BY DEF Start, MayStart, walk
<1>1. /\ InList' = InList \union {a}
  BY <1>0, InsertKeepsList DEF AlarmsInv
<1>2. nticks \in Ticks /\ delay \in Nat /\ delay + 2 <= Span /\ Span \in Nat
      /\ time \in [Alarms -> Ticks]
  BY <1>0 DEF AlarmsInv, TimesOK
<1>3. /\ delay + nticks + 1 < Span => t = delay + nticks + 1
      /\ delay + nticks + 1 >= Span => t = delay + nticks + 1 - Span
  BY <1>2 DEF Wrapped, Ticks
<1>. HIDE DEF t
<1>4. Left'[a] = delay + 1
  <2>1. Linked(a)' /\ time'[a] = t
    BY <1>0, <1>1, <1>2 DEF InList
  <2>2. Left'[a] = Ahead(t)
    BY <1>0, <2>1 DEF Left, Ahead
  <2>. QED  BY <2>2, <1>2, <1>3 DEF Ahead, Ticks
<1>5. ASSUME NEW b \in Alarms, b # a PROVE Left'[b] = Left[b]
  <2>1. Linked(b)' <=> Linked(b)
    BY <1>1, <1>5 DEF InList
  <2>2. time'[b] = time[b]
    BY <1>0, <1>2, <1>5
  <2>. QED  BY <2>1, <2>2, <1>0 DEF Left, Ahead
<1>6. Left' = [Left EXCEPT ![a] = delay + 1]
  BY <1>4, <1>5 DEF Left
<1>7. Left[a] = Null /\ a # AlarmList
  BY <1>0 DEF Left
<1>. QED  BY <1>0, <1>6, <1>7 DEF Clock!Start

LEMMA StopRefines ==
    ASSUME AlarmsInv, NEW a \in Alarms, Stop(a)
    PROVE  Clock!Stop(a)
<1>. USE AlarmsAssumption DEF Nodes
<1>0. /\ next[a] # Null /\ Remove(a)
      /\ UNCHANGED <<nticks, time, alarm, following, calling>>
  BY DEF Stop, walk
<1>1. InList' = InList \ {a}
  BY <1>0, RemoveKeepsList DEF AlarmsInv
<1>2. Left'[a] = Null
  BY <1>1 DEF Left, InList
<1>3. ASSUME NEW b \in Alarms, b # a PROVE Left'[b] = Left[b]
  <2>1. Linked(b)' <=> Linked(b)
    BY <1>1, <1>3 DEF InList
  <2>. QED  BY <2>1, <1>0 DEF Left, Ahead
<1>4. Left' = [Left EXCEPT ![a] = Null]
  BY <1>2, <1>3 DEF Left
<1>. QED  BY <1>0, <1>4 DEF Clock!Stop

LEMMA VisitRefines ==
    ASSUME AlarmsInv, Visit
    PROVE  \/ UNCHANGED Clock!vars
           \/ \E a \in Alarms : Clock!Ring(a)
<1>. USE AlarmsAssumption DEF Nodes
<1>0. /\ alarm # AlarmList /\ ~calling /\ UNCHANGED <<nticks, next, time>>
      /\ alarm \in Alarms
  BY DEF AlarmsInv, Visit, links, WalkOK
<1>1. Left' = Left
  BY <1>0 DEF Left, Linked, Ahead
<1>2. CASE Expired(alarm)
  <2>1. calling' = TRUE /\ alarm' = alarm
    BY <1>2 DEF Visit
  <2>2. alarm \in InList /\ time[alarm] = nticks
    BY <1>0, <1>2, ExpiredIsDue
  <2>3. nticks \in Nat
    BY DEF AlarmsInv, TimesOK, Ticks
  <2>4. Left[alarm] = 0
    BY <2>2, <2>3 DEF Left, Ahead, InList
  <2>5. Clock!Ring(alarm)
    BY <2>1, <2>4, <1>0, <1>1 DEF Clock!Ring
  <2>. QED  BY <2>5, <1>0
<1>3. CASE ~Expired(alarm)
  <2>1. calling' = calling
    BY <1>3 DEF Visit
  <2>. QED  BY <2>1, <1>0, <1>1 DEF Clock!vars
<1>. QED  BY <1>2, <1>3

LEMMA ReturnRefines ==
    ASSUME AlarmsInv, NEW period \in Periods, Return(period)
    PROVE  \E a \in Alarms : Clock!Return(a, period)
<1>. USE AlarmsAssumption DEF Nodes
<1>0. /\ calling /\ alarm # AlarmList /\ calling' = FALSE /\ UNCHANGED nticks
      /\ nticks \in Ticks /\ time \in [Alarms -> Ticks] /\ next[alarm] # Null
      /\ ListOK
  BY DEF AlarmsInv, Return, WalkOK, TimesOK
<1>1. PICK a \in Alarms : a = alarm
  BY <1>0 DEF AlarmsInv, WalkOK
<1>2. Linked(a) => time[a] = nticks
  BY <1>0, <1>1 DEF AlarmsInv, TimesOK, WalkOK, InList, ToVisit, Position, From,
                    ListOK
<1>3. CASE period = 0
  <2>1. Remove(a) /\ UNCHANGED time
    BY <1>1, <1>3 DEF Return
  <2>2. InList' = InList \ {a}
    BY <2>1, <1>0, <1>1, RemoveKeepsList
  <2>3. Left'[a] = Null
    BY <2>2 DEF Left, InList
  <2>4. ASSUME NEW b \in Alarms, b # a PROVE Left'[b] = Left[b]
    <3>1. Linked(b)' <=> Linked(b)
      BY <2>2, <2>4 DEF InList
    <3>. QED  BY <3>1, <2>1, <1>0 DEF Left, Ahead
  <2>5. Left' = [Left EXCEPT ![a] = Null]
    BY <2>3, <2>4 DEF Left
  <2>6. Clock!Return(a, period)
    BY <2>5, <1>0, <1>1, <1>3 DEF Clock!Return
  <2>. QED  BY <2>6
<1>4. CASE period # 0
  <2>1. UNCHANGED next /\ time' = [time EXCEPT ![a] = Wrapped(time[a] + period)]
    BY <1>1, <1>4 DEF Return, Period, links
  <2>2. /\ \A b \in Alarms : Linked(b)' <=> Linked(b)
        /\ \A b \in Alarms \ {a} : time'[b] = time[b]
        /\ time'[a] = Wrapped(time[a] + period)
    BY <2>1, <1>0 DEF Linked
  <2>3. Linked(a) => Left'[a] = period
    <3>1. Linked(a) => Left'[a] = Ahead(Wrapped(nticks + period))
      BY <2>2, <1>0, <1>2 DEF Left, Ahead
    <3>2. period \in Nat /\ period < Span /\ nticks \in Ticks
      BY <1>0
    <3>. QED  BY <3>1, <3>2, <1>4 DEF Ahead, Wrapped, Ticks
  <2>4. ~Linked(a) => Left'[a] = Null
    BY <2>2 DEF Left
  <2>5. Left[a] = Null <=> ~Linked(a)
    BY LeftFacts
  <2>6. \A b \in Alarms \ {a} : Left'[b] = Left[b]
    BY <2>2, <1>0 DEF Left, Ahead
  <2>7. Left' = [Left EXCEPT ![a] = IF Left[a] = Null \/ period = 0 THEN Null
                                    ELSE period]
    BY <2>3, <2>4, <2>5, <2>6, <1>4 DEF Left
  <2>8. Clock!Return(a, period)
    BY <2>7, <1>0, <1>1 DEF Clock!Return
  <2>. QED  BY <2>8
<1>. QED  BY <1>3, <1>4

(* Whatever the width of the tick counter, each alarm of a careful program *)
(* rings in the tick it was set for, and no tick begins while one that is  *)
(* due has not rung (alt_tick.c:87-142, alt_alarm_start.c:64-112).         *)
THEOREM OnTime == CarefulAlarms => RingsOnTime
<1>1. AlarmsInit => Clock!Init
  BY AlarmsAssumption DEF AlarmsInit, Clock!Init, Left, Linked, Nodes
<1>2. AlarmsInv /\ [CarefulNext]_alarmVars => [Clock!Next]_(Clock!vars)
  <2>. SUFFICES ASSUME AlarmsInv, [CarefulNext]_alarmVars
                PROVE  Clock!Next \/ UNCHANGED Clock!vars
    OBVIOUS
  <2>1. CASE TickBegins
    BY <2>1, TickRefines DEF Clock!Next
  <2>2. CASE Visit
    BY <2>2, VisitRefines DEF Clock!Next
  <2>3. ASSUME NEW period \in Periods, Return(period) PROVE Clock!Next
    BY <2>3, ReturnRefines DEF Clock!Next
  <2>4. ASSUME NEW a \in Alarms, MayStop(a), Stop(a) PROVE Clock!Next
    BY <2>4, StopRefines DEF Clock!Next
  <2>5. ASSUME NEW a \in Alarms, NEW delay \in Delays,
               MayStart(a, delay), Start(a, delay)
        PROVE  Clock!Next
    BY <2>5, StartRefines DEF Clock!Next
  <2>6. CASE UNCHANGED alarmVars
    BY <2>6 DEF alarmVars, Clock!vars, Left, Linked, Ahead
  <2>. QED  BY <2>1, <2>2, <2>3, <2>4, <2>5, <2>6 DEF CarefulNext, Walks
<1>. QED  BY AlarmsInvariant, <1>1, <1>2, PTL DEF CarefulAlarms, RingsOnTime, Clock!Spec

-----------------------------------------------------------------------------
(***************************************************************************)
(* The file descriptors.                                                   *)
(***************************************************************************)
Flags == {Excl, Dev, NonBlock}

\* i and j are descriptors of one device.
Same(i, j) == fds[i].dev = fds[j].dev

FilesTypeOK == /\ fds \in [Descriptors -> [dev : Devices \union {NoDev}, flags : SUBSET Flags]]
          /\ max \in Int /\ max < MaxFd
          /\ channels \in 0..3
          /\ held \subseteq Descriptors

\* Every descriptor open() gave out lies below the mark, so does every
\* descriptor that can be locked.
Marked == /\ \A i \in Descriptors : fds[i].dev # NoDev /\ i \notin Standard => i <= max
          /\ \A i \in Descriptors : Dev \in fds[i].flags => max >= 3 /\ fds[i].dev # NoDev
          /\ \A i \in Standard : fds[i].dev # NoDev
          /\ \A i \in held : fds[i].dev # NoDev

\* The loop of alt_fd_lock() misses the highest descriptor only: whoever
\* shares a locked device lies above the descriptor that locked it.
LowestLocks ==
    /\ \A i \in Descriptors : Excl \in fds[i].flags => Dev \in fds[i].flags
    /\ \A i, j \in Descriptors : Excl \in fds[i].flags /\ Same(i, j) /\ i # j => i < j
    /\ channels > 0 => \A i \in Descriptors : Excl \notin fds[i].flags

FilesInv == FilesTypeOK /\ Marked /\ LowestLocks

LEMMA FlagsDiffer == Excl # Dev /\ Excl # NonBlock /\ Dev # NonBlock
BY DEF Excl, Dev, NonBlock

LEMMA StandardDescriptors == Standard \subseteq Descriptors /\ Descriptors \subseteq Nat
BY FilesAssumption DEF Standard, Descriptors

LEMMA FilesInitOK == FilesInit => FilesInv
<1>. SUFFICES ASSUME FilesInit PROVE FilesInv
  OBVIOUS
<1>1. FilesTypeOK
  BY FilesAssumption DEF FilesInit, FilesTypeOK, Free, Flags, Descriptors
<1>2. Marked
  BY FilesAssumption, StandardDescriptors DEF FilesInit, Marked, Free
<1>3. LowestLocks
  BY FilesAssumption, StandardDescriptors DEF FilesInit, LowestLocks, Free
<1>. QED  BY <1>1, <1>2, <1>3 DEF FilesInv

(***************************************************************************)
(* Every call changes at most one descriptor.                              *)
(***************************************************************************)
Becomes(i, dev, flags) ==
    /\ fds'[i] = [dev |-> dev, flags |-> flags]
    /\ \A j \in Descriptors \ {i} : fds'[j] = fds[j]
    /\ fds' \in [Descriptors -> [dev : Devices \union {NoDev}, flags : SUBSET Flags]]

\* Which claims are held follows from the descriptors one by one.
LEMMA LocksKept ==
    ASSUME FilesInv, NEW i \in Descriptors, NEW flags \in SUBSET Flags,
           Becomes(i, fds[i].dev, flags), Excl \in flags <=> Excl \in fds[i].flags
    PROVE  UNCHANGED <<Holders, Owners>>
<1>1. \A j \in Descriptors : /\ fds'[j].dev = fds[j].dev
                             /\ Excl \in fds'[j].flags <=> Excl \in fds[j].flags
  BY DEF Becomes
<1>. QED  BY <1>1 DEF Holders, Owners

\* open() succeeds only on a device nobody locked.
LEMMA NoOwner ==
    ASSUME FilesInv, NEW d \in Devices, NEW i \in Descriptors, Opens(d, i)
    PROVE  /\ Owners[d] = {} /\ fds[i].dev = NoDev /\ i \notin Standard /\ i >= 3
           /\ HighWater(i) \in Int /\ max <= HighWater(i) /\ i <= HighWater(i)
           /\ HighWater(i) < MaxFd
<1>1. fds[i].dev = NoDev /\ i \notin Standard /\ i >= 3
  BY StandardDescriptors DEF Opens, IsFirstFree, FilesInv, Marked, Standard
<1>2. /\ HighWater(i) \in Int /\ max <= HighWater(i) /\ i <= HighWater(i)
      /\ HighWater(i) < MaxFd
  BY StandardDescriptors, FilesAssumption DEF HighWater, FilesInv, FilesTypeOK, Descriptors
<1>3. ASSUME NEW j \in Descriptors, fds[j].dev = d, Excl \in fds[j].flags PROVE FALSE
  <2>1. Dev \in fds[j].flags /\ max >= 3 /\ fds[j].dev # NoDev
    BY <1>3 DEF FilesInv, LowestLocks, Marked
  <2>2. j <= max
    BY <2>1, StandardDescriptors DEF FilesInv, Marked, FilesTypeOK, Standard
  <2>3. j <= HighWater(i)
    BY <2>2, <1>2, StandardDescriptors DEF FilesInv, FilesTypeOK
  <2>. QED  BY <2>3, <1>3 DEF Opens, Locked
<1>. QED  BY <1>1, <1>2, <1>3 DEF Owners

(***************************************************************************)
(* open(), and the redirection of a standard channel.                      *)
(***************************************************************************)
LEMMA OpenOK ==
    ASSUME FilesInv, NEW d \in Devices, NEW mode \in SUBSET {NonBlock},
           channels = 0, UNCHANGED channels, Open(d, mode)
    PROVE  FilesInv' /\ (Locks!WeakNext \/ UNCHANGED <<Holders, Owners>>)
<1>1. CASE UNCHANGED <<fds, max, held>>
  BY <1>1 DEF FilesInv, FilesTypeOK, Marked, LowestLocks, Same, Holders, Owners
<1>2. ASSUME NEW i \in Descriptors, Refuses(d, i), max' = HighWater(i),
             UNCHANGED <<fds, held>>
      PROVE  FilesInv' /\ UNCHANGED <<Holders, Owners>>
  <2>1. max' \in Int /\ max' < MaxFd /\ max <= max'
    BY <1>2, StandardDescriptors, FilesAssumption DEF HighWater, FilesInv, FilesTypeOK, Descriptors
  <2>2. FilesTypeOK' /\ LowestLocks'
    BY <1>2, <2>1 DEF FilesInv, FilesTypeOK, LowestLocks, Same
  <2>3. Marked'
    BY <1>2, <2>1, StandardDescriptors DEF FilesInv, FilesTypeOK, Marked
  <2>. QED  BY <1>2, <2>2, <2>3 DEF FilesInv, Holders, Owners
<1>3. ASSUME NEW i \in Descriptors, Opens(d, i), max' = HighWater(i),
             fds' = [fds EXCEPT ![i] = [dev |-> d, flags |-> mode \union {Dev}]],
             held' = held \union {i}
      PROVE  FilesInv' /\ Locks!WeakNext
  <2>0. mode \union {Dev} \in SUBSET Flags /\ Excl \notin mode \union {Dev}
    BY FlagsDiffer DEF Flags
  <2>1. Becomes(i, d, mode \union {Dev})
    BY <1>3, <2>0 DEF Becomes, FilesInv, FilesTypeOK
  <2>2. /\ Owners[d] = {} /\ fds[i].dev = NoDev /\ i \notin Standard /\ i >= 3
        /\ max' \in Int /\ max <= max' /\ i <= max' /\ max' < MaxFd
    BY <1>3, NoOwner
  <2>3. \A j \in Descriptors : fds[j].dev = d => Excl \notin fds[j].flags
    BY <2>2 DEF Owners
  <2>4. FilesTypeOK'
    BY <1>3, <2>1, <2>2 DEF FilesInv, FilesTypeOK, Becomes
  <2>5. Marked'
    BY <1>3, <2>1, <2>2, StandardDescriptors, FilesAssumption
       DEF FilesInv, FilesTypeOK, Marked, Becomes
  <2>6. LowestLocks'
    BY <2>0, <2>1, <2>3 DEF FilesInv, LowestLocks, Becomes, Same
  <2>7. Holders' = [Holders EXCEPT ![d] = @ \union {i}]
    <3>1. \A j \in Descriptors : fds'[j].dev = IF j = i THEN d ELSE fds[j].dev
      BY <2>1 DEF Becomes
    <3>2. \A e \in Devices : e # d => {j \in Descriptors : fds'[j].dev = e}
                                    = {j \in Descriptors : fds[j].dev = e}
      BY <3>1, <2>2, FilesAssumption
    <3>3. {j \in Descriptors : fds'[j].dev = d}
             = {j \in Descriptors : fds[j].dev = d} \union {i}
      BY <3>1
    <3>. QED  BY <3>2, <3>3 DEF Holders
  <2>8. Owners' = Owners
    BY <2>0, <2>1, <2>2, FilesAssumption DEF Owners, Becomes
  <2>9. \A e \in Devices : i \notin Holders[e]
    BY <2>2, FilesAssumption DEF Holders
  <2>. QED  BY <2>2, <2>4, <2>5, <2>6, <2>7, <2>8, <2>9 DEF FilesInv, Locks!WeakNext, Locks!Besides, Locks!Open
<1>. QED  BY <1>1, <1>2, <1>3 DEF Open

LEMMA RedirectOK ==
    ASSUME FilesInv, NEW i \in Standard, channels > 0, Redirect(i), channels' = channels - 1
    PROVE  FilesInv' /\ Locks!WeakNext
<1>1. PICK old \in Descriptors :
          /\ Opens(Console, old) /\ max' = HighWater(old)
          /\ fds' = [fds EXCEPT ![i] = [dev |-> Console, flags |-> {Dev}]]
  BY DEF Redirect
<1>2. i \in Descriptors /\ {Dev} \in SUBSET Flags /\ Console \in Devices
  BY StandardDescriptors, FilesAssumption DEF Flags
<1>3. Becomes(i, Console, {Dev})
  BY <1>1, <1>2 DEF Becomes, FilesInv, FilesTypeOK
<1>4. /\ old >= 3 /\ max' \in Int /\ max <= max' /\ old <= max' /\ max' < MaxFd
  BY <1>1, <1>2, NoOwner
<1>5. max' >= 3
  BY <1>4, StandardDescriptors
<1>6. \A j \in Descriptors : Excl \notin fds[j].flags
  BY DEF FilesInv, LowestLocks
<1>7. FilesTypeOK'
  BY <1>3, <1>4 DEF FilesInv, FilesTypeOK, Becomes, Redirect
<1>8. Marked'
  BY <1>2, <1>3, <1>4, <1>5, StandardDescriptors, FilesAssumption
     DEF FilesInv, FilesTypeOK, Marked, Becomes, Redirect
<1>9. \A j \in Descriptors : Excl \notin fds'[j].flags
  BY <1>2, <1>3, <1>6, FlagsDiffer DEF Becomes
<1>10. LowestLocks'
  BY <1>9 DEF LowestLocks
<1>11. fds[i].dev \in Devices
  BY <1>2 DEF FilesInv, FilesTypeOK, Marked
<1>12. Holders' = [f \in Devices |-> IF f = Console THEN Holders[f] \union {i}
                                                   ELSE Holders[f] \ {i}]
  BY <1>2, <1>3 DEF Holders, Becomes
<1>13. Owners' = Owners /\ \A f \in Devices : Owners[f] = {}
  BY <1>6, <1>9 DEF Owners
<1>14. i \in Holders[fds[i].dev]
  BY <1>2, <1>11 DEF Holders
<1>15. Locks!Move(fds[i].dev, Console, i)
  BY <1>2, <1>11, <1>12, <1>13, <1>14 DEF Locks!Move
<1>. QED  BY <1>2, <1>7, <1>8, <1>10, <1>11, <1>15 DEF FilesInv, Locks!WeakNext, Locks!Besides

(***************************************************************************)
(* close(), the two ioctl() requests and fcntl(), of a descriptor in use.  *)
(***************************************************************************)
LEMMA CloseOK ==
    ASSUME FilesInv, NEW i \in held \union Standard, Close(i), UNCHANGED channels
    PROVE  FilesInv' /\ (Locks!WeakNext \/ UNCHANGED <<Holders, Owners>>)
<1>1. i \in Descriptors /\ fds[i].dev \in Devices
  BY StandardDescriptors DEF FilesInv, FilesTypeOK, Marked
<1>2. CASE i \in Standard
  <2>1. fds' = fds /\ held' \subseteq held /\ UNCHANGED max
    BY <1>2 DEF Close, Released
  <2>. QED  BY <2>1 DEF FilesInv, FilesTypeOK, Marked, LowestLocks, Same, Holders, Owners
<1>3. CASE i \notin Standard
  <2>1. Becomes(i, NoDev, {})
    BY <1>1, <1>3 DEF Close, Released, Free, Becomes, FilesInv, FilesTypeOK
  <2>2. held' = held \ {i} /\ UNCHANGED max
    BY DEF Close
  <2>3. FilesTypeOK'
    BY <2>1, <2>2 DEF FilesInv, FilesTypeOK, Becomes
  <2>4. Marked'
    BY <1>3, <2>1, <2>2, StandardDescriptors DEF FilesInv, FilesTypeOK, Marked, Becomes
  <2>5. LowestLocks'
    <3>1. fds'[i].dev = NoDev /\ fds'[i].flags = {}
      BY <2>1 DEF Becomes
    <3>2. \A j \in Descriptors \ {i} : fds'[j] = fds[j]
      BY <2>1 DEF Becomes
    <3>3. \A j \in Descriptors : Excl \in fds[j].flags =>
              Dev \in fds[j].flags /\ fds[j].dev # NoDev
      BY DEF FilesInv, LowestLocks, Marked
    <3>. QED  BY <3>1, <3>2, <3>3 DEF FilesInv, LowestLocks, Same
  <2>6. Holders' = [Holders EXCEPT ![fds[i].dev] = @ \ {i}]
    <3>1. \A j \in Descriptors : fds'[j].dev = IF j = i THEN NoDev ELSE fds[j].dev
      BY <2>1 DEF Becomes
    <3>2. \A e \in Devices : {j \in Descriptors : fds'[j].dev = e}
                                = {j \in Descriptors : fds[j].dev = e} \ {i}
      BY <3>1, FilesAssumption
    <3>3. \A e \in Devices : Holders'[e] = Holders[e] \ {i}
      BY <3>2 DEF Holders
    <3>4. \A e \in Devices : e # fds[i].dev => i \notin Holders[e]
      BY DEF Holders
    <3>5. /\ Holders' = [e \in Devices |-> Holders'[e]]
          /\ Holders  = [e \in Devices |-> Holders[e]]
      BY DEF Holders
    <3>. QED  BY <3>3, <3>4, <3>5, <1>1
  <2>7. Owners' = [Owners EXCEPT ![fds[i].dev] = @ \ {i}]
    <3>1. \A j \in Descriptors : j # i => fds'[j] = fds[j]
      BY <2>1 DEF Becomes
    <3>2. fds'[i].dev = NoDev /\ Excl \notin fds'[i].flags
      BY <2>1 DEF Becomes
    <3>3. \A e \in Devices : Owners'[e] = Owners[e] \ {i}
      BY <3>1, <3>2 DEF Owners
    <3>4. \A e \in Devices : e # fds[i].dev => i \notin Owners[e]
      BY DEF Owners
    <3>5. /\ Owners' = [e \in Devices |-> Owners'[e]]
          /\ Owners  = [e \in Devices |-> Owners[e]]
      BY DEF Owners
    <3>. QED  BY <3>3, <3>4, <3>5, <1>1
  <2>8. i \in Holders[fds[i].dev]
    BY <1>1 DEF Holders
  <2>. QED  BY <1>1, <2>3, <2>4, <2>5, <2>6, <2>7, <2>8 DEF FilesInv, Locks!WeakNext, Locks!Besides, Locks!Close
<1>. QED  BY <1>2, <1>3

\* A claim changes hands: the claims of the other devices stay.
LEMMA OwnersChange ==
    ASSUME FilesInv, NEW i \in Descriptors, fds[i].dev \in Devices,
           NEW flags \in SUBSET Flags, Becomes(i, fds[i].dev, flags),
           \A j \in Descriptors \ {i} : Same(i, j) => Excl \notin fds[j].flags
    PROVE  /\ UNCHANGED Holders /\ i \in Holders[fds[i].dev]
           /\ Owners[fds[i].dev] = IF Excl \in fds[i].flags THEN {i} ELSE {}
           /\ Owners' = [Owners EXCEPT ![fds[i].dev] = IF Excl \in flags THEN {i} ELSE {}]
<1>1. \A j \in Descriptors : fds'[j].dev = fds[j].dev
  BY DEF Becomes
<1>2. \A j \in Descriptors \ {i} : fds'[j].flags = fds[j].flags
  BY DEF Becomes
<1>3. fds'[i].flags = flags
  BY DEF Becomes
<1>4. UNCHANGED Holders /\ i \in Holders[fds[i].dev]
  BY <1>1 DEF Holders
<1>5. Owners[fds[i].dev] = IF Excl \in fds[i].flags THEN {i} ELSE {}
  BY DEF Owners, Same
<1>6. \A e \in Devices : e # fds[i].dev => Owners'[e] = Owners[e]
  BY <1>1, <1>2 DEF Owners
<1>7. Owners'[fds[i].dev] = IF Excl \in flags THEN {i} ELSE {}
  BY <1>1, <1>2, <1>3 DEF Owners, Same
<1>. QED  BY <1>4, <1>5, <1>6, <1>7 DEF Owners

\* With one descriptor of a device locked, the others lie above it, within
\* the mark: the loop of alt_fd_lock() finds it from each of them.
LEMMA LockSeesLock ==
    ASSUME FilesInv, NEW i \in Descriptors, NEW j \in Descriptors, i # j, Same(i, j),
           Dev \in fds[i].flags, Excl \in fds[j].flags
    PROVE  Shared(i)
<1>1. j < i
  BY DEF FilesInv, LowestLocks, Same
<1>2. max >= 3 /\ fds[i].dev # NoDev
  BY DEF FilesInv, Marked
<1>3. i <= max
  BY <1>2, StandardDescriptors DEF FilesInv, FilesTypeOK, Marked, Standard
<1>. QED  BY <1>1, <1>3, StandardDescriptors DEF Shared, Same, FilesInv, FilesTypeOK

LEMMA LockOK ==
    ASSUME FilesInv, NEW i \in held \union Standard, Lock(i), UNCHANGED channels,
           channels = 0
    PROVE  FilesInv' /\ (Locks!WeakNext \/ UNCHANGED <<Holders, Owners>>)
<1>1. i \in Descriptors /\ fds[i].dev \in Devices /\ Dev \in fds[i].flags
  BY StandardDescriptors DEF FilesInv, FilesTypeOK, Marked, Lock
<1>2. CASE Shared(i)
  BY <1>2 DEF Lock, FilesInv, FilesTypeOK, Marked, LowestLocks, Same, Holders, Owners
<1>3. CASE ~Shared(i)
  <2>. DEFINE flags == fds[i].flags \union {Excl}
  <2>1. flags \in SUBSET Flags /\ Becomes(i, fds[i].dev, flags)
    BY <1>1, <1>3 DEF Lock, Becomes, FilesInv, FilesTypeOK, Flags
  <2>2. UNCHANGED <<max, held>>
    BY DEF Lock
  <2>3. \A j \in Descriptors \ {i} : Same(i, j) => Excl \notin fds[j].flags
    BY <1>1, <1>3, LockSeesLock
  <2>4. \A j \in Descriptors \ {i} : Same(i, j) => i < j /\ j = max
    <3>1. \A j \in Descriptors \ {i} : Same(i, j) => j >= max
      BY <1>3, StandardDescriptors DEF Shared, Same, FilesInv, FilesTypeOK
    <3>2. max >= 3 /\ \A j \in Descriptors : Same(i, j) => j <= max
      BY <1>1, FilesAssumption, StandardDescriptors
         DEF FilesInv, FilesTypeOK, Marked, Standard, Same
    <3>3. i <= max
      BY <1>1, <3>2 DEF Same
    <3>. QED  BY <3>1, <3>2, <3>3, <1>1, StandardDescriptors DEF FilesInv, FilesTypeOK
  <2>5. /\ Excl \in flags /\ Dev \in flags
        /\ Dev \in flags <=> Dev \in fds[i].flags
    BY <1>1
  <2>. HIDE DEF flags
  <2>6. FilesTypeOK'
    BY <2>1, <2>2 DEF FilesInv, FilesTypeOK, Becomes
  <2>11. fds'[i].dev = fds[i].dev /\ fds'[i].flags = flags
    BY <2>1 DEF Becomes
  <2>12. \A j \in Descriptors \ {i} : fds'[j] = fds[j]
    BY <2>1 DEF Becomes
  <2>7. Marked'
    BY <1>1, <2>2, <2>5, <2>11, <2>12, StandardDescriptors DEF FilesInv, FilesTypeOK, Marked
  <2>8. LowestLocks'
    BY <2>3, <2>4, <2>5, <2>11, <2>12 DEF FilesInv, LowestLocks, Same
  <2>9. CASE Excl \in fds[i].flags
    BY <1>1, <2>1, <2>5, <2>6, <2>7, <2>8, <2>9, LocksKept DEF FilesInv
  <2>10. CASE Excl \notin fds[i].flags
    <3>1. Locks!Claims(fds[i].dev, i)
      BY <1>1, <2>1, <2>3, <2>5, <2>10, OwnersChange DEF Locks!Claims
    <3>2. Locks!OneAbove(fds[i].dev, i)
      <4>1. \A j \in Holders[fds[i].dev] \ {i} : i < j /\ j = max
        BY <1>1, <2>4 DEF Holders, Same
      <4>. QED  BY <4>1 DEF Locks!OneAbove
    <3>. QED  BY <3>1, <3>2, <1>1, <2>6, <2>7, <2>8 DEF FilesInv, Locks!WeakNext
  <2>. QED  BY <2>9, <2>10
<1>. QED  BY <1>2, <1>3

LEMMA UnlockOK ==
    ASSUME FilesInv, NEW i \in held \union Standard, Unlock(i), UNCHANGED channels,
           channels = 0
    PROVE  FilesInv' /\ (Locks!WeakNext \/ UNCHANGED <<Holders, Owners>>)
<1>1. i \in Descriptors /\ fds[i].dev \in Devices /\ Dev \in fds[i].flags
  BY StandardDescriptors DEF FilesInv, FilesTypeOK, Marked, Unlock
<1>. DEFINE flags == fds[i].flags \ {Excl}
<1>2. flags \in SUBSET Flags /\ Becomes(i, fds[i].dev, flags)
  BY <1>1 DEF Unlock, Becomes, FilesInv, FilesTypeOK, Flags
<1>3. UNCHANGED <<max, held>>
  BY DEF Unlock
<1>4. /\ Excl \notin flags /\ Dev \in flags
  BY <1>1, FlagsDiffer
<1>. HIDE DEF flags
<1>5. fds'[i].dev = fds[i].dev /\ fds'[i].flags = flags
  BY <1>2 DEF Becomes
<1>6. \A j \in Descriptors \ {i} : fds'[j] = fds[j]
  BY <1>2 DEF Becomes
<1>7. FilesTypeOK'
  BY <1>2, <1>3 DEF FilesInv, FilesTypeOK, Becomes
<1>8. Marked'
  BY <1>1, <1>3, <1>4, <1>5, <1>6, StandardDescriptors DEF FilesInv, FilesTypeOK, Marked
<1>9. LowestLocks'
  BY <1>4, <1>5, <1>6 DEF FilesInv, LowestLocks, Same
<1>10. CASE Excl \notin fds[i].flags
  BY <1>1, <1>2, <1>4, <1>7, <1>8, <1>9, <1>10, LocksKept DEF FilesInv
<1>11. CASE Excl \in fds[i].flags
  <2>1. ASSUME NEW j \in Descriptors \ {i}, Same(i, j), Excl \in fds[j].flags
        PROVE  FALSE
    <3>1. i < j /\ j < i
      BY <1>1, <1>11, <2>1 DEF FilesInv, LowestLocks, Same
    <3>. QED  BY <3>1, <1>1, StandardDescriptors
  <2>2. Locks!GiveBack(fds[i].dev, i)
    BY <1>1, <1>2, <1>4, <1>11, <2>1, OwnersChange DEF Locks!GiveBack
  <2>. QED  BY <2>2, <1>1, <1>7, <1>8, <1>9 DEF FilesInv, Locks!WeakNext, Locks!Besides
<1>. QED  BY <1>10, <1>11

LEMMA SetFlagsOK ==
    ASSUME FilesInv, NEW i \in held \union Standard, NEW chosen \in SUBSET {NonBlock},
           SetFlags(i, chosen), UNCHANGED channels
    PROVE  FilesInv' /\ UNCHANGED <<Holders, Owners>>
<1>1. i \in Descriptors
  BY StandardDescriptors DEF FilesInv, FilesTypeOK
<1>. DEFINE flags == (fds[i].flags \ {NonBlock}) \union chosen
<1>2. flags \in SUBSET Flags /\ Becomes(i, fds[i].dev, flags)
  BY <1>1 DEF SetFlags, Becomes, FilesInv, FilesTypeOK, Flags
<1>3. UNCHANGED <<max, held>>
  BY DEF SetFlags
<1>4. /\ Excl \in flags <=> Excl \in fds[i].flags
      /\ Dev \in flags <=> Dev \in fds[i].flags
  BY FlagsDiffer
<1>. HIDE DEF flags
<1>5. fds'[i].dev = fds[i].dev /\ fds'[i].flags = flags
  BY <1>2 DEF Becomes
<1>6. \A j \in Descriptors \ {i} : fds'[j] = fds[j]
  BY <1>2 DEF Becomes
<1>7. FilesTypeOK'
  BY <1>2, <1>3 DEF FilesInv, FilesTypeOK, Becomes
<1>8. Marked'
  BY <1>1, <1>3, <1>4, <1>5, <1>6, StandardDescriptors DEF FilesInv, FilesTypeOK, Marked
<1>9. LowestLocks'
  BY <1>4, <1>5, <1>6 DEF FilesInv, LowestLocks, Same
<1>. QED  BY <1>1, <1>2, <1>4, <1>7, <1>8, <1>9, LocksKept DEF FilesInv

(***************************************************************************)
(* The invariant, and that exclusive access is obeyed.                     *)
(***************************************************************************)
LEMMA FilesStepOK ==
    ASSUME FilesInv, FilesNext
    PROVE  FilesInv' /\ (Locks!WeakNext \/ UNCHANGED <<Holders, Owners>>)
<1>1. CASE StartUp
  <2>1. Channel \in Standard
    BY <1>1 DEF StartUp, Channel, Standard, FilesInv, FilesTypeOK
  <2>. QED  BY <1>1, <2>1, RedirectOK DEF StartUp
<1>2. CASE Main
  <2>1. UNCHANGED channels /\ channels = 0
    BY <1>2 DEF Main
  <2>2. CASE \E d \in Devices, mode \in SUBSET {NonBlock} : Open(d, mode)
    BY <2>1, <2>2, OpenOK
  <2>3. ASSUME NEW i \in held \union Standard,
               \/ Close(i) \/ Lock(i) \/ Unlock(i)
               \/ \E flags \in SUBSET {NonBlock} : SetFlags(i, flags)
        PROVE  FilesInv' /\ (Locks!WeakNext \/ UNCHANGED <<Holders, Owners>>)
    BY <2>1, <2>3, CloseOK, LockOK, UnlockOK, SetFlagsOK
  <2>. QED  BY <1>2, <2>2, <2>3 DEF Main
<1>. QED  BY <1>1, <1>2 DEF FilesNext

LEMMA FilesStutterOK ==
    ASSUME FilesInv, UNCHANGED fileVars
    PROVE  FilesInv' /\ UNCHANGED <<Holders, Owners>>
BY DEF fileVars, FilesInv, FilesTypeOK, Marked, LowestLocks, Same, Holders, Owners

\* The inductive invariant: what alt_max_fd bounds, and where locks lie.
LEMMA FilesInvariant == FilesSpec => []FilesInv
<1>1. FilesInv /\ [FilesNext]_fileVars => FilesInv'
  BY FilesStepOK, FilesStutterOK
<1>. QED  BY FilesInitOK, <1>1, PTL DEF FilesSpec

\* Whatever the number of descriptors, a claim is granted beside no descriptor
\* of the device but one above it, the one alt_fd_lock() does not examine, and
\* then keeps open() and every other claim out.
THEOREM Obeyed == FilesSpec => LocksObeyed
<1>1. FilesInit => Locks!Init
  BY DEF FilesInit, Locks!Init, Holders, Owners, Free
<1>2. FilesInv /\ [FilesNext]_fileVars => [Locks!WeakNext]_(Locks!lockVars)
  BY FilesStepOK, FilesStutterOK DEF Locks!lockVars
<1>. QED  BY FilesInvariant, <1>1, <1>2, PTL DEF FilesSpec, LocksObeyed, Locks!WeakSpec

-----------------------------------------------------------------------------
(***************************************************************************)
(* The bus to the USB controller.  A call is a program of fourteen stores, *)
(* and how many of them are made tells what the ports hold.  The pins hold *)
(* the same once a clock has passed since the last store; until then they  *)
(* hold what the ports held before it.                                     *)
(***************************************************************************)
Calls == {Idle} \union [op : {"write"}, address : Addresses, data : Data]
                \union [op : {"read"}, address : Addresses]

IsRead(c) == c.op = "read"

(* The stores of a call, one by one.                                       *)
Order(c, n) ==
    CASE n = 1  -> <<"address", AddressPort>>
      [] n = 2  -> <<"cs", 0>>
      [] n = 3  -> <<"r", 1>>
      [] n = 4  -> <<"data", c.address>>
      [] n = 5  -> <<"w", 0>>
      [] n = 6  -> <<"w", 1>>
      [] n = 7  -> <<"cs", 1>>
      [] n = 8  -> <<"address", DataPort>>
      [] n = 9  -> <<"cs", 0>>
      [] n = 10 -> IF IsRead(c) THEN <<"w", 1>> ELSE <<"r", 1>>
      [] n = 11 -> IF IsRead(c) THEN <<"r", 0>> ELSE <<"data", c.data>>
      [] n = 12 -> IF IsRead(c) THEN <<"load">> ELSE <<"w", 0>>
      [] n = 13 -> IF IsRead(c) THEN <<"r", 1>> ELSE <<"w", 1>>
      [] n = 14 -> <<"cs", 1>>

Orders(c) == {Order(c, n) : n \in 1 .. 14}

(* The stores made.                                                        *)
Made == 14 - Len(todo)

TodoOK ==
    /\ call \in Calls
    /\ todo \in Seq(Orders(call)) /\ Len(todo) <= 14
    /\ \A i \in 1 .. Len(todo) : todo[i] = Order(call, Made + i)
    /\ call = Idle => Made = 14

(* A strobe of WR_N is low from the fifth store to the sixth, and in a call*)
(* that writes from the twelfth to the thirteenth.                         *)
InStrobe   == Made = 5 \/ (Made = 12 /\ ~IsRead(call))
EndsStrobe == Made = 6 \/ (Made = 13 /\ ~IsRead(call))

PortsOK ==
    /\ ports = [address |-> ports.address, data |-> ports.data,
                r |-> ports.r, w |-> ports.w, cs |-> ports.cs]
    /\ ports.address = IF Made \in 1 .. 7 THEN AddressPort ELSE DataPort
    /\ ports.r = IF Made \in 11 .. 12 /\ IsRead(call) THEN 0 ELSE 1
    /\ ports.w = IF InStrobe THEN 0 ELSE 1
    /\ ports.cs = IF Made \in 2 .. 6 \/ Made \in 9 .. 13 THEN 0 ELSE 1
    /\ Made \in 4 .. 6 => ports.data = call.address
    /\ Made \in 11 .. 13 /\ ~IsRead(call) => ports.data = call.data

Settled == wait < Gap

PinsOK ==
    /\ wait \in 0 .. Gap
    /\ Made \in 1 .. 13 /\ Settled => pins = ports
    /\ pins.w = IF (InStrobe /\ Settled) \/ (EndsStrobe /\ ~Settled) THEN 0 ELSE 1
    /\ EndsStrobe /\ ~Settled => /\ pins.cs = 0 /\ pins.data = ports.data
                                 /\ pins.address = ports.address

(* The word of a call that writes has arrived.                             *)
Arrived == ~IsRead(call) /\ (Made = 14 \/ (Made = 13 /\ Settled))

ChipOK ==
    /\ chip = [address |-> chip.address, words |-> chip.words]
    /\ chip.address \in Addresses /\ chip.words \in [Addresses -> Data]
    /\ words \in [Addresses -> Data]
    /\ call # Idle /\ (Made >= 7 \/ (Made = 6 /\ Settled)) => chip.address = call.address
    /\ \A a \in Addresses :
         chip.words[a] = IF call # Idle /\ Arrived /\ a = call.address
                         THEN call.data ELSE words[a]

(* The answer is on the data pins one clock after the pins ask for it.     *)
AnswerOK ==
    /\ Made = 11 /\ IsRead(call) /\ wait + 2 <= Gap => input = words[call.address]
    /\ Made >= 12 /\ IsRead(call) => temp = words[call.address]

BusOK  == TodoOK /\ PortsOK /\ PinsOK /\ ChipOK /\ AnswerOK
HpiInv == cut \in BOOLEAN /\ (~cut => BusOK)

-----------------------------------------------------------------------------
LEMMA CallForms ==
    ASSUME NEW c \in Calls
    PROVE  /\ c.op \in {"none", "write", "read"}
           /\ c = Idle <=> c.op = "none"
           /\ c # Idle => c.address \in Addresses
           /\ c # Idle /\ ~IsRead(c) => c.op = "write" /\ c.data \in Data
  <1>1. CASE c = Idle
    BY <1>1 DEF Idle
  <1>2. CASE c # Idle
    <2>1. CASE c \in [op : {"write"}, address : Addresses, data : Data]
      BY <2>1, <1>2 DEF IsRead
    <2>2. CASE c \in [op : {"read"}, address : Addresses]
      BY <2>2, <1>2 DEF IsRead
    <2> QED BY <1>2, <2>1, <2>2 DEF Calls
  <1> QED BY <1>1, <1>2

LEMMA Sevens ==
    ASSUME NEW S, NEW e1 \in S, NEW e2 \in S, NEW e3 \in S, NEW e4 \in S,
           NEW e5 \in S, NEW e6 \in S, NEW e7 \in S
    PROVE  /\ <<e1, e2, e3, e4, e5, e6, e7>> \in Seq(S)
           /\ Len(<<e1, e2, e3, e4, e5, e6, e7>>) = 7
  OBVIOUS

LEMMA Joined ==
    ASSUME NEW S, NEW s \in Seq(S), NEW t \in Seq(S)
    PROVE  /\ s \o t \in Seq(S) /\ Len(s \o t) = Len(s) + Len(t)
           /\ \A k \in 1 .. Len(s) : (s \o t)[k] = s[k]
           /\ \A k \in 1 .. Len(t) : (s \o t)[Len(s) + k] = t[k]
  OBVIOUS

LEMMA TheOrders ==
    ASSUME NEW c, NEW p,
           c.op = "write" => p = UsbWrite(c.address, c.data),
           c.op = "read" => p = UsbRead(c.address),
           c.op \in {"write", "read"}
    PROVE  p \in Seq(Orders(c)) /\ Len(p) = 14 /\ \A i \in 1 .. 14 : p[i] = Order(c, i)
  <1> DEFINE S == Orders(c)
  <1>1. \A i \in 1 .. 14 : Order(c, i) \in S
    BY DEF Orders
  <1> HIDE DEF S
  <1>2. <<"address", 2>> \in S /\ <<"cs", 0>> \in S /\ <<"r", 1>> \in S
        /\ <<"data", c.address>> \in S
    BY <1>1 DEF Order, AddressPort
  <1>3. <<"w", 0>> \in S /\ <<"w", 1>> \in S /\ <<"cs", 1>> \in S /\ <<"address", 0>> \in S
    BY <1>1 DEF Order, DataPort
  <1> DEFINE s == IO_write(AddressPort, c.address)
  <1>4. s \in Seq(S) /\ Len(s) = 7
    BY <1>2, <1>3, Sevens DEF IO_write, AddressPort
  <1>5. /\ s[1] = Order(c, 1) /\ s[2] = Order(c, 2) /\ s[3] = Order(c, 3) /\ s[4] = Order(c, 4)
        /\ s[5] = Order(c, 5) /\ s[6] = Order(c, 6) /\ s[7] = Order(c, 7)
    BY DEF IO_write, Order
  <1>6. ASSUME NEW t \in Seq(S), Len(t) = 7, p = s \o t,
               \A i \in 1 .. 7 : t[i] = Order(c, 7 + i)
        PROVE  p \in Seq(S) /\ Len(p) = 14 /\ \A i \in 1 .. 14 : p[i] = Order(c, i)
    <2> HIDE DEF s
    <2>1. p \in Seq(S) /\ Len(p) = 14 /\ \A i \in 1 .. 7 : p[i] = s[i] /\ p[7 + i] = t[i]
      <3>1. Len(s) = 7 /\ Len(t) = 7 /\ s \in Seq(S) /\ t \in Seq(S) /\ p = s \o t
        BY <1>4, <1>6
      <3>2. /\ s \o t \in Seq(S) /\ Len(s \o t) = Len(s) + Len(t)
            /\ \A k \in 1 .. Len(s) : (s \o t)[k] = s[k]
            /\ \A k \in 1 .. Len(t) : (s \o t)[Len(s) + k] = t[k]
        <4>1. s \in Seq(S) /\ t \in Seq(S)
          BY <3>1
        <4> QED BY ONLY <4>1, Joined
      <3>3. /\ p \in Seq(S) /\ Len(p) = 7 + 7
            /\ \A k \in 1 .. 7 : p[k] = s[k]
            /\ \A k \in 1 .. 7 : p[7 + k] = t[k]
        BY ONLY <3>1, <3>2, Zenon
      <3> QED BY ONLY <3>3
    <2>2. \A i \in 1 .. 7 : s[i] = Order(c, i)
      BY <1>5
    <2>3. \A i \in 1 .. 14 : i \in 1 .. 7 \/ (i - 7 \in 1 .. 7 /\ 7 + (i - 7) = i)
      OBVIOUS
    <2>4. \A j \in 1 .. 7 : p[j] = Order(c, j) /\ p[7 + j] = Order(c, 7 + j)
      BY <1>6, <2>1, <2>2
    <2> QED BY ONLY <2>1, <2>3, <2>4
  <1>7. CASE c.op = "write"
    <2> DEFINE t == IO_write(DataPort, c.data)
    <2>0. ~IsRead(c)
      BY <1>7 DEF IsRead
    <2>1. <<"data", c.data>> \in S
      BY <1>1, <2>0 DEF Order
    <2>2. t \in Seq(S) /\ Len(t) = 7
      BY <1>2, <1>3, <2>1, Sevens DEF IO_write, DataPort
    <2>3. /\ t[1] = Order(c, 8) /\ t[2] = Order(c, 9) /\ t[3] = Order(c, 10) /\ t[4] = Order(c, 11)
          /\ t[5] = Order(c, 12) /\ t[6] = Order(c, 13) /\ t[7] = Order(c, 14)
      BY <2>0 DEF IO_write, Order
    <2>4. p = s \o t
      BY <1>7 DEF UsbWrite
    <2> HIDE DEF t, s
    <2>5. \A i \in 1 .. 7 : t[i] = Order(c, 7 + i)
      BY <2>3
    <2> QED BY <1>6, <2>2, <2>4, <2>5 DEF S
  <1>8. CASE c.op = "read"
    <2> DEFINE t == IO_read(DataPort)
    <2>0. IsRead(c)
      BY <1>8 DEF IsRead
    <2>1. <<"load">> \in S /\ <<"r", 0>> \in S
      BY <1>1, <2>0 DEF Order
    <2>2. t \in Seq(S) /\ Len(t) = 7
      BY <1>2, <1>3, <2>1, Sevens DEF IO_read, DataPort
    <2>3. /\ t[1] = Order(c, 8) /\ t[2] = Order(c, 9) /\ t[3] = Order(c, 10) /\ t[4] = Order(c, 11)
          /\ t[5] = Order(c, 12) /\ t[6] = Order(c, 13) /\ t[7] = Order(c, 14)
      BY <2>0 DEF IO_read, Order
    <2>4. p = s \o t
      BY <1>8 DEF UsbRead
    <2> HIDE DEF t, s
    <2>5. \A i \in 1 .. 7 : t[i] = Order(c, 7 + i)
      BY <2>3
    <2> QED BY <1>6, <2>2, <2>4, <2>5 DEF S
  <1> QED BY <1>7, <1>8

LEMMA CallUsbOK ==
    ASSUME BusOK, Gap >= 2, CallUsb
    PROVE  BusOK'
  <1> USE DEF BusOK
  <1>1. /\ todo = <<>> /\ call = Idle
        /\ UNCHANGED <<wait, ports, pins, input, temp, chip, words>>
    BY DEF CallUsb
  <1>2. PICK c \in Calls : /\ call' = c /\ c # Idle /\ c.address \in Addresses
                           /\ c.op \in {"write", "read"}
                           /\ c.op = "write" => todo' = UsbWrite(c.address, c.data)
                           /\ c.op = "read" => todo' = UsbRead(c.address)
    <2>1. PICK a \in Addresses :
             \/ \E d \in Data : /\ call' = [op |-> "write", address |-> a, data |-> d]
                                /\ todo' = UsbWrite(a, d)
             \/ /\ call' = [op |-> "read", address |-> a]
                /\ todo' = UsbRead(a)
      BY DEF CallUsb
    <2>2. ASSUME NEW d \in Data, call' = [op |-> "write", address |-> a, data |-> d],
                 todo' = UsbWrite(a, d)
          PROVE  /\ call' \in Calls /\ call' # Idle /\ call'.address \in Addresses
                 /\ call'.op = "write" /\ todo' = UsbWrite(call'.address, call'.data)
      BY <2>2 DEF Calls, Idle
    <2>3. ASSUME call' = [op |-> "read", address |-> a], todo' = UsbRead(a)
          PROVE  /\ call' \in Calls /\ call' # Idle /\ call'.address \in Addresses
                 /\ call'.op = "read" /\ todo' = UsbRead(call'.address)
      BY <2>3 DEF Calls, Idle
    <2> QED BY <2>1, <2>2, <2>3
  <1>3. /\ todo' \in Seq(Orders(call')) /\ Len(todo') = 14
        /\ \A i \in 1 .. 14 : todo'[i] = Order(call', i)
    BY <1>2, TheOrders
  <1>4. Made = 14 /\ Made' = 0 /\ Len(todo) = 0
    BY <1>1, <1>3 DEF Made
  <1>5. TodoOK'
    BY <1>2, <1>3, <1>4 DEF TodoOK
  <1>6. PortsOK'
    BY <1>1, <1>4 DEF PortsOK, InStrobe
  <1>7. PinsOK'
    BY <1>1, <1>4 DEF PinsOK, InStrobe, EndsStrobe, Settled
  <1>8. ChipOK'
    BY <1>1, <1>4 DEF ChipOK, Arrived, Settled
  <1>9. AnswerOK'
    BY <1>4 DEF AnswerOK
  <1> QED BY <1>5, <1>6, <1>7, <1>8, <1>9

LEMMA ReturnUsbOK ==
    ASSUME BusOK, Gap >= 2, ReturnUsb
    PROVE  BusOK'
  <1> USE DEF BusOK
  <1>1. /\ todo = <<>> /\ call # Idle /\ call' = Idle
        /\ UNCHANGED <<todo, wait, ports, pins, input, temp, chip>>
        /\ words' = IF call.op = "write" THEN [words EXCEPT ![call.address] = call.data]
                    ELSE words
    BY DEF ReturnUsb
  <1>2. Made = 14 /\ Made' = 14 /\ Len(todo) = 0
    BY <1>1 DEF Made
  <1>3. /\ call.address \in Addresses /\ call.op \in {"write", "read"}
        /\ call.op = "write" <=> ~IsRead(call)
        /\ call.op = "write" => call.data \in Data
    BY <1>1, CallForms DEF TodoOK, IsRead
  <1>4. TodoOK'
    BY <1>1, <1>2 DEF TodoOK, Calls
  <1>5. PortsOK'
    BY <1>1, <1>2 DEF PortsOK, InStrobe
  <1>6. PinsOK'
    BY <1>1, <1>2 DEF PinsOK, InStrobe, EndsStrobe, Settled
  <1>7. ChipOK'
    <2>1. words \in [Addresses -> Data] /\ words' \in [Addresses -> Data]
      BY <1>1, <1>3 DEF ChipOK
    <2>2. \A a \in Addresses : chip.words[a] = words'[a]
      BY <1>1, <1>2, <1>3, <2>1 DEF ChipOK, Arrived
    <2> QED BY <1>1, <2>1, <2>2 DEF ChipOK
  <1>8. AnswerOK'
    BY <1>1 DEF AnswerOK, IsRead, Idle
  <1> QED BY <1>4, <1>5, <1>6, <1>7, <1>8

LEMMA ClkOK ==
    ASSUME BusOK, Gap >= 2, Clk, ~(reset /\ call # Idle)
    PROVE  BusOK'
  <1> USE DEF BusOK
  <1>1. /\ UNCHANGED <<todo, call, ports, temp, words>>
        /\ wait' = IF wait = 0 THEN 0 ELSE wait - 1
        /\ pins' = IF reset THEN Quiet ELSE ports
        /\ input' \in IF reset THEN {Zero} ELSE OtgData
        /\ chip' = IF WriteEnds(pins') THEN Written ELSE chip
    BY DEF Clk
  <1>2. Made' = Made /\ Gap \in Nat /\ wait \in 0 .. Gap
    BY <1>1, HpiAssumption DEF Made, PinsOK
  <1>3. wait' \in 0 .. Gap /\ wait' < Gap
    BY <1>1, <1>2
  <1>4. TodoOK' /\ PortsOK'
    BY <1>1, <1>2 DEF TodoOK, PortsOK, InStrobe
  <1>5. CASE call = Idle
    <2>1. Made = 14 /\ pins.w = 1 /\ pins'.w = 1
      BY <1>1, <1>5 DEF TodoOK, PinsOK, PortsOK, InStrobe, EndsStrobe, Quiet
    <2>2. PinsOK'
      BY <1>1, <1>2, <1>3, <2>1 DEF PinsOK, InStrobe, EndsStrobe
    <2>3. chip' = chip
      BY <1>1, <2>1 DEF WriteEnds
    <2>4. ChipOK'
      BY <1>1, <1>2, <1>5, <2>3 DEF ChipOK
    <2>5. AnswerOK'
      BY <1>1, <1>5 DEF AnswerOK, IsRead, Idle
    <2> QED BY <1>4, <2>2, <2>4, <2>5
  <1>6. CASE call # Idle
    <2>1. pins' = ports /\ input' \in OtgData
      BY <1>1, <1>6
    <2>2. PinsOK'
      BY <1>1, <1>2, <1>3, <2>1 DEF PinsOK, PortsOK, InStrobe, EndsStrobe, Settled
    <2>3. call.address \in Addresses /\ (~IsRead(call) => call.data \in Data)
      BY <1>6, CallForms DEF TodoOK
    <2>4. CASE EndsStrobe /\ ~Settled
      <3>1. WriteEnds(pins')
        BY <2>1, <2>4 DEF PinsOK, PortsOK, InStrobe, EndsStrobe, WriteEnds
      <3>2. chip' = Written
        BY <1>1, <3>1
      <3>3. ASSUME Made = 6 PROVE ChipOK'
        <4>1. pins.address = AddressPort /\ pins.data = call.address
          BY <2>4, <3>3 DEF PinsOK, PortsOK
        <4>2. chip' = [chip EXCEPT !.address = call.address]
          BY <3>2, <4>1 DEF Written, AddressPort, DataPort
        <4>3. /\ chip' = [address |-> chip'.address, words |-> chip'.words]
              /\ chip'.address = call.address /\ chip'.words = chip.words
          BY <4>2 DEF ChipOK
        <4>4. ~Arrived /\ ~Arrived'
          BY <1>2, <3>3 DEF Arrived
        <4>5. \A a \in Addresses : chip'.words[a] = words'[a]
          BY <1>1, <4>3, <4>4 DEF ChipOK
        <4>6. /\ chip'.address \in Addresses /\ chip'.words \in [Addresses -> Data]
              /\ words' \in [Addresses -> Data] /\ chip'.address = call'.address
          BY <1>1, <2>3, <4>3 DEF ChipOK
        <4> QED BY <4>3, <4>4, <4>5, <4>6 DEF ChipOK
      <3>4. ASSUME Made = 13, ~IsRead(call) PROVE ChipOK'
        <4>1. /\ pins.address = DataPort /\ pins.data = call.data
              /\ chip.address = call.address
          BY <1>6, <2>4, <3>4 DEF PinsOK, PortsOK, ChipOK
        <4>2. chip' = [chip EXCEPT !.words[chip.address] = call.data]
          BY <3>2, <4>1 DEF Written, AddressPort, DataPort
        <4>3. /\ chip' = [address |-> chip'.address, words |-> chip'.words]
              /\ chip'.address = call.address
              /\ chip'.words = [chip.words EXCEPT ![call.address] = call.data]
          BY <4>1, <4>2 DEF ChipOK
        <4>4. ~Arrived /\ Arrived'
          BY <1>1, <1>2, <1>3, <2>4, <3>4 DEF Arrived, Settled
        <4>5. \A a \in Addresses : chip.words[a] = words[a]
          BY <4>4 DEF ChipOK
        <4>6. chip'.words \in [Addresses -> Data]
          BY <2>3, <3>4, <4>3 DEF ChipOK
        <4>7. \A a \in Addresses : chip'.words[a] = IF a = call.address THEN call.data
                                                    ELSE words[a]
          BY <4>3, <4>5 DEF ChipOK
        <4>8. /\ chip'.address \in Addresses /\ chip'.address = call'.address
              /\ words' \in [Addresses -> Data] /\ call' # Idle
          BY <1>1, <1>6, <2>3, <4>3 DEF ChipOK
        <4>9. \A a \in Addresses : chip'.words[a] = IF a = call'.address THEN call'.data
                                                    ELSE words'[a]
          BY <1>1, <4>7
        <4> QED BY <4>3, <4>4, <4>6, <4>8, <4>9 DEF ChipOK
      <3>5. ChipOK'
        BY <2>4, <3>3, <3>4 DEF EndsStrobe
      <3>6. AnswerOK'
        <4>1. Made \notin 11 .. 14 \/ ~IsRead(call)
          BY <2>4 DEF EndsStrobe
        <4>2. Len(todo) \in Nat
          BY DEF TodoOK
        <4>3. Made <= 14
          BY <4>2 DEF Made
        <4> QED BY <1>1, <1>2, <4>1, <4>3 DEF AnswerOK, Made
      <3> QED BY <1>4, <2>2, <3>5, <3>6
    <2>5. CASE ~(EndsStrobe /\ ~Settled)
      <3>1. ~WriteEnds(pins')
        <4>1. CASE InStrobe /\ Settled
          <5>1. pins = ports /\ ports.w = 0 /\ ports.cs = 0
            BY <4>1 DEF PinsOK, PortsOK, InStrobe
          <5> QED BY <2>1, <5>1 DEF WriteEnds
        <4>2. CASE ~(InStrobe /\ Settled)
          BY <2>5, <4>2 DEF WriteEnds, PinsOK
        <4> QED BY <4>1, <4>2
      <3>2. chip' = chip
        BY <1>1, <3>1
      <3>3. Arrived' <=> Arrived
        BY <1>1, <1>2, <1>3, <2>5 DEF Arrived, EndsStrobe, Settled
      <3>4. ChipOK'
        <4>1. Made = 6 => Settled
          BY <2>5 DEF EndsStrobe
        <4> QED BY <1>1, <1>2, <3>2, <3>3, <4>1 DEF ChipOK
      <3>5. AnswerOK'
        <4>1. CASE Made = 11 /\ IsRead(call) /\ wait' + 2 <= Gap
          <5>1. Settled
            BY <1>1, <1>2, <4>1 DEF Settled
          <5>2. pins.w = 1 /\ pins.r = 0 /\ pins.cs = 0 /\ pins.address = DataPort
            BY <4>1, <5>1 DEF PinsOK, PortsOK, InStrobe
          <5>3. input' = chip.words[chip.address]
            BY <2>1, <5>2 DEF OtgData
          <5>4. input' = words[call.address]
            BY <1>6, <2>3, <4>1, <5>3 DEF ChipOK, Arrived
          <5> QED BY <1>1, <1>2, <4>1, <5>4 DEF AnswerOK
        <4>2. CASE ~(Made = 11 /\ IsRead(call) /\ wait' + 2 <= Gap)
          BY <1>1, <1>2, <4>2 DEF AnswerOK
        <4> QED BY <4>1, <4>2
      <3> QED BY <1>4, <2>2, <3>4, <3>5
    <2> QED BY <2>4, <2>5
  <1> QED BY <1>5, <1>6

(* A store changes one port.                                               *)
LEMMA StoreIn ==
    ASSUME NEW p, NEW v,
           p = [address |-> p.address, data |-> p.data, r |-> p.r, w |-> p.w, cs |-> p.cs]
    PROVE  /\ [p EXCEPT !.address = v] = [address |-> v, data |-> p.data, r |-> p.r,
                                             w |-> p.w, cs |-> p.cs]
           /\ [p EXCEPT !.data = v] = [address |-> p.address, data |-> v, r |-> p.r,
                                          w |-> p.w, cs |-> p.cs]
           /\ [p EXCEPT !.r = v] = [address |-> p.address, data |-> p.data, r |-> v,
                                       w |-> p.w, cs |-> p.cs]
           /\ [p EXCEPT !.w = v] = [address |-> p.address, data |-> p.data, r |-> p.r,
                                       w |-> v, cs |-> p.cs]
           /\ [p EXCEPT !.cs = v] = [address |-> p.address, data |-> p.data, r |-> p.r,
                                        w |-> p.w, cs |-> v]
  OBVIOUS

LEMMA AccessOK ==
    ASSUME BusOK, Gap >= 2, Access
    PROVE  BusOK'
  <1> USE DEF BusOK
  <1>1. /\ todo # <<>> /\ wait = 0 /\ wait' = Gap /\ todo' = Tail(todo)
        /\ UNCHANGED <<pins, input, chip, words, call>>
    BY DEF Access
  <1>2. /\ Len(todo) \in 1 .. 14 /\ Head(todo) = Order(call, Made + 1)
        /\ todo' \in Seq(Orders(call)) /\ Len(todo') = Len(todo) - 1
        /\ \A i \in 1 .. Len(todo') : todo'[i] = Order(call, Made + (i + 1))
    <2>1. /\ todo \in Seq(Orders(call)) /\ Len(todo) <= 14
          /\ \A i \in 1 .. Len(todo) : todo[i] = Order(call, Made + i)
      BY DEF TodoOK
    <2>2. /\ Len(todo) \in Nat /\ Len(todo) >= 1 /\ Head(todo) = todo[1]
          /\ Tail(todo) \in Seq(Orders(call)) /\ Len(Tail(todo)) = Len(todo) - 1
          /\ \A i \in 1 .. Len(todo) - 1 : Tail(todo)[i] = todo[i + 1]
      BY ONLY <1>1, <2>1
    <2>3. Len(todo) \in 1 .. 14 /\ 1 \in 1 .. Len(todo)
      <3>1. Len(todo) \in Nat /\ Len(todo) >= 1 /\ Len(todo) <= 14
        BY ONLY <2>1, <2>2
      <3>2. \A n \in Nat : n >= 1 /\ n <= 14 => n \in 1 .. 14 /\ 1 \in 1 .. n
        OBVIOUS
      <3> QED BY ONLY <3>1, <3>2
    <2>4. \A i \in 1 .. Len(todo) - 1 : i + 1 \in 1 .. Len(todo)
      BY ONLY <2>2
    <2>5. Head(todo) = Order(call, Made + 1)
      BY ONLY <2>1, <2>2, <2>3
    <2>6. \A i \in 1 .. Len(todo) - 1 : Tail(todo)[i] = Order(call, Made + (i + 1))
      BY ONLY <2>1, <2>2, <2>4
    <2> QED BY ONLY <1>1, <2>2, <2>3, <2>5, <2>6
  <1>3. Made \in 0 .. 13 /\ Made' = Made + 1 /\ Gap \in Nat
    <2>1. Len(todo) \in 1 .. 14 /\ Len(todo') = Len(todo) - 1
      BY ONLY <1>2
    <2>2. 14 - Len(todo) \in 0 .. 13 /\ 14 - Len(todo') = (14 - Len(todo)) + 1
      <3>1. \A n \in 1 .. 14 : /\ 14 - n \in 0 .. 13
                               /\ 14 - (n - 1) = (14 - n) + 1
        OBVIOUS
      <3> QED BY ONLY <2>1, <3>1
    <2> QED BY ONLY <2>2, HpiAssumption DEF Made
  <1>4. /\ call # Idle /\ call.address \in Addresses
        /\ call.op = "write" <=> ~IsRead(call)
    BY <1>3, CallForms DEF TodoOK, IsRead
  <1>5. TodoOK'
    <2>1. \A i \in 1 .. Len(todo') : Made + (i + 1) = Made' + i
      BY <1>2, <1>3
    <2>2. \A i \in 1 .. Len(todo') : todo'[i] = Order(call', Made' + i)
      BY <1>1, <1>2, <2>1
    <2> QED BY <1>1, <1>2, <1>4, <2>2 DEF TodoOK
  <1>6. Settled /\ ~Settled'
    BY <1>1, <1>3 DEF Settled
  <1>7. ASSUME NEW v
        PROVE  /\ Order(call, Made + 1) = <<"address", v>> => ports' = [ports EXCEPT !.address = v]
               /\ Order(call, Made + 1) = <<"cs", v>> => ports' = [ports EXCEPT !.cs = v]
               /\ Order(call, Made + 1) = <<"data", v>> => ports' = [ports EXCEPT !.data = v]
               /\ Order(call, Made + 1) = <<"w", v>> => ports' = [ports EXCEPT !.w = v]
               /\ Order(call, Made + 1) = <<"r", v>> => ports' = [ports EXCEPT !.r = v]
               /\ (\E k \in {"address", "cs", "data", "w", "r"} :
                     Order(call, Made + 1) = <<k, v>>) => temp' = temp
    <2>1. Order(call, Made + 1) = <<"address", v>> => ports' = [ports EXCEPT !.address = v]
      BY <1>2 DEF Access
    <2>2. Order(call, Made + 1) = <<"cs", v>> => ports' = [ports EXCEPT !.cs = v]
      BY <1>2 DEF Access
    <2>3. Order(call, Made + 1) = <<"data", v>> => ports' = [ports EXCEPT !.data = v]
      BY <1>2 DEF Access
    <2>4. Order(call, Made + 1) = <<"w", v>> => ports' = [ports EXCEPT !.w = v]
      BY <1>2 DEF Access
    <2>5. Order(call, Made + 1) = <<"r", v>> => ports' = [ports EXCEPT !.r = v]
      BY <1>2 DEF Access
    <2>6. (\E k \in {"address", "cs", "data", "w", "r"} :
             Order(call, Made + 1) = <<k, v>>) => temp' = temp
      BY <1>2 DEF Access
    <2> QED BY ONLY <2>1, <2>2, <2>3, <2>4, <2>5, <2>6
  <1>8. PortsOK' /\ (~(Made = 11 /\ IsRead(call)) => temp' = temp)
    <2>0. ports = [address |-> ports.address, data |-> ports.data,
                   r |-> ports.r, w |-> ports.w, cs |-> ports.cs]
      BY DEF PortsOK
    <2>1. CASE Made \in {0, 7}
      <3> DEFINE v == IF Made = 0 THEN AddressPort ELSE DataPort
      <3>1. Order(call, Made + 1) = <<"address", v>>
        BY <2>1 DEF Order
      <3>2. ports' = [ports EXCEPT !.address = v] /\ temp' = temp
        BY <1>7, <3>1
      <3>3. ports' = [address |-> v, data |-> ports.data, r |-> ports.r, w |-> ports.w,
                      cs |-> ports.cs]
        BY <2>0, <3>2, StoreIn
      <3>4. ASSUME Made = 0 PROVE PortsOK'
        BY <1>1, <1>3, <3>4, <3>3 DEF PortsOK, InStrobe
      <3>5. ASSUME Made = 7 PROVE PortsOK'
        BY <1>1, <1>3, <3>5, <3>3 DEF PortsOK, InStrobe
      <3> QED BY <2>1, <3>2, <3>4, <3>5
    <2>2. CASE Made \in {1, 6, 8, 13}
      <3> DEFINE v == IF Made \in {1, 8} THEN 0 ELSE 1
      <3>1. Order(call, Made + 1) = <<"cs", v>>
        BY <2>2 DEF Order
      <3>2. ports' = [ports EXCEPT !.cs = v] /\ temp' = temp
        BY <1>7, <3>1
      <3>3. ports' = [address |-> ports.address, data |-> ports.data, r |-> ports.r,
                      w |-> ports.w, cs |-> v]
        BY <2>0, <3>2, StoreIn
      <3>4. ASSUME Made = 1 PROVE PortsOK'
        BY <1>1, <1>3, <3>4, <3>3 DEF PortsOK, InStrobe
      <3>5. ASSUME Made = 6 PROVE PortsOK'
        BY <1>1, <1>3, <3>5, <3>3 DEF PortsOK, InStrobe
      <3>6. ASSUME Made = 8 PROVE PortsOK'
        BY <1>1, <1>3, <3>6, <3>3 DEF PortsOK, InStrobe
      <3>7. ASSUME Made = 13 PROVE PortsOK'
        BY <1>1, <1>3, <3>7, <3>3 DEF PortsOK, InStrobe
      <3> QED BY <2>2, <3>2, <3>4, <3>5, <3>6, <3>7
    <2>3. CASE Made = 3 \/ (Made = 10 /\ ~IsRead(call))
      <3> DEFINE v == IF Made = 3 THEN call.address ELSE call.data
      <3>1. Order(call, Made + 1) = <<"data", v>>
        BY <2>3 DEF Order
      <3>2. ports' = [ports EXCEPT !.data = v] /\ temp' = temp
        BY <1>7, <3>1
      <3>3. ports' = [address |-> ports.address, data |-> v, r |-> ports.r,
                      w |-> ports.w, cs |-> ports.cs]
        BY <2>0, <3>2, StoreIn
      <3> QED BY <1>1, <1>3, <2>3, <3>2, <3>3 DEF PortsOK, InStrobe
    <2>4. CASE \/ Made \in {4, 5} \/ (Made \in {11, 12} /\ ~IsRead(call))
               \/ (Made = 9 /\ IsRead(call))
      <3> DEFINE v == IF Made \in {4, 11} THEN 0 ELSE 1
      <3>1. Order(call, Made + 1) = <<"w", v>>
        BY <2>4 DEF Order
      <3>2. ports' = [ports EXCEPT !.w = v] /\ temp' = temp
        BY <1>7, <3>1
      <3>3. ports' = [address |-> ports.address, data |-> ports.data, r |-> ports.r,
                      w |-> v, cs |-> ports.cs]
        BY <2>0, <3>2, StoreIn
      <3> QED BY <1>1, <1>3, <2>4, <3>2, <3>3 DEF PortsOK, InStrobe
    <2>5. CASE \/ Made = 2 \/ (Made = 9 /\ ~IsRead(call))
               \/ (Made \in {10, 12} /\ IsRead(call))
      <3> DEFINE v == IF Made = 10 THEN 0 ELSE 1
      <3>1. Order(call, Made + 1) = <<"r", v>>
        BY <2>5 DEF Order
      <3>2. ports' = [ports EXCEPT !.r = v] /\ temp' = temp
        BY <1>7, <3>1
      <3>3. ports' = [address |-> ports.address, data |-> ports.data, r |-> v,
                      w |-> ports.w, cs |-> ports.cs]
        BY <2>0, <3>2, StoreIn
      <3> QED BY <1>1, <1>3, <2>5, <3>2, <3>3 DEF PortsOK, InStrobe
    <2>6. CASE Made = 11 /\ IsRead(call)
      <3>1. Order(call, Made + 1) = <<"load">>
        BY <2>6 DEF Order
      <3>2. ports' = ports
        BY <1>2, <3>1 DEF Access
      <3> QED BY <1>1, <1>3, <2>6, <3>2 DEF PortsOK, InStrobe
    <2> QED BY <1>3, <2>1, <2>2, <2>3, <2>4, <2>5, <2>6
  <1>9. PinsOK'
    <2>1. CASE EndsStrobe'
      <3>1. Made \in 1 .. 13 /\ InStrobe /\ (Made = 5 \/ (Made = 12 /\ ~IsRead(call)))
        BY <1>1, <1>3, <2>1 DEF InStrobe, EndsStrobe
      <3>2. pins = ports /\ ports.w = 0 /\ ports.cs = 0
        BY <1>6, <3>1 DEF PinsOK, PortsOK
      <3>3. ports'.data = ports.data /\ ports'.address = ports.address
        <4>1. ports' = [ports EXCEPT !.w = 1]
          <5>1. Order(call, Made + 1) = <<"w", 1>>
            BY <3>1 DEF Order
          <5> QED BY <1>7, <5>1
        <4>2. ports' = [address |-> ports.address, data |-> ports.data, r |-> ports.r,
                        w |-> 1, cs |-> ports.cs]
          BY <4>1, StoreIn DEF PortsOK
        <4> QED BY <4>2
      <3> QED BY <1>1, <1>3, <1>6, <2>1, <3>2, <3>3 DEF PinsOK
    <2>2. CASE ~EndsStrobe'
      <3>1. ~(InStrobe /\ Settled) /\ ~(EndsStrobe /\ ~Settled)
        BY <1>1, <1>3, <1>6, <2>2 DEF InStrobe, EndsStrobe
      <3>2. pins.w = 1
        BY <3>1 DEF PinsOK
      <3> QED BY <1>1, <1>3, <1>6, <2>2, <3>2 DEF PinsOK
    <2> QED BY <2>1, <2>2
  <1>10. ChipOK'
    <2>1. Arrived' <=> Arrived
      BY <1>1, <1>3, <1>6 DEF Arrived
    <2>2. Made' >= 7 => Made >= 7 \/ Made = 6
      BY <1>3
    <2> QED BY <1>1, <1>4, <1>6, <2>1, <2>2 DEF ChipOK
  <1>11. AnswerOK'
    <2>1. ~(wait' + 2 <= Gap)
      BY <1>1, <1>3
    <2>2. CASE Made = 11 /\ IsRead(call)
      <3>1. input = words[call.address]
        BY <1>1, <2>2 DEF AnswerOK
      <3>2. Order(call, Made + 1) = <<"load">>
        BY <2>2 DEF Order
      <3>3. temp' = input
        BY <1>2, <3>2 DEF Access
      <3> QED BY <1>1, <2>1, <3>1, <3>3 DEF AnswerOK
    <2>3. CASE ~(Made = 11 /\ IsRead(call))
      BY <1>1, <1>3, <1>8, <2>1, <2>3 DEF AnswerOK
    <2> QED BY <2>2, <2>3
  <1> QED BY <1>5, <1>8, <1>9, <1>10, <1>11

(* Over the bus every word arrives where it was written, and is read back, *)
(* as long as two accesses to the ports are two clocks apart and no Reset  *)
(* meets a call, for all words and addresses (io_handler.c, usb.c,         *)
(* hpi_io_intf.sv).                                                        *)
THEOREM BusWordsAsWritten ==
    ASSUME Gap >= 2
    PROVE  HpiSpec => []WordsAsWritten
  <1>1. HpiInit => HpiInv
    <2> SUFFICES ASSUME HpiInit PROVE HpiInv
      OBVIOUS
    <2>1. /\ todo = <<>> /\ wait = 0 /\ call = Idle /\ ports = Quiet /\ pins = Quiet
          /\ chip = [address |-> Zero, words |-> [a \in Addresses |-> Zero]]
          /\ words = [a \in Addresses |-> Zero] /\ cut = FALSE
      BY DEF HpiInit
    <2>2. Len(todo) = 0 /\ Made = 14 /\ call.op = "none"
      BY <2>1 DEF Made, Idle
    <2>3. Gap \in Nat /\ Zero \in Addresses /\ Zero \in Data
      BY HpiAssumption
    <2>4. TodoOK
      <3>1. todo \in Seq(Orders(call))
        BY <2>1
      <3> QED BY <2>1, <2>2, <3>1 DEF TodoOK, Calls
    <2>5. PortsOK
      BY <2>1, <2>2 DEF PortsOK, InStrobe, Quiet, IsRead
    <2>6. PinsOK
      BY <2>1, <2>2, <2>3 DEF PinsOK, InStrobe, EndsStrobe, Quiet
    <2>7. ChipOK
      BY <2>1, <2>3 DEF ChipOK
    <2>8. AnswerOK
      BY <2>2 DEF AnswerOK, IsRead
    <2> QED BY <2>1, <2>4, <2>5, <2>6, <2>7, <2>8 DEF HpiInv, BusOK
  <1>2. HpiInv /\ [HpiNext]_hpiVars => HpiInv'
    <2> SUFFICES ASSUME HpiInv, [HpiNext]_hpiVars PROVE HpiInv'
      OBVIOUS
    <2>1. CASE Button \/ UNCHANGED hpiVars
      <3>1. UNCHANGED <<todo, wait, ports, pins, input, temp, chip, words, call, cut>>
        BY <2>1 DEF Button, hpiVars
      <3> QED BY <3>1 DEF HpiInv, BusOK, TodoOK, PortsOK, PinsOK, ChipOK, AnswerOK,
                          InStrobe, EndsStrobe, Arrived, Settled, Made
    <2>2. CASE CallUsb \/ ReturnUsb \/ Access
      <3>1. cut' = cut
        BY <2>2 DEF CallUsb, ReturnUsb, Access
      <3> QED BY <2>2, <3>1, CallUsbOK, ReturnUsbOK, AccessOK DEF HpiInv
    <2>3. CASE Clk
      <3>1. cut' = (cut \/ (reset /\ call # Idle))
        BY <2>3 DEF Clk
      <3> QED BY <2>3, <3>1, ClkOK DEF HpiInv
    <2> QED BY <2>1, <2>2, <2>3 DEF HpiNext
  <1>3. HpiInv => WordsAsWritten
    <2> SUFFICES ASSUME BusOK, todo = <<>>
                 PROVE  /\ call # Idle /\ call.op = "read" => temp = words[call.address]
                        /\ call = Idle => \A a \in Addresses : chip.words[a] = words[a]
      BY DEF HpiInv, WordsAsWritten
    <2>1. Made = 14
      BY DEF Made
    <2> QED BY <2>1 DEF BusOK, AnswerOK, ChipOK, IsRead
  <1> QED BY <1>1, <1>2, <1>3, PTL DEF HpiSpec

-----------------------------------------------------------------------------
(***************************************************************************)
(* The driver of the JTAG UART.                                            *)
(***************************************************************************)
Chars == 0 .. Numbers - 1

ThreadTypes ==
    /\ pc \in {"idle", "fill", "copyOut", "kick", "spinOut", "spunOut", "empty",
               "copyIn", "enable", "nothing", "spinIn", "spunIn", "close"}
    /\ nonblock \in BOOLEAN /\ moved \in BOOLEAN
    /\ count \in Nat /\ seen \in Bytes

RingTypes ==
    /\ tx_buf \in [Bytes -> Chars] /\ tx_in \in Bytes /\ tx_out \in Bytes
    /\ rx_buf \in [Bytes -> Chars] /\ rx_in \in Bytes /\ rx_out \in Bytes
    /\ irq_enable \subseteq {"RE", "WE"}

StreamTypes ==
    /\ txFifo \in Seq(Chars) /\ rxFifo \in Seq(Chars)
    /\ Len(txFifo) <= FifoSize /\ Len(rxFifo) <= FifoSize
    /\ sent \in Nat /\ typed \in Nat /\ taken \in Chars /\ read \in Chars

(* What each slot of a stream holds: the device first on the way out, the  *)
(* ring first on the way in.                                               *)
OutInOrder ==
    /\ sent = Len(txFifo) + Fill(tx_in, tx_out)
    /\ \A k \in 1 .. Len(txFifo) : txFifo[k] = Number(taken, k - 1)
    /\ \A k \in 0 .. Fill(tx_in, tx_out) - 1 :
          tx_buf[Wrap(tx_out + k)] = Number(taken, Len(txFifo) + k)

InInOrder ==
    /\ typed = Fill(rx_in, rx_out) + Len(rxFifo)
    /\ \A k \in 0 .. Fill(rx_in, rx_out) - 1 :
          rx_buf[Wrap(rx_out + k)] = Number(read, k)
    /\ \A k \in 1 .. Len(rxFifo) :
          rxFifo[k] = Number(read, Fill(rx_in, rx_out) + k - 1)

(* The pointer the thread read may be old, but never in its favour: the    *)
(* interrupt routine has only made more space, or more characters, since.  *)
Snapshot ==
    /\ pc = "copyOut" => Fill(tx_in, tx_out) <= Fill(tx_in, seen)
    /\ pc = "copyIn"  => Fill(seen, rx_out) <= Fill(rx_in, rx_out)

UartInv == /\ ThreadTypes /\ RingTypes /\ StreamTypes
        /\ OutInOrder /\ InInOrder /\ Snapshot /\ NoLostWakeup

-----------------------------------------------------------------------------
(***************************************************************************)
(* Numbers modulo Numbers.                                                 *)
(***************************************************************************)
LEMMA UniqueRest ==
    ASSUME NEW N \in Nat \ {0}, NEW q \in Int, NEW p \in Int,
           NEW r \in 0 .. N - 1, NEW s \in 0 .. N - 1, q * N + r = p * N + s
    PROVE  r = s
<1>1. ASSUME NEW a \in Int, NEW b \in Int, NEW c \in 0 .. N - 1, NEW d \in 0 .. N - 1,
             a < b, a * N + c = b * N + d
      PROVE  FALSE
  <2>1. PICK e \in Nat : b = a + 1 + e
    <3>1. b - a - 1 \in Nat
      BY <1>1
    <3>. QED  BY <3>1
  <2>2. b * N = a * N + N + e * N
    BY <2>1
  <2>3. e * N >= 0
    OBVIOUS
  <2>. QED  BY <1>1, <2>2, <2>3
<1>2. CASE q = p
  BY <1>2
<1>3. CASE q < p
  BY <1>1, <1>3
<1>4. CASE p < q
  BY <1>1, <1>4
<1>. QED  BY <1>2, <1>3, <1>4

LEMMA Rest ==
    ASSUME NEW N \in Nat \ {0}, NEW a \in Nat
    PROVE  a = ((a \div N) * N) + (a % N) /\ a % N \in 0 .. N - 1 /\ a \div N \in Nat
OBVIOUS

LEMMA RestAdds ==
    ASSUME NEW N \in Nat \ {0}, NEW a \in Nat, NEW b \in Nat
    PROVE  ((a % N) + b) % N = (a + b) % N
<1>. DEFINE q == a \div N
            r == a % N
            p == (r + b) \div N
            s == (r + b) % N
            u == (a + b) \div N
            v == (a + b) % N
<1>1. a = q * N + r /\ r \in 0 .. N - 1 /\ q \in Nat
  BY Rest
<1>2. r + b = p * N + s /\ s \in 0 .. N - 1 /\ p \in Nat
  <2>1. r + b \in Nat
    BY <1>1
  <2>. QED  BY ONLY N \in Nat \ {0}, <2>1, Rest, Zenon
<1>3. a + b = u * N + v /\ v \in 0 .. N - 1 /\ u \in Nat
  <2>1. a + b \in Nat
    OBVIOUS
  <2>. QED  BY ONLY N \in Nat \ {0}, <2>1, Rest, Zenon
<1>. HIDE DEF q, r, p, s, u, v
<1>4. (q + p) * N + s = u * N + v
  <2>1. (q + p) * N = q * N + p * N
    BY <1>1, <1>2
  <2>. QED  BY <2>1, <1>1, <1>2, <1>3
<1>5. s = v
  <2>1. q + p \in Int /\ u \in Int /\ s \in 0 .. N - 1 /\ v \in 0 .. N - 1
    BY <1>1, <1>2, <1>3
  <2>. QED  BY ONLY N \in Nat \ {0}, <2>1, <1>4, UniqueRest
<1>. QED  BY <1>5 DEF r, s, v

LEMMA NumberAdds ==
    ASSUME NEW c \in Nat, NEW a \in Nat, NEW b \in Nat
    PROVE  Number(c, a) \in Chars /\ Number(Number(c, a), b) = Number(c, a + b)
<1>1. Numbers \in Nat \ {0}
  BY JtagUartAssumption
<1>2. c + a \in Nat /\ (c + a) + b = c + (a + b)
  OBVIOUS
<1>3. ((c + a) % Numbers) \in 0 .. Numbers - 1
  BY <1>1, <1>2, Rest
<1>4. (((c + a) % Numbers) + b) % Numbers = ((c + a) + b) % Numbers
  BY ONLY <1>1, <1>2, b \in Nat, RestAdds
<1>. QED  BY <1>2, <1>3, <1>4 DEF Number, Chars

-----------------------------------------------------------------------------
(***************************************************************************)
(* The rings.                                                              *)
(***************************************************************************)
LEMMA Fills ==
    ASSUME NEW i \in Bytes, NEW o \in Bytes
    PROVE  Fill(i, o) \in 0 .. BUF_LEN - 1 /\ (Fill(i, o) = 0 <=> i = o)
BY JtagUartAssumption DEF Bytes, Fill

LEMMA Apart ==
    ASSUME NEW o \in Bytes, NEW j \in Bytes, NEW k \in Bytes
    PROVE  Wrap(o + j) \in Bytes /\ (Wrap(o + j) = Wrap(o + k) => j = k)
BY JtagUartAssumption DEF Bytes, Wrap

(* n more behind the last.                                                 *)
LEMMA RingPut ==
    ASSUME NEW i \in Bytes, NEW o \in Bytes, NEW n \in Nat,
           Fill(i, o) + n <= BUF_LEN - 1
    PROVE  /\ Wrap(i + n) \in Bytes
           /\ Fill(Wrap(i + n), o) = Fill(i, o) + n
           /\ \A k \in 0 .. n - 1 : Wrap(i + k) = Wrap(o + (Fill(i, o) + k))
BY JtagUartAssumption DEF Bytes, Fill, Wrap

(* The first n taken off.                                                  *)
LEMMA RingTake ==
    ASSUME NEW i \in Bytes, NEW o \in Bytes, NEW n \in Nat, n <= Fill(i, o)
    PROVE  /\ Wrap(o + n) \in Bytes
           /\ Fill(i, Wrap(o + n)) = Fill(i, o) - n
           /\ \A k \in 0 .. Fill(i, o) - n - 1 :
                 Wrap(Wrap(o + n) + k) = Wrap(o + (n + k))
BY JtagUartAssumption DEF Bytes, Fill, Wrap

LEMMA Spaces ==
    ASSUME NEW i \in Bytes, NEW o \in Bytes
    PROVE  /\ Space(i, o) \in Nat
           /\ Fill(i, o) + Space(i, o) <= BUF_LEN - 1
           /\ i + Space(i, o) <= BUF_LEN
BY JtagUartAssumption DEF Bytes, Fill, Space

LEMMA Waits ==
    ASSUME NEW buf \in [Bytes -> Chars], NEW i \in Bytes, NEW o \in Bytes
    PROVE  /\ Waiting(buf, i, o) \in Seq(Chars)
           /\ Len(Waiting(buf, i, o)) = Fill(i, o)
           /\ \A k \in 1 .. Fill(i, o) :
                 Waiting(buf, i, o)[k] = buf[Wrap(o + (k - 1))]
<1>. DEFINE n == Fill(i, o)
            w == [k \in 1 .. n |-> buf[Wrap(o + k - 1)]]
<1>1. n \in Nat /\ n <= BUF_LEN - 1
  BY Fills, JtagUartAssumption
<1>2. ASSUME NEW k \in 1 .. n
      PROVE  o + k - 1 = o + (k - 1) /\ Wrap(o + (k - 1)) \in Bytes
  <2>1. k - 1 \in Bytes /\ o \in Int
    BY <1>1, JtagUartAssumption DEF Bytes
  <2>. QED  BY <2>1, Apart
<1>3. Waiting(buf, i, o) = w
  BY DEF Waiting
<1>. HIDE DEF n
<1>4. \A k \in 1 .. n : w[k] = buf[Wrap(o + (k - 1))] /\ w[k] \in Chars
  BY <1>2
<1>5. w \in Seq(Chars) /\ Len(w) = n
  BY <1>1, <1>4
<1>. QED  BY <1>3, <1>4, <1>5 DEF n

LEMMA JoinedTo ==
    ASSUME NEW S, NEW a \in Seq(S), NEW b \in Seq(S)
    PROVE  /\ a \o b \in Seq(S) /\ Len(a \o b) = Len(a) + Len(b)
           /\ \A k \in 1 .. Len(a) : (a \o b)[k] = a[k]
           /\ \A k \in 1 .. Len(b) : (a \o b)[Len(a) + k] = b[k]
OBVIOUS

LEMMA Without ==
    ASSUME NEW S, NEW a \in Seq(S), NEW n \in Nat, n <= Len(a)
    PROVE  /\ SubSeq(a, n + 1, Len(a)) \in Seq(S)
           /\ Len(SubSeq(a, n + 1, Len(a))) = Len(a) - n
           /\ \A k \in 1 .. Len(a) - n : SubSeq(a, n + 1, Len(a))[k] = a[n + k]
OBVIOUS

LEMMA Leasts ==
    ASSUME NEW a \in Nat, NEW b \in Nat
    PROVE  /\ Least(a, b) \in Nat /\ Least(a, b) <= a /\ Least(a, b) <= b
           /\ Least(a, b) \in {a, b}
BY DEF Least

-----------------------------------------------------------------------------
(***************************************************************************)
(* The steps that move characters.                                         *)
(***************************************************************************)
LEMMA WriteCopyOK ==
    ASSUME UartInv, WriteCopy
    PROVE  UartInv'
<1>. DEFINE n == Least(Space(tx_in, seen), count)
            f == Fill(tx_in, tx_out)
<1>1. /\ ThreadTypes /\ RingTypes /\ StreamTypes /\ OutInOrder /\ InInOrder /\ Snapshot
      /\ pc = "copyOut" /\ pc' \in {"fill", "kick"}
      /\ UNCHANGED <<nonblock, moved, seen, tx_out, rx, irq_enable, txFifo, rxFifo,
                     taken, typed, read>>
  BY DEF UartInv, WriteCopy, device
<1>2. /\ tx_buf' = [b \in Bytes |-> IF b \in tx_in .. tx_in + n - 1
                                    THEN Number(taken, sent + b - tx_in) ELSE tx_buf[b]]
      /\ tx_in' = Wrap(tx_in + n) /\ sent' = sent + n /\ count' = count - n
  BY DEF WriteCopy
<1>3. /\ tx_in \in Bytes /\ tx_out \in Bytes /\ seen \in Bytes /\ count \in Nat
      /\ sent \in Nat /\ taken \in Nat /\ Numbers \in Nat /\ Len(txFifo) \in Nat
      /\ tx_in \in Nat /\ BUF_LEN \in Nat /\ tx_buf \in [Bytes -> Chars]
  BY <1>1, JtagUartAssumption DEF ThreadTypes, RingTypes, StreamTypes, Chars, Bytes
<1>4. /\ n \in Nat /\ n <= count /\ tx_in + n <= BUF_LEN
      /\ f \in Nat /\ f + n <= BUF_LEN - 1
  <2>1. f <= Fill(tx_in, seen) /\ f \in Nat
    BY <1>1, <1>3, Fills DEF Snapshot
  <2>2. /\ Space(tx_in, seen) \in Nat /\ Fill(tx_in, seen) \in Nat
        /\ Fill(tx_in, seen) + Space(tx_in, seen) <= BUF_LEN - 1
        /\ tx_in + Space(tx_in, seen) <= BUF_LEN
    BY <1>3, Spaces, Fills
  <2>3. n \in Nat /\ n <= Space(tx_in, seen) /\ n <= count
    BY <1>3, <2>2, Leasts
  <2>. QED  BY <2>1, <2>2, <2>3, <1>3
<1>. HIDE DEF n
<1>5. /\ tx_in' \in Bytes /\ Fill(tx_in', tx_out) = f + n
      /\ \A k \in 0 .. n - 1 : Wrap(tx_in + k) = Wrap(tx_out + (f + k))
  BY <1>2, <1>3, <1>4, RingPut
<1>6. \A k \in 0 .. n - 1 : Wrap(tx_in + k) = tx_in + k
  BY <1>3, <1>4 DEF Wrap
<1>7. tx_buf' \in [Bytes -> Chars]
  <2>1. ASSUME NEW b \in Bytes, b \in tx_in .. tx_in + n - 1
        PROVE  Number(taken, sent + b - tx_in) \in Chars
    <3>1. sent + b - tx_in \in Nat
      BY <2>1, <1>3, <1>4 DEF Bytes
    <3>. QED  BY <3>1, <1>3, NumberAdds
  <2>. QED  BY <2>1, <1>2, <1>3
<1>. HIDE DEF f
<1>8. ASSUME NEW k \in 0 .. f + n - 1
      PROVE  tx_buf'[Wrap(tx_out + k)] = Number(taken, Len(txFifo) + k)
  <2>1. CASE k < f
    <3>1. \A m \in 0 .. n - 1 : Wrap(tx_out + (f + m)) # Wrap(tx_out + k)
      <4>1. k \in Bytes /\ \A m \in 0 .. n - 1 : f + m \in Bytes /\ f + m # k
        BY <1>3, <1>4, <2>1 DEF Bytes
      <4>. QED  BY <4>1, <1>3, Apart
    <3>2. \A b \in tx_in .. tx_in + n - 1 : b # Wrap(tx_out + k)
      <4>1. ASSUME NEW b \in tx_in .. tx_in + n - 1
            PROVE  b # Wrap(tx_out + k)
        <5>1. b - tx_in \in 0 .. n - 1 /\ b = tx_in + (b - tx_in)
          BY <1>3, <1>4
        <5>. QED  BY <5>1, <3>1, <1>5, <1>6
      <4>. QED  BY <4>1
    <3>3. Wrap(tx_out + k) \in Bytes
      <4>1. k \in Bytes
        BY <1>4, <2>1, <1>3 DEF Bytes
      <4>. QED  BY <4>1, <1>3, Apart
    <3>4. tx_buf[Wrap(tx_out + k)] = Number(taken, Len(txFifo) + k)
      <4>1. k \in 0 .. f - 1
        BY <2>1, <1>4
      <4>. QED  BY <4>1, <1>1 DEF OutInOrder, f
    <3>. QED  BY <3>2, <3>3, <3>4, <1>2
  <2>2. CASE k >= f
    <3>1. k - f \in 0 .. n - 1 /\ k = f + (k - f)
      BY <2>2, <1>4
    <3>2. Wrap(tx_out + k) = tx_in + (k - f)
      BY <3>1, <1>5, <1>6
    <3>3. tx_in + (k - f) \in tx_in .. tx_in + n - 1 /\ tx_in + (k - f) \in Bytes
      BY <3>1, <1>3, <1>4 DEF Bytes
    <3>4. sent + (tx_in + (k - f)) - tx_in = Len(txFifo) + k
      <4>1. sent = Len(txFifo) + f
        BY <1>1 DEF OutInOrder, f
      <4>. QED  BY <4>1, <1>3, <1>4
    <3>. QED  BY <3>2, <3>3, <3>4, <1>2
  <2>. QED  BY <2>1, <2>2, <1>4
<1>9. OutInOrder'
  <2>1. sent' = Len(txFifo') + Fill(tx_in', tx_out')
    <3>1. sent = Len(txFifo) + f
      BY <1>1 DEF OutInOrder, f
    <3>. QED  BY <3>1, <1>1, <1>2, <1>3, <1>4, <1>5
  <2>2. \A k \in 1 .. Len(txFifo') : txFifo'[k] = Number(taken', k - 1)
    BY <1>1 DEF OutInOrder
  <2>3. \A k \in 0 .. Fill(tx_in', tx_out') - 1 :
           tx_buf'[Wrap(tx_out' + k)] = Number(taken', Len(txFifo') + k)
    <3>1. /\ Fill(tx_in', tx_out') = f + n
          /\ tx_out' = tx_out /\ taken' = taken /\ txFifo' = txFifo
      BY <1>1, <1>5
    <3>2. \A k \in 0 .. f + n - 1 :
             tx_buf'[Wrap(tx_out + k)] = Number(taken, Len(txFifo) + k)
      BY <1>8
    <3>. QED  BY ONLY <3>1, <3>2, <1>4
  <2>. QED  BY <2>1, <2>2, <2>3 DEF OutInOrder
<1>10. InInOrder'
  BY <1>1 DEF InInOrder, rx
<1>11. ThreadTypes' /\ RingTypes' /\ StreamTypes'
  BY <1>1, <1>2, <1>3, <1>4, <1>5, <1>7 DEF ThreadTypes, RingTypes, StreamTypes, rx
<1>12. Snapshot'
  BY <1>1 DEF Snapshot
<1>13. NoLostWakeup'
  BY <1>1 DEF UartInv, NoLostWakeup, rx
<1>. QED  BY <1>9, <1>10, <1>11, <1>12, <1>13 DEF UartInv

LEMMA ReadCopyOK ==
    ASSUME UartInv, ReadCopy
    PROVE  UartInv'
<1>. DEFINE m == IF seen >= rx_out THEN seen - rx_out ELSE BUF_LEN - rx_out
            n == Least(m, count)
            f == Fill(rx_in, rx_out)
<1>1. /\ ThreadTypes /\ RingTypes /\ StreamTypes /\ OutInOrder /\ InInOrder /\ Snapshot
      /\ pc = "copyIn" /\ pc' \in {"empty", "enable"} /\ moved' = TRUE
      /\ UNCHANGED <<nonblock, seen, tx, rx_buf, rx_in, irq_enable, txFifo, rxFifo,
                     sent, taken>>
  BY DEF UartInv, ReadCopy, device
<1>2. /\ rx_out' = Wrap(rx_out + n) /\ count' = count - n
      /\ read' = Number(read, n) /\ typed' = typed - n
  BY DEF ReadCopy
<1>3. /\ rx_in \in Bytes /\ rx_out \in Bytes /\ seen \in Bytes /\ count \in Nat
      /\ typed \in Nat /\ read \in Nat /\ Len(rxFifo) \in Nat
      /\ rx_out \in Nat /\ seen \in Nat /\ BUF_LEN \in Nat
  BY <1>1, JtagUartAssumption DEF ThreadTypes, RingTypes, StreamTypes, Chars, Bytes
<1>4. /\ n \in Nat /\ n <= count /\ f \in Nat /\ n <= f
  <2>1. Fill(seen, rx_out) <= f /\ f \in Nat
    BY <1>1, <1>3, Fills DEF Snapshot
  <2>2. m \in Nat /\ m <= Fill(seen, rx_out)
    BY <1>3 DEF Fill, Bytes
  <2>3. Fill(seen, rx_out) \in Nat
    BY <1>3, Fills
  <2>. HIDE DEF m
  <2>4. n \in Nat /\ n <= m /\ n <= count
    BY <2>2, <1>3, Leasts
  <2>. QED  BY <2>1, <2>2, <2>3, <2>4
<1>. HIDE DEF n
<1>5. /\ rx_out' \in Bytes /\ Fill(rx_in, rx_out') = f - n
      /\ \A k \in 0 .. f - n - 1 : Wrap(rx_out' + k) = Wrap(rx_out + (n + k))
  BY <1>2, <1>3, <1>4, RingTake
<1>. HIDE DEF f
<1>6. typed = f + Len(rxFifo) /\ typed' = (f - n) + Len(rxFifo)
  BY <1>1, <1>2, <1>3, <1>4 DEF InInOrder, f
<1>7. ASSUME NEW k \in 0 .. f - n - 1
      PROVE  rx_buf[Wrap(rx_out' + k)] = Number(read', k)
  <2>1. n + k \in 0 .. f - 1 /\ k \in Nat
    BY <1>4
  <2>2. rx_buf[Wrap(rx_out + (n + k))] = Number(read, n + k)
    BY <2>1, <1>1 DEF InInOrder, f
  <2>3. Number(read', k) = Number(read, n + k)
    BY ONLY <1>2, <1>3, <1>4, <2>1, NumberAdds
  <2>4. Wrap(rx_out' + k) = Wrap(rx_out + (n + k))
    BY <1>5
  <2>. QED  BY <2>2, <2>3, <2>4
<1>8. ASSUME NEW k \in 1 .. Len(rxFifo)
      PROVE  rxFifo[k] = Number(read', f - n + k - 1)
  <2>1. f - n + k - 1 \in Nat /\ n + (f - n + k - 1) = f + k - 1
    BY <1>4, <1>3
  <2>2. rxFifo[k] = Number(read, f + k - 1)
    BY <1>1 DEF InInOrder, f
  <2>. QED  BY <2>1, <2>2, <1>2, <1>3, <1>4, NumberAdds
<1>9. InInOrder'
  BY <1>1, <1>5, <1>6, <1>7, <1>8 DEF InInOrder
<1>10. OutInOrder'
  BY <1>1 DEF OutInOrder, tx
<1>11. ThreadTypes' /\ RingTypes' /\ StreamTypes'
  <2>1. typed' \in Nat /\ read' \in Chars /\ count' \in Nat
    <3>1. Number(read, n) \in Chars
      BY <1>3, <1>4, NumberAdds
    <3>2. (f - n) + Len(rxFifo) \in Nat /\ count - n \in Nat
      BY <1>3, <1>4
    <3>. QED  BY <3>1, <3>2, <1>2, <1>6
  <2>. QED  BY <2>1, <1>1, <1>5 DEF ThreadTypes, RingTypes, StreamTypes, tx
<1>12. Snapshot'
  BY <1>1 DEF Snapshot
<1>13. NoLostWakeup'
  BY <1>1 DEF UartInv, NoLostWakeup, tx
<1>. QED  BY <1>9, <1>10, <1>11, <1>12, <1>13 DEF UartInv

(* What the interrupt routine hands to the device is the head of the ring. *)
LEMMA InterruptWrites ==
    ASSUME UartInv, Interrupt
    PROVE  /\ OutInOrder'
           /\ tx_out' \in Bytes /\ txFifo' \in Seq(Chars) /\ Len(txFifo') <= FifoSize
           /\ Writes \in Nat
           /\ Fill(tx_in, tx_out') = Fill(tx_in, tx_out) - Writes
<1>. DEFINE w == Writes
            f == Fill(tx_in, tx_out)
            q == Waiting(tx_buf, tx_in, tx_out)
            s == SubSeq(q, 1, w)
<1>1. /\ RingTypes /\ StreamTypes /\ OutInOrder
      /\ UNCHANGED <<tx_buf, tx_in, sent, taken>>
      /\ txFifo' = txFifo \o s /\ tx_out' = Wrap(tx_out + w)
  BY DEF UartInv, Interrupt, streams
<1>2. /\ tx_in \in Bytes /\ tx_out \in Bytes /\ tx_buf \in [Bytes -> Chars]
      /\ txFifo \in Seq(Chars) /\ Len(txFifo) \in Nat /\ Len(txFifo) <= FifoSize
      /\ FifoSize \in Nat /\ taken \in Nat
  BY <1>1, JtagUartAssumption DEF RingTypes, StreamTypes, Chars
<1>3. f \in Nat
  BY <1>2, Fills
<1>4. w \in Nat /\ w <= f /\ w <= FifoSize - Len(txFifo)
  <2>1. FifoSize - Len(txFifo) \in Nat
    BY <1>2
  <2>2. w = 0 \/ w = Least(FifoSize - Len(txFifo), f)
    BY DEF Writes, SpaceInFifo
  <2>. HIDE DEF w, f
  <2>3. LET m == Least(FifoSize - Len(txFifo), f)
        IN  m \in Nat /\ m <= FifoSize - Len(txFifo) /\ m <= f
    BY ONLY <2>1, <1>3, Leasts, Zenon
  <2>. QED  BY <2>1, <2>2, <2>3, <1>3
<1>5. /\ q \in Seq(Chars) /\ Len(q) = f
      /\ \A k \in 1 .. f : q[k] = tx_buf[Wrap(tx_out + (k - 1))]
  BY <1>2, Waits
<1>. HIDE DEF q, w
<1>6. /\ tx_out' \in Bytes /\ Fill(tx_in, tx_out') = f - w
      /\ \A k \in 0 .. f - w - 1 : Wrap(tx_out' + k) = Wrap(tx_out + (w + k))
  BY <1>1, <1>2, <1>3, <1>4, RingTake
<1>7. sent = Len(txFifo) + f
  BY <1>1 DEF OutInOrder
<1>8. \A k \in 0 .. f - 1 : tx_buf[Wrap(tx_out + k)] = Number(taken, Len(txFifo) + k)
  BY <1>1 DEF OutInOrder
<1>. HIDE DEF f
<1>9. s \in Seq(Chars) /\ Len(s) = w /\ \A k \in 1 .. w : s[k] = q[k]
  BY <1>3, <1>4, <1>5
<1>. HIDE DEF s
<1>10. /\ txFifo' \in Seq(Chars) /\ Len(txFifo') = Len(txFifo) + w
       /\ \A k \in 1 .. Len(txFifo) : txFifo'[k] = txFifo[k]
       /\ \A k \in 1 .. w : txFifo'[Len(txFifo) + k] = s[k]
  <2>1. /\ txFifo \o s \in Seq(Chars) /\ Len(txFifo \o s) = Len(txFifo) + Len(s)
        /\ \A k \in 1 .. Len(txFifo) : (txFifo \o s)[k] = txFifo[k]
        /\ \A k \in 1 .. Len(s) : (txFifo \o s)[Len(txFifo) + k] = s[k]
    <3>1. txFifo \in Seq(Chars) /\ s \in Seq(Chars)
      BY <1>2, <1>9
    <3>. QED  BY ONLY <3>1, JoinedTo
  <2>. QED  BY ONLY <2>1, <1>1, <1>9, Zenon
<1>11. ASSUME NEW k \in 1 .. Len(txFifo')
       PROVE  txFifo'[k] = Number(taken, k - 1)
  <2>1. CASE k <= Len(txFifo)
    <3>1. k \in 1 .. Len(txFifo)
      BY <2>1, <1>2, <1>10
    <3>. QED  BY <3>1, <1>1, <1>10 DEF OutInOrder
  <2>2. CASE k > Len(txFifo)
    <3>1. PICK j \in 1 .. w : k = Len(txFifo) + j
      <4>1. k - Len(txFifo) \in 1 .. w /\ k = Len(txFifo) + (k - Len(txFifo))
        BY <2>2, <1>2, <1>4, <1>10
      <4>. QED  BY <4>1
    <3>2. j \in 1 .. f /\ j - 1 \in 0 .. f - 1 /\ Len(txFifo) + (j - 1) = k - 1
      BY <3>1, <1>2, <1>3, <1>4
    <3>3. s[j] = tx_buf[Wrap(tx_out + (j - 1))]
      BY <3>1, <3>2, <1>5, <1>9
    <3>4. tx_buf[Wrap(tx_out + (j - 1))] = Number(taken, k - 1)
      BY <3>2, <1>8
    <3>. QED  BY <3>1, <3>3, <3>4, <1>10
  <2>. QED  BY <2>1, <2>2, <1>2, <1>10
<1>12. ASSUME NEW k \in 0 .. f - w - 1
       PROVE  tx_buf[Wrap(tx_out' + k)] = Number(taken, Len(txFifo') + k)
  <2>1. w + k \in 0 .. f - 1 /\ Len(txFifo) + (w + k) = Len(txFifo') + k
    BY <1>2, <1>3, <1>4, <1>10
  <2>2. tx_buf[Wrap(tx_out + (w + k))] = Number(taken, Len(txFifo) + (w + k))
    BY <2>1, <1>8
  <2>. QED  BY <2>1, <2>2, <1>6
<1>13. sent = Len(txFifo') + (f - w)
  BY <1>2, <1>3, <1>4, <1>7, <1>10
<1>14. Len(txFifo') <= FifoSize
  BY <1>2, <1>4, <1>10
<1>15. OutInOrder'
  <2>1. /\ tx_buf' = tx_buf /\ tx_in' = tx_in /\ sent' = sent /\ taken' = taken
        /\ Fill(tx_in', tx_out') = f - w
    BY <1>1, <1>6
  <2>. QED  BY ONLY <2>1, <1>3, <1>4, <1>11, <1>12, <1>13 DEF OutInOrder
<1>. QED  BY <1>4, <1>6, <1>10, <1>14, <1>15 DEF f, w

(* What it puts into the other ring is the head of the device's FIFO, and  *)
(* it goes behind what is there.                                           *)
LEMMA InterruptReads ==
    ASSUME UartInv, Interrupt
    PROVE  /\ InInOrder'
           /\ rx_in' \in Bytes /\ rx_buf' \in [Bytes -> Chars]
           /\ rxFifo' \in Seq(Chars) /\ Len(rxFifo') <= FifoSize
           /\ Reads \in Nat
           /\ Fill(rx_in', rx_out) = Fill(rx_in, rx_out) + Reads
<1>. DEFINE r == Reads
            g == Fill(rx_in, rx_out)
            L == Len(rxFifo)
<1>1. /\ RingTypes /\ StreamTypes /\ InInOrder
      /\ UNCHANGED <<rx_out, typed, read>>
      /\ rx_buf' = [b \in Bytes |->
                      IF \E k \in 1 .. r : b = Wrap(rx_in + k - 1)
                      THEN rxFifo[CHOOSE k \in 1 .. r : b = Wrap(rx_in + k - 1)]
                      ELSE rx_buf[b]]
      /\ rx_in' = Wrap(rx_in + r)
      /\ rxFifo' = SubSeq(rxFifo, r + 1, L)
  BY DEF UartInv, Interrupt, streams
<1>2. /\ rx_in \in Bytes /\ rx_out \in Bytes /\ rx_buf \in [Bytes -> Chars]
      /\ rxFifo \in Seq(Chars) /\ L \in Nat /\ L <= FifoSize
      /\ FifoSize \in Nat /\ BUF_LEN \in Nat /\ rx_in \in Nat
  BY <1>1, JtagUartAssumption DEF RingTypes, StreamTypes, Bytes
<1>3. g \in Nat /\ BUF_LEN - 1 - g \in Nat
  BY <1>2, Fills
<1>4. r \in Nat /\ g + r <= BUF_LEN - 1 /\ r <= L
  <2>1. RoomFor = BUF_LEN - 1 - g
    BY DEF RoomFor
  <2>2. r = 0 \/ r = Least(BUF_LEN - 1 - g, L)
    BY <2>1 DEF Reads
  <2>. HIDE DEF g, r
  <2>3. LET m == Least(BUF_LEN - 1 - g, L)
        IN  m \in Nat /\ m <= BUF_LEN - 1 - g /\ m <= L
    BY <1>2, <1>3, Leasts
  <2>. QED  BY <2>2, <2>3, <1>2, <1>3
<1>. HIDE DEF r
<1>5. /\ rx_in' \in Bytes /\ Fill(rx_in', rx_out) = g + r
      /\ \A k \in 0 .. r - 1 : Wrap(rx_in + k) = Wrap(rx_out + (g + k))
  BY <1>1, <1>2, <1>3, <1>4, RingPut
<1>6. /\ typed = g + L
      /\ \A k \in 0 .. g - 1 : rx_buf[Wrap(rx_out + k)] = Number(read, k)
      /\ \A k \in 1 .. L : rxFifo[k] = Number(read, g + k - 1)
  BY <1>1 DEF InInOrder
<1>. HIDE DEF g
<1>7. ASSUME NEW k \in 1 .. r
      PROVE  /\ k - 1 \in 0 .. r - 1 /\ rx_in + k - 1 = rx_in + (k - 1)
             /\ k \in 1 .. L /\ g + (k - 1) \in Bytes
  BY <1>2, <1>3, <1>4 DEF Bytes
<1>8. ASSUME NEW j \in 1 .. r, NEW k \in 1 .. r,
             Wrap(rx_in + j - 1) = Wrap(rx_in + k - 1)
      PROVE  j = k
  <2>1. Wrap(rx_out + (g + (j - 1))) = Wrap(rx_out + (g + (k - 1)))
    BY <1>5, <1>7, <1>8
  <2>2. g + (j - 1) = g + (k - 1)
    BY <2>1, <1>2, <1>7, Apart
  <2>. QED  BY <2>2, <1>3
<1>9. ASSUME NEW j \in 1 .. r
      PROVE  rx_buf'[Wrap(rx_in + j - 1)] = rxFifo[j]
  <2>. DEFINE b == Wrap(rx_in + j - 1)
              c == CHOOSE k \in 1 .. r : b = Wrap(rx_in + k - 1)
  <2>1. b \in Bytes
    <3>1. b = Wrap(rx_out + (g + (j - 1)))
      BY <1>5, <1>7
    <3>. QED  BY <3>1, <1>2, <1>7, Apart
  <2>2. c \in 1 .. r /\ b = Wrap(rx_in + c - 1)
    OBVIOUS
  <2>3. c = j
    BY <2>2, <1>8
  <2>4. rx_buf'[b] = rxFifo[c]
    BY <2>1, <1>1
  <2>. QED  BY <2>3, <2>4
<1>10. ASSUME NEW b \in Bytes, \A k \in 1 .. r : b # Wrap(rx_in + k - 1)
       PROVE  rx_buf'[b] = rx_buf[b]
  BY <1>1, <1>10
<1>11. rx_buf' \in [Bytes -> Chars]
  <2>1. ASSUME NEW b \in Bytes
        PROVE  rx_buf'[b] \in Chars
    <3>1. CASE \E k \in 1 .. r : b = Wrap(rx_in + k - 1)
      <4>1. PICK k \in 1 .. r : b = Wrap(rx_in + k - 1)
        BY <3>1
      <4>2. rx_buf'[b] = rxFifo[k] /\ rxFifo[k] \in Chars
        BY <4>1, <1>2, <1>7, <1>9
      <4>. QED  BY <4>2
    <3>2. CASE ~ \E k \in 1 .. r : b = Wrap(rx_in + k - 1)
      BY <3>2, <1>2, <1>10
    <3>. QED  BY <3>1, <3>2
  <2>2. rx_buf' = [b \in Bytes |-> rx_buf'[b]]
    BY <1>1
  <2>. QED  BY <2>1, <2>2
<1>12. ASSUME NEW k \in 0 .. g + r - 1
       PROVE  rx_buf'[Wrap(rx_out + k)] = Number(read, k)
  <2>1. k \in Bytes /\ Wrap(rx_out + k) \in Bytes
    <3>1. k \in Bytes
      BY <1>2, <1>3, <1>4 DEF Bytes
    <3>. QED  BY <3>1, <1>2, Apart
  <2>2. CASE k < g
    <3>1. ASSUME NEW j \in 1 .. r
          PROVE  Wrap(rx_out + k) # Wrap(rx_in + j - 1)
      <4>1. g + (j - 1) # k
        BY <2>2, <1>3
      <4>2. Wrap(rx_out + k) # Wrap(rx_out + (g + (j - 1)))
        BY <4>1, <2>1, <1>2, <1>7, Apart
      <4>. QED  BY <4>2, <1>5, <1>7
    <3>2. k \in 0 .. g - 1
      BY <2>2, <1>3
    <3>. QED  BY <3>1, <3>2, <2>1, <1>6, <1>10
  <2>3. CASE k >= g
    <3>1. PICK j \in 1 .. r : k = g + (j - 1)
      <4>1. k - g + 1 \in 1 .. r /\ k = g + ((k - g + 1) - 1)
        BY <2>3, <1>3, <1>4
      <4>. QED  BY <4>1
    <3>2. Wrap(rx_out + k) = Wrap(rx_in + j - 1)
      BY <3>1, <1>5, <1>7
    <3>3. rxFifo[j] = Number(read, g + j - 1) /\ g + j - 1 = k
      BY <3>1, <1>3, <1>6, <1>7
    <3>. QED  BY <3>2, <3>3, <1>9
  <2>. QED  BY <2>2, <2>3, <1>3
<1>13. /\ rxFifo' \in Seq(Chars) /\ Len(rxFifo') = L - r
       /\ \A k \in 1 .. L - r : rxFifo'[k] = rxFifo[r + k]
  BY <1>1, <1>2, <1>4, Without
<1>14. ASSUME NEW k \in 1 .. L - r
       PROVE  rxFifo'[k] = Number(read, g + r + k - 1)
  <2>1. r + k \in 1 .. L /\ g + (r + k) - 1 = g + r + k - 1
    BY <1>2, <1>3, <1>4
  <2>. QED  BY <2>1, <1>6, <1>13
<1>15. typed = (g + r) + (L - r)
  BY <1>2, <1>3, <1>4, <1>6
<1>16. L - r <= FifoSize
  BY <1>2, <1>4
<1>. HIDE DEF L
<1>17. InInOrder'
  <2>1. /\ rx_out' = rx_out /\ typed' = typed /\ read' = read
        /\ Fill(rx_in', rx_out') = g + r /\ Len(rxFifo') = L - r
    BY <1>1, <1>5, <1>13
  <2>. QED  BY ONLY <2>1, <1>2, <1>3, <1>4, <1>12, <1>14, <1>15 DEF InInOrder
<1>. QED  BY <1>4, <1>5, <1>11, <1>13, <1>16, <1>17 DEF g, r

LEMMA InterruptOK ==
    ASSUME UartInv, Interrupt
    PROVE  UartInv'
<1>1. /\ ThreadTypes /\ RingTypes /\ StreamTypes /\ Snapshot /\ NoLostWakeup
      /\ UNCHANGED <<pc, nonblock, count, moved, seen, tx_buf, tx_in, rx_out,
                     sent, taken, typed, read>>
      /\ irq_enable' = irq_enable \ ((IF MasksReading THEN {"RE"} ELSE {})
                                     \union (IF MasksWriting THEN {"WE"} ELSE {}))
  BY DEF UartInv, Interrupt, thread, streams
<1>2. /\ OutInOrder' /\ tx_out' \in Bytes /\ txFifo' \in Seq(Chars)
      /\ Len(txFifo') <= FifoSize /\ Writes \in Nat
      /\ Fill(tx_in, tx_out') = Fill(tx_in, tx_out) - Writes
  BY InterruptWrites
<1>3. /\ InInOrder' /\ rx_in' \in Bytes /\ rx_buf' \in [Bytes -> Chars]
      /\ rxFifo' \in Seq(Chars) /\ Len(rxFifo') <= FifoSize /\ Reads \in Nat
      /\ Fill(rx_in', rx_out) = Fill(rx_in, rx_out) + Reads
  BY InterruptReads
<1>4. /\ tx_in \in Bytes /\ tx_out \in Bytes /\ rx_in \in Bytes /\ rx_out \in Bytes
      /\ seen \in Bytes
  BY <1>1 DEF RingTypes, ThreadTypes
<1>5. /\ Fill(tx_in, tx_out) \in Nat /\ Fill(tx_in, seen) \in Nat
      /\ Fill(rx_in, rx_out) \in Nat /\ Fill(seen, rx_out) \in Nat
  BY <1>4, Fills
<1>6. ThreadTypes' /\ RingTypes' /\ StreamTypes'
  BY <1>1, <1>2, <1>3 DEF ThreadTypes, RingTypes, StreamTypes
<1>7. Snapshot'
  <2>1. pc = "copyOut" => Fill(tx_in, tx_out') <= Fill(tx_in, seen)
    BY <1>1, <1>2, <1>5 DEF Snapshot
  <2>2. pc = "copyIn" => Fill(seen, rx_out) <= Fill(rx_in', rx_out)
    BY <1>1, <1>3, <1>5 DEF Snapshot
  <2>. QED  BY ONLY <2>1, <2>2, <1>1 DEF Snapshot
<1>8. tx_in = tx_out' \/ "WE" \in irq_enable' \/ pc \in {"fill", "copyOut", "kick"}
  <2>1. CASE WI /\ ~MasksWriting
    BY <2>1, <1>1 DEF WI
  <2>2. CASE MasksWriting
    <3>1. Writes = Fill(tx_in, tx_out)
      <4>1. SpaceInFifo \in Int
        BY <1>1, JtagUartAssumption DEF SpaceInFifo, StreamTypes
      <4>. QED  BY <4>1, <2>2, <1>5 DEF MasksWriting, Writes, Least
    <3>. QED  BY <3>1, <1>2, <1>4, <1>5, Fills
  <2>3. CASE ~WI
    <3>1. Writes = 0 /\ ~MasksWriting
      BY <2>3 DEF Writes, MasksWriting
    <3>2. "WE" \in irq_enable => "WE" \in irq_enable'
      BY <3>1, <1>1
    <3>3. tx_in = tx_out => tx_in = tx_out'
      BY <3>1, <1>2, <1>4, Fills
    <3>. QED  BY <3>2, <3>3, <1>1 DEF NoLostWakeup
  <2>. QED  BY <2>1, <2>2, <2>3 DEF MasksWriting
<1>9. \/ "RE" \in irq_enable' \/ rx_in' # rx_out \/ pc = "enable"
      \/ (pc = "empty" /\ moved)
  <2>1. CASE MasksReading
    <3>1. Reads = BUF_LEN - 1 - Fill(rx_in, rx_out)
      BY <2>1 DEF MasksReading, RoomFor
    <3>2. Fill(rx_in', rx_out) # 0
      BY <3>1, <1>3, <1>5, JtagUartAssumption
    <3>. QED  BY <3>2, <1>3, <1>4, Fills
  <2>2. CASE ~MasksReading
    <3>1. "RE" \in irq_enable => "RE" \in irq_enable'
      BY <2>2, <1>1
    <3>2. rx_in # rx_out => rx_in' # rx_out
      <4>1. Fill(rx_in, rx_out) # 0 => Fill(rx_in', rx_out) # 0
        BY <1>3, <1>5
      <4>. QED  BY <4>1, <1>3, <1>4, Fills
    <3>. QED  BY <3>1, <3>2, <1>1 DEF NoLostWakeup
  <2>. QED  BY <2>1, <2>2
<1>10. NoLostWakeup'
  BY ONLY <1>1, <1>8, <1>9 DEF NoLostWakeup
<1>. QED  BY <1>2, <1>3, <1>6, <1>7, <1>10 DEF UartInv

LEMMA HostTakesOK ==
    ASSUME UartInv, HostTakes
    PROVE  UartInv'
<1>. DEFINE L == Len(txFifo)
            f == Fill(tx_in, tx_out)
<1>1. /\ ThreadTypes /\ RingTypes /\ StreamTypes /\ OutInOrder /\ InInOrder
      /\ Snapshot /\ NoLostWakeup
      /\ UNCHANGED <<thread, tx, rx, irq_enable, rxFifo, typed, read>>
      /\ txFifo # <<>> /\ txFifo' = Tail(txFifo)
      /\ taken' = Number(taken, 1) /\ sent' = sent - 1
  BY DEF UartInv, HostTakes
<1>2. /\ txFifo \in Seq(Chars) /\ taken \in Nat /\ sent \in Nat /\ L \in Nat
      /\ L <= FifoSize /\ FifoSize \in Nat /\ tx_in \in Bytes /\ tx_out \in Bytes
  BY <1>1, JtagUartAssumption DEF StreamTypes, RingTypes, Chars
<1>3. /\ txFifo' \in Seq(Chars) /\ Len(txFifo') = L - 1 /\ L >= 1
      /\ \A k \in 1 .. L - 1 : txFifo'[k] = txFifo[k + 1]
  BY <1>1, <1>2
<1>4. /\ sent = L + f /\ f \in Nat
      /\ \A k \in 1 .. L : txFifo[k] = Number(taken, k - 1)
      /\ \A k \in 0 .. f - 1 : tx_buf[Wrap(tx_out + k)] = Number(taken, L + k)
  BY <1>1, <1>2, Fills DEF OutInOrder
<1>. HIDE DEF L, f
<1>5. /\ taken' \in Chars
      /\ \A b \in Nat : Number(taken', b) = Number(taken, 1 + b)
  BY <1>1, <1>2, NumberAdds
<1>6. ASSUME NEW k \in 1 .. L - 1
      PROVE  txFifo'[k] = Number(taken', k - 1)
  <2>1. k + 1 \in 1 .. L /\ k - 1 \in Nat /\ 1 + (k - 1) = (k + 1) - 1
    BY <1>2, <1>3
  <2>. QED  BY <2>1, <1>3, <1>4, <1>5
<1>7. ASSUME NEW k \in 0 .. f - 1
      PROVE  tx_buf[Wrap(tx_out + k)] = Number(taken', (L - 1) + k)
  <2>1. (L - 1) + k \in Nat /\ 1 + ((L - 1) + k) = L + k
    BY <1>2, <1>3, <1>4
  <2>. QED  BY <2>1, <1>4, <1>5
<1>8. OutInOrder'
  <2>1. /\ tx_buf' = tx_buf /\ tx_out' = tx_out /\ tx_in' = tx_in
        /\ Fill(tx_in', tx_out') = f
    BY <1>1 DEF tx, f
  <2>2. sent' = (L - 1) + f
    BY <1>1, <1>2, <1>4
  <2>. QED  BY ONLY <2>1, <2>2, <1>2, <1>3, <1>4, <1>6, <1>7 DEF OutInOrder
<1>9. InInOrder'
  BY <1>1 DEF InInOrder, rx
<1>10. sent' \in Nat /\ Len(txFifo') <= FifoSize
  BY <1>1, <1>2, <1>3, <1>4
<1>11. ThreadTypes' /\ RingTypes' /\ StreamTypes'
  BY <1>1, <1>3, <1>5, <1>10 DEF ThreadTypes, RingTypes, StreamTypes, thread, tx, rx
<1>12. Snapshot' /\ NoLostWakeup'
  BY <1>1 DEF Snapshot, NoLostWakeup, thread, tx, rx
<1>. QED  BY <1>8, <1>9, <1>11, <1>12 DEF UartInv

LEMMA HostTypesOK ==
    ASSUME UartInv, HostTypes
    PROVE  UartInv'
<1>. DEFINE L == Len(rxFifo)
            g == Fill(rx_in, rx_out)
            c == Number(read, typed)
<1>1. /\ ThreadTypes /\ RingTypes /\ StreamTypes /\ OutInOrder /\ InInOrder
      /\ Snapshot /\ NoLostWakeup
      /\ UNCHANGED <<thread, tx, rx, irq_enable, txFifo, sent, taken, read>>
      /\ L < FifoSize /\ rxFifo' = Append(rxFifo, c) /\ typed' = typed + 1
  BY DEF UartInv, HostTypes
<1>2. /\ rxFifo \in Seq(Chars) /\ read \in Nat /\ typed \in Nat /\ L \in Nat
      /\ FifoSize \in Nat /\ rx_in \in Bytes /\ rx_out \in Bytes
  BY <1>1, JtagUartAssumption DEF StreamTypes, RingTypes, Chars
<1>3. c \in Chars
  <2>1. 0 \in Nat
    OBVIOUS
  <2>. QED  BY <1>2, NumberAdds
<1>4. /\ rxFifo' \in Seq(Chars) /\ Len(rxFifo') = L + 1
      /\ \A k \in 1 .. L : rxFifo'[k] = rxFifo[k]
      /\ rxFifo'[L + 1] = c
  <2>. HIDE DEF c
  <2>. QED  BY <1>1, <1>2, <1>3
<1>5. /\ typed = g + L /\ g \in Nat
      /\ \A k \in 1 .. L : rxFifo[k] = Number(read, g + k - 1)
  BY <1>1, <1>2, Fills DEF InInOrder
<1>. HIDE DEF L, g
<1>6. ASSUME NEW k \in 1 .. L + 1
      PROVE  rxFifo'[k] = Number(read, g + k - 1)
  <2>1. CASE k = L + 1
    <3>1. g + k - 1 = typed
      BY <2>1, <1>2, <1>5
    <3>. QED  BY <2>1, <3>1, <1>4
  <2>2. CASE k # L + 1
    <3>1. k \in 1 .. L
      BY <2>2, <1>2
    <3>. QED  BY <3>1, <1>4, <1>5
  <2>. QED  BY <2>1, <2>2
<1>7. InInOrder'
  <2>1. /\ rx_buf' = rx_buf /\ rx_in' = rx_in /\ rx_out' = rx_out /\ read' = read
        /\ Fill(rx_in', rx_out') = g
    BY <1>1 DEF rx, g
  <2>2. typed' = g + (L + 1)
    BY <1>1, <1>2, <1>5
  <2>3. \A k \in 0 .. g - 1 : rx_buf[Wrap(rx_out + k)] = Number(read, k)
    BY <1>1 DEF InInOrder, g
  <2>. QED  BY ONLY <2>1, <2>2, <2>3, <1>2, <1>4, <1>5, <1>6 DEF InInOrder
<1>8. OutInOrder'
  BY <1>1 DEF OutInOrder, tx
<1>9. typed' \in Nat /\ Len(rxFifo') <= FifoSize
  BY <1>1, <1>2, <1>4 DEF L
<1>10. ThreadTypes' /\ RingTypes' /\ StreamTypes'
  BY <1>1, <1>4, <1>9 DEF ThreadTypes, RingTypes, StreamTypes, thread, tx, rx
<1>11. Snapshot' /\ NoLostWakeup'
  BY <1>1 DEF Snapshot, NoLostWakeup, thread, tx, rx
<1>. QED  BY <1>7, <1>8, <1>10, <1>11 DEF UartInv

-----------------------------------------------------------------------------
(***************************************************************************)
(* The steps that move none: the thread looks, waits, turns interrupts on; *)
(* the alarm.                                                              *)
(***************************************************************************)
Moves == WriteCopy \/ ReadCopy \/ Interrupt \/ HostTakes \/ HostTypes

LEMMA StreamsStay ==
    ASSUME UartInv, UNCHANGED <<tx, rx, txFifo, rxFifo, streams>>
    PROVE  OutInOrder' /\ InInOrder' /\ StreamTypes'
BY DEF UartInv, OutInOrder, InInOrder, StreamTypes, tx, rx, streams

LEMMA ThreadTypesStay ==
    ASSUME ThreadTypes,
           EndCall \/ (/\ pc' \in {"spinOut", "fill", "spinIn", "empty"}
                      /\ UNCHANGED locals)
    PROVE  ThreadTypes'
<1>1. CASE EndCall
  <2>1. 0 \in Bytes
    BY JtagUartAssumption DEF Bytes
  <2>. QED  BY <1>1, <2>1 DEF ThreadTypes, EndCall
<1>2. CASE pc' \in {"spinOut", "fill", "spinIn", "empty"} /\ UNCHANGED locals
  BY <1>2 DEF ThreadTypes, locals
<1>. QED  BY <1>1, <1>2

LEMMA RestOK ==
    ASSUME UartInv, [Next]_vars, ~Moves
    PROVE  UartInv'
<1>1. UNCHANGED <<tx, rx, txFifo, rxFifo, streams>>
  BY DEF Next, Goes, Moves, Call, WriteSnapshot, WriteKick, WriteSpin, WriteSpun,
         ReadSnapshot, ReadEnable, ReadNothing, ReadSpin, ReadSpun, CloseUart,
         SetTimeout, Timeout, device, vars
<1>2. OutInOrder' /\ InInOrder' /\ StreamTypes'
  BY <1>1, StreamsStay
<1>3. /\ ThreadTypes /\ RingTypes /\ Snapshot /\ NoLostWakeup
      /\ UNCHANGED <<tx_buf, tx_in, tx_out, rx_buf, rx_in, rx_out>>
  BY <1>1 DEF UartInv, tx, rx
<1>4. MaxCount \in Nat /\ 0 \in Bytes
  BY JtagUartAssumption DEF Bytes
<1>5. ThreadTypes' /\ RingTypes' /\ Snapshot' /\ NoLostWakeup'
  <2>1. CASE Call
    BY <2>1, <1>3, <1>4 DEF Call, ThreadTypes, RingTypes, Snapshot, NoLostWakeup
  <2>2. CASE WriteSnapshot
    <3>1. /\ pc = "fill" /\ pc' \in {"kick", "copyOut"} /\ seen' = tx_out
          /\ UNCHANGED <<nonblock, count, moved, irq_enable>>
      BY <2>2 DEF WriteSnapshot
    <3>2. Fill(tx_in, tx_out) <= Fill(tx_in, tx_out)
      <4>1. Fill(tx_in, tx_out) \in Int
        BY <1>3, Fills DEF RingTypes
      <4>. QED  BY <4>1
    <3>3. Snapshot'
      BY <3>1, <3>2, <1>3 DEF Snapshot
    <3>. QED  BY <3>1, <3>3, <1>3 DEF ThreadTypes, RingTypes, NoLostWakeup
  <2>3. CASE WriteKick
    <3>1. /\ pc = "kick" /\ irq_enable' = irq_enable \union {"WE"}
          /\ EndCall \/ (pc' = "spinOut" /\ UNCHANGED locals)
      BY <2>3 DEF WriteKick
    <3>2. ThreadTypes'
      BY ONLY <3>1, <1>3, ThreadTypesStay
    <3>3. RingTypes'
      BY <3>1, <1>3 DEF RingTypes
    <3>4. Snapshot' /\ NoLostWakeup'
      BY <3>1, <1>3 DEF Snapshot, NoLostWakeup, EndCall
    <3>. QED  BY <3>2, <3>3, <3>4
  <2>4. CASE WriteSpin
    BY <2>4, <1>3 DEF WriteSpin, locals, ThreadTypes, RingTypes, Snapshot, NoLostWakeup
  <2>5. CASE WriteSpun
    <3>1. /\ pc = "spunOut" /\ irq_enable' = irq_enable
          /\ EndCall \/ (pc' = "fill" /\ UNCHANGED locals)
      BY <2>5 DEF WriteSpun
    <3>2. ThreadTypes'
      BY ONLY <3>1, <1>3, ThreadTypesStay
    <3>3. RingTypes'
      BY <3>1, <1>3 DEF RingTypes
    <3>4. Snapshot' /\ NoLostWakeup'
      BY <3>1, <1>3 DEF Snapshot, NoLostWakeup, EndCall
    <3>. QED  BY <3>2, <3>3, <3>4
  <2>6. CASE ReadSnapshot
    <3>1. /\ pc = "empty" /\ seen' = rx_in
          /\ pc' = IF rx_in # rx_out THEN "copyIn"
                   ELSE IF moved THEN "enable" ELSE "nothing"
          /\ UNCHANGED <<nonblock, count, moved, irq_enable>>
      BY <2>6 DEF ReadSnapshot
    <3>2. Fill(rx_in, rx_out) <= Fill(rx_in, rx_out)
      <4>1. Fill(rx_in, rx_out) \in Int
        BY <1>3, Fills DEF RingTypes
      <4>. QED  BY <4>1
    <3>3. Snapshot'
      BY <3>1, <3>2, <1>3 DEF Snapshot
    <3>. QED  BY <3>1, <3>3, <1>3 DEF ThreadTypes, RingTypes, NoLostWakeup
  <2>7. CASE ReadEnable
    BY <2>7, <1>3, <1>4 DEF ReadEnable, EndCall, ThreadTypes, RingTypes, Snapshot,
                      NoLostWakeup
  <2>8. CASE ReadNothing
    <3>1. /\ pc = "nothing" /\ irq_enable' = irq_enable
          /\ EndCall \/ (pc' = "spinIn" /\ UNCHANGED locals)
      BY <2>8 DEF ReadNothing
    <3>2. ThreadTypes'
      BY ONLY <3>1, <1>3, ThreadTypesStay
    <3>3. RingTypes'
      BY <3>1, <1>3 DEF RingTypes
    <3>4. Snapshot' /\ NoLostWakeup'
      BY <3>1, <1>3 DEF Snapshot, NoLostWakeup, EndCall
    <3>. QED  BY <3>2, <3>3, <3>4
  <2>9. CASE ReadSpin
    BY <2>9, <1>3 DEF ReadSpin, locals, ThreadTypes, RingTypes, Snapshot, NoLostWakeup
  <2>10. CASE ReadSpun
    <3>1. /\ pc = "spunIn" /\ irq_enable' = irq_enable
          /\ EndCall \/ (pc' = "empty" /\ UNCHANGED locals)
      BY <2>10 DEF ReadSpun
    <3>2. ThreadTypes'
      BY ONLY <3>1, <1>3, ThreadTypesStay
    <3>3. RingTypes'
      BY <3>1, <1>3 DEF RingTypes
    <3>4. Snapshot' /\ NoLostWakeup'
      BY <3>1, <1>3 DEF Snapshot, NoLostWakeup, EndCall
    <3>. QED  BY <3>2, <3>3, <3>4
  <2>11. CASE CloseUart
    BY <2>11, <1>3, <1>4 DEF CloseUart, EndCall, ThreadTypes, RingTypes, Snapshot, NoLostWakeup
  <2>12. CASE SetTimeout
    BY <2>12, <1>3 DEF SetTimeout, thread, ThreadTypes, RingTypes, Snapshot,
                       NoLostWakeup
  <2>13. CASE Timeout
    BY <2>13, <1>3 DEF Timeout, thread, ThreadTypes, RingTypes, Snapshot, NoLostWakeup
  <2>14. CASE UNCHANGED vars
    BY <2>14, <1>3 DEF vars, thread, ThreadTypes, RingTypes, Snapshot, NoLostWakeup
  <2>. QED  BY <2>1, <2>2, <2>3, <2>4, <2>5, <2>6, <2>7, <2>8, <2>9, <2>10, <2>11,
               <2>12, <2>13, <2>14 DEF Next, Goes, Moves
<1>. QED  BY <1>2, <1>5 DEF UartInv

LEMMA UartInitOK ==
    ASSUME Init
    PROVE  UartInv
<1>1. Numbers \in Nat /\ BUF_LEN \in Nat /\ Numbers >= 1 /\ BUF_LEN >= 2 /\ FifoSize \in Nat
  BY JtagUartAssumption
<1>2. 0 \in Bytes /\ 0 \in Chars /\ Fill(0, 0) = 0
  BY <1>1 DEF Bytes, Chars, Fill
<1>3. /\ tx_buf = [b \in Bytes |-> 0] /\ rx_buf = [b \in Bytes |-> 0]
      /\ tx_in = 0 /\ tx_out = 0 /\ rx_in = 0 /\ rx_out = 0
      /\ txFifo = <<>> /\ rxFifo = <<>> /\ sent = 0 /\ taken = 0 /\ typed = 0 /\ read = 0
      /\ pc = "idle" /\ nonblock = FALSE /\ count = 0 /\ moved = FALSE /\ seen = 0
      /\ irq_enable = {"RE"}
  BY DEF Init
<1>4. OutInOrder /\ InInOrder
  BY <1>2, <1>3 DEF OutInOrder, InInOrder
<1>5. ThreadTypes /\ Snapshot /\ NoLostWakeup
  BY <1>2, <1>3 DEF ThreadTypes, Snapshot, NoLostWakeup
<1>6. RingTypes
  BY <1>2, <1>3 DEF RingTypes
<1>7. StreamTypes
  BY <1>1, <1>2, <1>3 DEF StreamTypes
<1>. QED  BY <1>4, <1>5, <1>6, <1>7 DEF UartInv

LEMMA UartInvariant == Spec => []UartInv
<1>1. Init => UartInv
  BY UartInitOK
<1>2. UartInv /\ [Next]_vars => UartInv'
  BY WriteCopyOK, ReadCopyOK, InterruptOK, HostTakesOK, HostTypesOK, RestOK DEF Moves
<1>. QED  BY <1>1, <1>2, PTL DEF Spec

-----------------------------------------------------------------------------
(***************************************************************************)
(* The two theorems.                                                       *)
(***************************************************************************)
(* What the slots hold is what InOrder says of the two streams as a whole. *)
LEMMA SlotsInOrder ==
    ASSUME UartInv
    PROVE  InOrder
<1>. DEFINE q == Waiting(tx_buf, tx_in, tx_out)
            f == Fill(tx_in, tx_out)
            L == Len(txFifo)
            p == Waiting(rx_buf, rx_in, rx_out)
            g == Fill(rx_in, rx_out)
            M == Len(rxFifo)
<1>1. /\ RingTypes /\ StreamTypes
      /\ txFifo \in Seq(Chars) /\ rxFifo \in Seq(Chars) /\ L \in Nat /\ M \in Nat
      /\ tx_buf \in [Bytes -> Chars] /\ tx_in \in Bytes /\ tx_out \in Bytes
      /\ rx_buf \in [Bytes -> Chars] /\ rx_in \in Bytes /\ rx_out \in Bytes
  BY DEF UartInv, StreamTypes, RingTypes
<1>2. /\ q \in Seq(Chars) /\ Len(q) = f /\ f \in Nat
      /\ \A k \in 1 .. f : q[k] = tx_buf[Wrap(tx_out + (k - 1))]
  <2>1. f \in Nat
    BY <1>1, Fills
  <2>. QED  BY <2>1, <1>1, Waits
<1>3. /\ p \in Seq(Chars) /\ Len(p) = g /\ g \in Nat
      /\ \A k \in 1 .. g : p[k] = rx_buf[Wrap(rx_out + (k - 1))]
  <2>1. g \in Nat
    BY <1>1, Fills
  <2>. QED  BY <2>1, <1>1, Waits
<1>4. /\ sent = L + f
      /\ \A k \in 1 .. L : txFifo[k] = Number(taken, k - 1)
      /\ \A k \in 0 .. f - 1 : tx_buf[Wrap(tx_out + k)] = Number(taken, L + k)
  BY DEF UartInv, OutInOrder
<1>5. /\ typed = g + M
      /\ \A k \in 0 .. g - 1 : rx_buf[Wrap(rx_out + k)] = Number(read, k)
      /\ \A k \in 1 .. M : rxFifo[k] = Number(read, g + k - 1)
  BY DEF UartInv, InInOrder
<1>. HIDE DEF q, p
<1>6. /\ Len(txFifo \o q) = L + Len(q)
      /\ \A k \in 1 .. L : (txFifo \o q)[k] = txFifo[k]
      /\ \A k \in 1 .. Len(q) : (txFifo \o q)[L + k] = q[k]
  <2>1. txFifo \in Seq(Chars) /\ q \in Seq(Chars)
    BY <1>1, <1>2
  <2>. QED  BY ONLY <2>1, JoinedTo
<1>7. /\ Len(p \o rxFifo) = Len(p) + M
      /\ \A k \in 1 .. Len(p) : (p \o rxFifo)[k] = p[k]
      /\ \A k \in 1 .. M : (p \o rxFifo)[Len(p) + k] = rxFifo[k]
  <2>1. rxFifo \in Seq(Chars) /\ p \in Seq(Chars)
    BY <1>1, <1>3
  <2>. QED  BY ONLY <2>1, JoinedTo
<1>. HIDE DEF f, g, L, M
<1>8. Stream(txFifo \o q, taken, sent)
  <2>1. ASSUME NEW k \in 1 .. sent
        PROVE  (txFifo \o q)[k] = Number(taken, k - 1)
    <3>1. CASE k <= L
      <4>1. k \in 1 .. L
        BY <3>1, <1>1
      <4>. QED  BY <4>1, <1>4, <1>6
    <3>2. CASE k > L
      <4>1. PICK j \in 1 .. f : k = L + j
        <5>1. k - L \in 1 .. f /\ k = L + (k - L)
          BY <3>2, <1>1, <1>2, <1>4
        <5>. QED  BY <5>1
      <4>2. j - 1 \in 0 .. f - 1 /\ L + (j - 1) = k - 1
        BY <4>1, <1>1, <1>2
      <4>. QED  BY <4>1, <4>2, <1>2, <1>4, <1>6
    <3>3. k <= L \/ k > L
      BY <1>1
    <3>. QED  BY ONLY <3>1, <3>2, <3>3
  <2>. QED  BY <2>1, <1>2, <1>4, <1>6 DEF Stream
<1>9. Stream(p \o rxFifo, read, typed)
  <2>1. ASSUME NEW k \in 1 .. typed
        PROVE  (p \o rxFifo)[k] = Number(read, k - 1)
    <3>1. CASE k <= g
      <4>1. k \in 1 .. g /\ k - 1 \in 0 .. g - 1
        BY <3>1, <1>3
      <4>. QED  BY <4>1, <1>3, <1>5, <1>7
    <3>2. CASE k > g
      <4>1. PICK j \in 1 .. M : k = g + j
        <5>1. k - g \in 1 .. M /\ k = g + (k - g)
          BY <3>2, <1>1, <1>3, <1>5
        <5>. QED  BY <5>1
      <4>. QED  BY <4>1, <1>3, <1>5, <1>7
    <3>3. k <= g \/ k > g
      BY <1>3
    <3>. QED  BY ONLY <3>1, <3>2, <3>3
  <2>. QED  BY <2>1, <1>3, <1>5, <1>7 DEF Stream
<1>. QED  BY <1>8, <1>9 DEF InOrder, q, p

(* Every character written and not yet taken by the host is in the device  *)
(* or the ring, once and in its turn, and likewise every one typed and not *)
(* yet read, whatever the interrupt routine does inside a copying call     *)
(* (write.c:100-127, read.c:117-144, init.c:125-195).                      *)
THEOREM UartInOrder == Spec => []InOrder
BY UartInvariant, SlotsInOrder, PTL

(* An interrupt that is off has nothing to do, or the thread is about to   *)
(* turn it on (write.c:136-139, read.c:188-195, init.c:156-195).           *)
THEOREM UartNoLostWakeup == Spec => []NoLostWakeup
<1>1. UartInv => NoLostWakeup
  BY DEF UartInv
<1>. QED  BY UartInvariant, <1>1, PTL

=============================================================================
