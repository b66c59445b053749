------------------------------- MODULE Alarms -------------------------------
(***************************************************************************)
(* The alarms of the board support package (HAL/src/alt_tick.c,            *)
(* alt_alarm_start.c, inc/sys/alt_llist.h): a doubly linked list that each *)
(* tick of the system clock walks, calling back the alarms that are due.   *)
(*                                                                         *)
(* The walk is at interrupt level: only callbacks come between its steps.  *)
(* The program, and a callback, start and stop whatever alarms they like   *)
(* (AlarmsSpec). Three things the interface does not forbid go wrong, and  *)
(* CarefulAlarms is the program that does none of them: starting an alarm  *)
(* that is in the list, or whose callback runs; a delay of 2^32 - 1, whose *)
(* time is the current tick again; and a callback stopping the alarm that  *)
(* follows in the list, to which the walk already holds a pointer.         *)
(***************************************************************************)
EXTENDS Naturals

CONSTANTS Alarms,
          Span,       \* the values of alt_u32: 2^32
          Delays,     \* arguments of alt_alarm_start
          Periods,    \* what callbacks return; 0 stops the alarm
          AlarmList,       \* alt_alarm_list
          Null        \* links of an alarm that was never started

ASSUME AlarmsAssumption ==
    /\ AlarmList \notin Alarms /\ Null \notin Alarms /\ AlarmList # Null
    /\ Null \notin Nat
    /\ Span \in Nat \ {0}
    /\ \A delay \in Delays : delay \in Nat /\ delay < Span
    /\ \A period \in Periods : period \in Nat /\ period < Span

VARIABLES nticks, next, previous, time, rollover,
          alarm,      \* where the walk is; AlarmList: no tick is under way
          following,  \* `next` of alt_tick while a callback runs
          calling,    \* the callback of `alarm` runs
          behind      \* history: the alarms behind each one in the list

alarmVars == <<nticks, next, previous, time, rollover, alarm, following,
               calling, behind>>
links == <<next, previous, behind>>
walk  == <<alarm, following, calling>>

Nodes      == Alarms \union {AlarmList}
Wrapped(n) == IF n >= Span THEN n - Span ELSE n
Linked(a)  == next[a] \notin {Null, a}

AlarmsInit ==
    /\ nticks = 0
    /\ next = [a \in Nodes |-> IF a = AlarmList THEN AlarmList ELSE Null]
    /\ previous = next
    /\ time = [a \in Alarms |-> 0] /\ rollover = [a \in Alarms |-> FALSE]
    /\ alarm = AlarmList /\ following = AlarmList /\ calling = FALSE
    /\ behind = [a \in Alarms |-> {}]

(* alt_llist_insert: at the head.  alt_llist_remove: what is removed points*)
(* to itself, so that removing it again is harmless.                       *)
Insert(a) ==
    /\ next' = [next EXCEPT ![a] = next[AlarmList], ![AlarmList] = a]
    /\ previous' = [previous EXCEPT ![a] = AlarmList, ![next[AlarmList]] = a]
    /\ behind' = [behind EXCEPT ![a] = {b \in Alarms : Linked(b)}]

Remove(a) ==
    /\ next' = [next EXCEPT ![previous[a]] = next[a], ![a] = a]
    /\ previous' = [previous EXCEPT ![next[a]] = previous[a], ![a] = a]
    /\ behind' = [b \in Alarms |-> IF b = a THEN {} ELSE behind[b] \ {a}]

(* The program between two ticks, or a callback.                           *)
Program == alarm = AlarmList \/ calling

Start(a, delay) ==
    /\ Program
    /\ time' = [time EXCEPT ![a] = Wrapped(delay + nticks + 1)]
    /\ rollover' = [rollover EXCEPT ![a] = Wrapped(delay + nticks + 1) < nticks]
    /\ Insert(a)
    /\ UNCHANGED <<nticks, walk>>

(* An alarm that was never started has null links: it cannot be stopped.   *)
Stop(a) ==
    /\ Program
    /\ next[a] # Null
    /\ Remove(a)
    /\ UNCHANGED <<nticks, time, rollover, walk>>

(* alt_tick.                                                               *)
TickBegins ==
    /\ alarm = AlarmList
    /\ nticks' = Wrapped(nticks + 1)
    /\ alarm' = next[AlarmList]
    /\ UNCHANGED <<links, time, rollover, following, calling>>

ClearedLate(a) == rollover[a]                             \* mutant
StillOver(a)   == rollover[a] /\ nticks # 0
Expired(a)     == time[a] <= nticks /\ ~StillOver(a)

Visit ==
    /\ alarm # AlarmList /\ ~calling
    /\ rollover' = [rollover EXCEPT ![alarm] = StillOver(alarm)]
    /\ IF Expired(alarm)
       THEN calling' = TRUE /\ following' = next[alarm] /\ UNCHANGED alarm
       ELSE alarm' = next[alarm] /\ UNCHANGED <<calling, following>>
    /\ UNCHANGED <<nticks, links, time>>

Period(a, period) ==
    LET t == Wrapped(time[a] + period)
    IN  /\ time' = [time EXCEPT ![a] = t]
        /\ rollover' = [rollover EXCEPT ![a] = t < nticks \/ rollover[a]]

RereadsNext(period) ==                                    \* mutant
    /\ calling
    /\ IF period = 0
       THEN Remove(alarm) /\ UNCHANGED <<time, rollover>>
       ELSE Period(alarm, period) /\ UNCHANGED links
    /\ alarm' = next'[alarm] /\ following' = AlarmList /\ calling' = FALSE
    /\ UNCHANGED nticks
Return(period) ==
    /\ calling
    /\ IF period = 0
       THEN Remove(alarm) /\ UNCHANGED <<time, rollover>>
       ELSE Period(alarm, period) /\ UNCHANGED links
    /\ alarm' = following /\ following' = AlarmList /\ calling' = FALSE
    /\ UNCHANGED nticks

Walks == Visit \/ \E period \in Periods : Return(period)

AlarmsNext ==
    \/ TickBegins \/ Walks
    \/ \E a \in Alarms : Stop(a) \/ \E delay \in Delays : Start(a, delay)

AlarmsSpec == AlarmsInit /\ [][AlarmsNext]_alarmVars

(* The program that starts and stops alarms with care.                     *)
MayStart(a, delay) == ~Linked(a) /\ a # alarm /\ delay + 2 <= Span
MayStop(a) == a # following

CarefulNext ==
    \/ TickBegins \/ Walks
    \/ \E a \in Alarms :
          \/ MayStop(a) /\ Stop(a)
          \/ \E delay \in Delays : MayStart(a, delay) /\ Start(a, delay)

CarefulAlarms == AlarmsInit /\ [][CarefulNext]_alarmVars

-----------------------------------------------------------------------------
(* The ticks left until an alarm rings, from its time alone.               *)
Ahead(t) == IF t >= nticks THEN t - nticks ELSE t + Span - nticks
Left     == [a \in Alarms |-> IF Linked(a) THEN Ahead(time[a]) ELSE Null]

(* Every alarm of a careful program rings in the very tick it was set for, *)
(* on either side of the roll-over of the tick counter, and a stopped one  *)
(* not at all, though callbacks start alarms and stop others while the     *)
(* walk is in the list (alt_tick.c:100-141, alt_alarm_start.c:79-98). A    *)
(* callback that stops the alarm after its own breaks the promise: the     *)
(* walk goes on to the alarm that was taken out (alt_tick.c:102,140).      *)
Clock == INSTANCE AlarmClock WITH
             left <- Left, Off <- Null,
             ringing <- IF calling THEN alarm ELSE AlarmList, NoOne <- AlarmList
RingsOnTime == Clock!Spec

(* The walk comes to its end, with callbacks that take alarms out of the   *)
(* list under it, as long as the program is careful. (An alarm that is     *)
(* taken out points to itself, alt_llist.h:115-116: reached from a pointer *)
(* the walk held already, it keeps alt_tick in its loop for ever.)         *)
TicksEnd == []<>(alarm = AlarmList)
=============================================================================
