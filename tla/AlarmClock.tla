----------------------------- MODULE AlarmClock -----------------------------
(***************************************************************************)
(* What alt_tick promises of its alarms: each one rings in the tick it was *)
(* set for, and no tick begins while one that is due has not rung.         *)
(***************************************************************************)
EXTENDS Naturals

CONSTANTS Alarms, Span, Delays, Periods, Off, NoOne

VARIABLES left,      \* the ticks until each alarm rings, or Off
          ringing    \* the alarm whose callback runs, or NoOne

vars == <<left, ringing>>

Init == left = [a \in Alarms |-> Off] /\ ringing = NoOne

Tick == /\ ringing = NoOne
        /\ \A a \in Alarms : left[a] # 0
        /\ left' = [a \in Alarms |-> IF left[a] = Off THEN Off ELSE left[a] - 1]
        /\ UNCHANGED ringing

(* The tick under way when an alarm is set does not count.                 *)
Start(a, delay) == /\ left[a] = Off /\ ringing # a
                   /\ left' = [left EXCEPT ![a] = delay + 1]
                   /\ UNCHANGED ringing

Stop(a) == left' = [left EXCEPT ![a] = Off] /\ UNCHANGED ringing

Ring(a) == /\ ringing = NoOne /\ left[a] = 0
           /\ ringing' = a
           /\ UNCHANGED left

(* The callback says when to ring again; 0, or a stop by itself, ends it.  *)
Return(a, period) ==
    /\ ringing = a
    /\ ringing' = NoOne
    /\ left' = [left EXCEPT ![a] = IF left[a] = Off \/ period = 0 THEN Off
                                   ELSE period]

Next == \/ Tick
        \/ \E a \in Alarms : \/ \E delay \in Delays : Start(a, delay)
                             \/ Stop(a)
                             \/ Ring(a)
                             \/ \E period \in Periods : Return(a, period)

Spec == Init /\ [][Next]_vars
=============================================================================
