-------------------------------- MODULE Buff --------------------------------
(***************************************************************************)
(* buff.sv: what an item does to its player. Each pick-up makes one of the *)
(* four properties better or, for one random value in four, worse, within  *)
(* limits that are compared for equality. Character.sv, BombManager.sv and *)
(* explosion.sv take their steps, delays, cooldowns and sizes from here.   *)
(***************************************************************************)
EXTENDS Naturals

CONSTANT BuffSpan    \* the values of a ten-bit register: 2^10

ASSUME BuffAssumption == BuffSpan \in Nat /\ BuffSpan > 80

step_max == 5
step_min == 1
delay_max == 80
delay_min == 16
cooldown_max == 80
cooldown_min == 16

VARIABLES step, size, delay, cooldown,
          wasReset     \* history: Reset has been pressed since power-up

buffVars == <<step, size, delay, cooldown, wasReset>>

(* There is no initial block: the registers power up at 0.                 *)
BuffInit  == /\ step = 0 /\ size = 0 /\ delay = 0 /\ cooldown = 0
             /\ wasReset = FALSE
BuffReset == /\ step' = 3 /\ size' = 1 /\ delay' = 48 /\ cooldown' = 24
             /\ wasReset' = TRUE
-----------------------------------------------------------------------------
(* A register moves by n, unless it is at the limit on that side.          *)
More(v, n, limit) == IF v = limit THEN v ELSE (v + n) % BuffSpan
Less(v, n, limit) == IF v = limit THEN v ELSE (v + BuffSpan - n) % BuffSpan

ChangeStep(debuff) ==
    /\ step' = IF debuff THEN Less(step, 1, step_min) ELSE More(step, 1, step_max)
    /\ UNCHANGED <<size, delay, cooldown, wasReset>>

ChangeDelay(debuff) ==
    /\ delay' = IF debuff THEN More(delay, 8, delay_max) ELSE Less(delay, 8, delay_min)
    /\ UNCHANGED <<step, size, cooldown, wasReset>>

LimitsSwapped(debuff) ==                                  \* mutant
    /\ cooldown' = IF debuff THEN More(cooldown, 8, cooldown_min)
                   ELSE Less(cooldown, 8, cooldown_max)
    /\ UNCHANGED <<step, size, delay, wasReset>>
ChangeCooldown(debuff) ==
    /\ cooldown' = IF debuff THEN More(cooldown, 8, cooldown_max)
                   ELSE Less(cooldown, 8, cooldown_min)
    /\ UNCHANGED <<step, size, delay, wasReset>>

ChangeSize(debuff) ==
    /\ size' = IF debuff THEN IF size = 0 THEN size ELSE size - 1
               ELSE IF size = 3 THEN size ELSE size + 1
    /\ UNCHANGED <<step, delay, cooldown, wasReset>>

BuffNext == \/ BuffReset
            \/ \E debuff \in BOOLEAN : \/ ChangeStep(debuff) \/ ChangeDelay(debuff)
                                       \/ ChangeCooldown(debuff) \/ ChangeSize(debuff)

BuffSpec == BuffInit /\ [][BuffNext]_buffVars
-----------------------------------------------------------------------------
(***************************************************************************)
(* From the first Reset on, however many items are picked up and in        *)
(* whatever order, no property passes its limit: the steps of 8 meet the   *)
(* limits from the values Reset sets, which is what makes the comparison   *)
(* for equality (buff.sv:83-99) enough. A cooldown that passed below 0     *)
(* would stop a player from placing bombs, a step of 0 from moving. Before *)
(* the first Reset nothing is promised: the zeros of power-up are beyond   *)
(* the lower limits already, and an item can take them below 0. (A step of *)
(* 0 does keep a character off every item until then.)                     *)
(***************************************************************************)
BuffsInRange == wasReset =>
    /\ step \in step_min .. step_max /\ size \in 0 .. 3
    /\ delay \in delay_min .. delay_max /\ cooldown \in cooldown_min .. cooldown_max
=============================================================================
