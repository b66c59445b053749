------------------------------ MODULE Firmware ------------------------------
(***************************************************************************)
(* Four parts the keyboard software stands on that share no state: the     *)
(* alarms and the file descriptors of the board support package, its UART  *)
(* driver, and the bus to the USB controller. A behaviour exercises one of *)
(* them, the others rest in their initial state: what each may do is       *)
(* unchanged, and the states of the whole are the sum of the parts, not    *)
(* their product.                                                          *)
(***************************************************************************)
EXTENDS Alarms, Files, Hpi, JtagUart

VARIABLE part  \* the part that runs

firmware == <<alarmVars, fileVars, hpiVars, vars, part>>

FirmwareInit == /\ AlarmsInit /\ FilesInit /\ HpiInit /\ Init
                /\ part \in {"alarms", "files", "bus", "uart"}
                /\ part = "uart" \/ timeout = Forever

Others == \/ part = "files" /\ FilesNext /\ UNCHANGED <<alarmVars, hpiVars, vars, part>>
          \/ part = "bus"   /\ HpiNext   /\ UNCHANGED <<alarmVars, fileVars, vars, part>>
          \/ part = "uart"  /\ Next      /\ UNCHANGED <<alarmVars, fileVars, hpiVars, part>>

FirmwareNext ==
    \/ part = "alarms" /\ AlarmsNext  /\ UNCHANGED <<fileVars, hpiVars, vars, part>>
    \/ Others

(* The program starts and stops its alarms with the care Alarms names.      *)
WithCare ==
    \/ part = "alarms" /\ CarefulNext /\ UNCHANGED <<fileVars, hpiVars, vars, part>>
    \/ Others

\* The handler of the timer interrupt, once entered, runs on to its end; of
\* the UART driver the thread runs on within a call, a pending interrupt is
\* served, and the alarm comes.
FirmwareFairness == /\ WF_alarmVars(Walks)
                    /\ WF_vars(Goes /\ part = "uart")
                    /\ WF_vars(Interrupt /\ part = "uart")
                    /\ WF_vars(Timeout /\ part = "uart")

CarefulSpec == FirmwareInit /\ [][WithCare]_firmware /\ FirmwareFairness

\* A program that starts its alarms with care and stops them at will.
StartsWithCare == \A a \in Alarms, delay \in Delays :
                      Start(a, delay) => MayStart(a, delay)
StopsSpec == FirmwareInit /\ [][FirmwareNext /\ StartsWithCare]_firmware /\ FirmwareFairness
=============================================================================
