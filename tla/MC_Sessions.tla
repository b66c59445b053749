---------------------------- MODULE MC_Sessions ----------------------------
(***************************************************************************)
(* Two kinds of sessions in one run: calm ones, in which nothing happens   *)
(* that the program is not made for, and any others.  The safety is asked  *)
(* of both, and that the keyboard is served in the end, of the calm ones.  *)
(***************************************************************************)
EXTENDS MC_UsbHost

VARIABLE calm

(* Bound: one fault or one removal where the session is not calm.          *)
Session == /\ Next
           /\ calm => ~upset'
           /\ ~calm => faults' + plugs' <= 1
           /\ UNCHANGED calm

SessionInit == Init /\ calm \in BOOLEAN

Sessions == SessionInit /\ [][Session]_<<vars, calm>> /\ Fairness

(* In a calm session a keyboard that stays is served in the end, and what  *)
(* it reports last gets to the hardware.                                   *)
CalmEnumerates  == calm => Enumerates
CalmLatestShown == calm => LatestReportShown
=============================================================================
