---------------------------- MODULE DeviceLocks ----------------------------
(***************************************************************************)
(* What exclusive access to a device promises. Spec is what the comments   *)
(* of alt_fd_lock.c and alt_file.h say: a descriptor that is the only one  *)
(* open on its device may claim it, no other descriptor of the device then *)
(* opens or claims it, until the claim is given back or its descriptor is  *)
(* closed. WeakSpec promises less of the claim: one other descriptor may   *)
(* be open on the device, numbered above the one that claims it.           *)
(***************************************************************************)
EXTENDS Naturals

CONSTANTS Devices, Descriptors
VARIABLES holders,  \* the open descriptors of each device
          owners    \* those that claimed it

lockVars == <<holders, owners>>

Init == /\ holders \in [Devices -> SUBSET Descriptors]
        /\ owners = [d \in Devices |-> {}]

Open(d, i) ==
    /\ owners[d] = {}
    /\ \A e \in Devices : i \notin holders[e]
    /\ holders' = [holders EXCEPT ![d] = @ \union {i}]
    /\ UNCHANGED owners

\* A descriptor of one device becomes a descriptor of another.
Move(d, e, i) ==
    /\ i \in holders[d] \ owners[d] /\ owners[e] = {}
    /\ holders' = [f \in Devices |-> IF f = e THEN holders[f] \union {i}
                                              ELSE holders[f] \ {i}]
    /\ UNCHANGED owners

Alone(d, i)     == holders[d] = {i}
OneAbove(d, i) == \A j, k \in holders[d] \ {i} : j = k /\ i < j

Claims(d, i) ==
    /\ i \in holders[d] /\ owners[d] = {}
    /\ owners' = [owners EXCEPT ![d] = {i}]
    /\ UNCHANGED holders

GiveBack(d, i) ==
    /\ owners[d] = {i}
    /\ owners' = [owners EXCEPT ![d] = {}]
    /\ UNCHANGED holders

Close(d, i) ==
    /\ i \in holders[d]
    /\ holders' = [holders EXCEPT ![d] = @ \ {i}]
    /\ owners' = [owners EXCEPT ![d] = @ \ {i}]

Besides(d, i) == \/ Open(d, i) \/ GiveBack(d, i) \/ Close(d, i)
                 \/ \E e \in Devices : Move(d, e, i)

Next == \E d \in Devices, i \in Descriptors :
            Besides(d, i) \/ (Alone(d, i) /\ Claims(d, i))
WeakNext == \E d \in Devices, i \in Descriptors :
            Besides(d, i) \/ (OneAbove(d, i) /\ Claims(d, i))

Spec     == Init /\ [][Next]_lockVars
WeakSpec == Init /\ [][WeakNext]_lockVars
=============================================================================
