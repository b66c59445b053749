------------------------------ MODULE KeySlots ------------------------------
(***************************************************************************)
(* The six key codes the software shows to the hardware, one register each *)
(* (keyA .. keyF), and what movement.sv makes of them.  A key code is a    *)
(* number, 0 where no key is.                                              *)
(***************************************************************************)
EXTENDS Naturals

CONSTANTS NSlots,        \* the registers of key codes: 6
          Codes,         \* what a register may hold
          Players,
          Directions,    \* the codes of the direction keys of each player
          BombKey        \* and of the key with which a bomb is placed

ASSUME KeySlotsAssumption ==
    /\ NSlots \in Nat \ {0}
    /\ 0 \in Codes
    /\ Directions \in [Players -> SUBSET (Codes \ {0})]
    /\ BombKey \in [Players -> Codes \ {0}]

Places == 1 .. NSlots
Rows   == [Places -> Codes]
Empty  == [i \in Places |-> 0]

(* The register that decides where player p moves: the last one that holds *)
(* one of his directions, for the case statements come one after another.  *)
Decides(row, p, i) == /\ row[i] \in Directions[p]
                      /\ \A j \in Places : j > i => row[j] \notin Directions[p]

Moves(row, p) == IF \E i \in Places : Decides(row, p, i)
                 THEN row[CHOOSE i \in Places : Decides(row, p, i)]
                 ELSE 0

PlacesBomb(row, p) == \E i \in Places : row[i] = BombKey[p]

(* Key d is in both reports and has not moved to a later place in the      *)
(* second one.  A keyboard adds a key behind those it already reports and  *)
(* closes the gap a released key leaves, so that held keys only move up.   *)
Held(old, new, d) == \E i, j \in Places : j <= i /\ old[i] = d /\ new[j] = d

(* d is the only direction player p holds in both reports.                 *)
HoldsOnly(old, new, p, d) ==
    /\ Held(old, new, d)
    /\ \A i \in Places : /\ old[i] \in Directions[p] => old[i] = d
                         /\ new[i] \in Directions[p] => new[i] = d

=============================================================================
