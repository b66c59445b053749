-------------------------------- MODULE Rng --------------------------------
(***************************************************************************)
(* RNG.sv: four shift registers with linear feedback, one for each random  *)
(* bit, that take the switches as their seed while Reset is held. They run *)
(* on their own; one of them is modelled, with any seed: a Reset starts    *)
(* again from an initial state.                                            *)
(***************************************************************************)
EXTENDS Naturals, FiniteSets

\* The four modules: their width, the bits fed back, what follows zero.
LFSR_16 == [width |-> 16, taps |-> {0, 1, 3, 11}, escape |-> 13398]  \* 3456
LFSR_13 == [width |-> 13, taps |-> {0, 1, 2, 5},  escape |-> 4883]   \* 1313
LFSR_14 == [width |-> 14, taps |-> {0, 1, 2, 12}, escape |-> 5140]   \* 1414
LFSR_10 == [width |-> 10, taps |-> {0, 3},        escape |-> 170]    \* 0AA

VARIABLES lfsr,      \* which module
          lfsr_reg

rngVars == <<lfsr, lfsr_reg>>

RngInit == /\ lfsr \in {LFSR_16, LFSR_13, LFSR_14, LFSR_10}
           /\ lfsr_reg \in 0 .. 2 ^ lfsr.width - 1
-----------------------------------------------------------------------------
Bit(i)   == (lfsr_reg \div 2 ^ i) % 2
randbit  == Bit(0)
feedback == Cardinality({i \in lfsr.taps : Bit(i) = 1}) % 2

ShiftsOnly ==                                             \* mutant
    feedback * 2 ^ (lfsr.width - 1) + lfsr_reg \div 2
Shifted ==
    IF lfsr_reg = 0 THEN lfsr.escape
    ELSE feedback * 2 ^ (lfsr.width - 1) + lfsr_reg \div 2

RngClock == lfsr_reg' = Shifted /\ UNCHANGED lfsr
-----------------------------------------------------------------------------
(***************************************************************************)
(* No seed stops a register: the random bit takes both values for ever,    *)
(* also from the seed zero and from the seed of ones.                      *)
(***************************************************************************)
NeverSticks == []<>(randbit = 0) /\ []<>(randbit = 1)
=============================================================================
