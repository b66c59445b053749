------------------------------ MODULE Players ------------------------------
(***************************************************************************)
(* What belongs to a player: the character, the points and colour of a     *)
(* hit, the items and what they do, and the random bits that choose what.  *)
(* They share no register: a behaviour exercises one of them, the others   *)
(* rest in an initial state, and the states of the whole are the sum of    *)
(* the parts, not their product.                                           *)
(***************************************************************************)
EXTENDS Character, Score, Buff, Items, Rng

VARIABLE part  \* the part that runs

registers == <<vars, scoreVars, buffVars, itemVars, rngVars, part>>

Alone(name, rest) == part = name /\ UNCHANGED <<rest, part>>

PlayersInit ==
    \/ /\ part \in {"character", "score", "buff", "items"}
       /\ Init /\ ScoreInit /\ BuffInit /\ ItemsInit
       /\ lfsr = LFSR_10 /\ lfsr_reg = 1
       /\ part = "score" \/ timer = 0
    \/ /\ part = "random"
       /\ Init /\ BuffInit /\ ItemsInit /\ RngInit
       /\ ScoreInit /\ timer = 0

PlayersNext ==
    \/ Next /\ Alone("character", <<scoreVars, buffVars, itemVars, rngVars>>)
    \/ ScoreStep /\ Alone("score", <<vars, buffVars, itemVars, rngVars>>)
    \/ BuffNext /\ Alone("buff", <<vars, scoreVars, itemVars, rngVars>>)
    \/ ItemsNext /\ Alone("items", <<vars, scoreVars, buffVars, rngVars>>)
    \/ RngClock /\ Alone("random", <<vars, scoreVars, buffVars, itemVars>>)

\* The clock of the shift registers runs freely.
PlayersSpec == /\ PlayersInit /\ [][PlayersNext]_registers
               /\ WF_rngVars(RngClock /\ part = "random")

\* Where no shift register runs there is nothing to ask of it.
KeepsDrawing == part = "random" => NeverSticks
=============================================================================
