------------------------------- MODULE Score -------------------------------
(***************************************************************************)
(* What a hit shows: ScoreBoard.sv counts the points of the other player   *)
(* in two digits, hit.sv paints the player red. Each has two copies of its *)
(* logic that share only the clocks; one of each is modelled. Both see the *)
(* same pulse, p1gain or p2gain of BombManager.sv: the two explosions      *)
(* write a cell each per cycle, and one that writes a flame on the cell of *)
(* the player sets it.                                                     *)
(***************************************************************************)
EXTENDS Naturals, FiniteSets

CONSTANTS TimerSpan,  \* values of timer[11:2]: 1024
          Window,     \* ticks a player stays red: 8
          MaxPoints   \* bound: points counted

ASSUME ScoreAssumption == /\ TimerSpan \in Nat /\ Window \in Nat /\ MaxPoints \in Nat
                          /\ 0 < Window /\ Window + 1 < TimerSpan

VARIABLES score,   \* p1score: two digits of four bits
          red,     \* p2red
          state,   \* state2
          time,    \* time2
          timer,   \* timer[11:2]
          ticked,  \* the timer changed and no clock edge has seen it yet
          points,  \* history: cycles with a hit since Reset
          since,   \* history: ticks since the last hit, at most Window + 1
          lost     \* history: the last hit came in the cycle in which the red ends

scoreVars == <<score, red, state, time, timer, ticked, points, since, lost>>

Ports == {"WE0", "WE1"}

ScoreInit == /\ score = 0 /\ points = 0
             /\ red = FALSE /\ state = "WAIT" /\ time = 0
             /\ timer \in 0 .. TimerSpan - 1
             /\ ticked = FALSE /\ since = Window + 1 /\ lost = FALSE
-----------------------------------------------------------------------------
\* A sum of ten bits.
After(t, ticks) == IF t + ticks >= TimerSpan THEN t + ticks - TimerSpan ELSE t + ticks

\* p2gain: either explosion sets it.
Gain(hits) == hits # {}

\* ScoreBoard.sv: the addition of eight bits, and its exception at 9.
CarryAtTen(gain) ==                                       \* mutant
    IF gain THEN (IF score % 16 = 10 THEN score + 6 ELSE score + 1) % 256 ELSE score
ScoreNext(gain) ==
    IF ~gain THEN score
    ELSE IF score % 16 = 9 THEN 16 * ((score \div 16 + 1) % 16)
         ELSE (score + 1) % 256

\* hit.sv: the window ends when the timer meets time2 + 8.
NoSecondHit(gain) ==                                      \* mutant
    IF state = "WAIT"
    THEN /\ state' = IF gain THEN "P" ELSE "WAIT"
         /\ red' = gain /\ time' = timer
    ELSE IF timer = After(time, Window)
         THEN state' = "WAIT" /\ red' = FALSE /\ time' = timer
         ELSE state' = "P" /\ red' = TRUE /\ time' = time
Expires == state = "P" /\ timer = After(time, Window)
HitNext(gain) ==
    IF state = "WAIT"
    THEN /\ state' = IF gain THEN "P" ELSE "WAIT"
         /\ red' = gain /\ time' = timer
    ELSE IF Expires
         THEN state' = "WAIT" /\ red' = FALSE /\ time' = timer
         ELSE state' = "P" /\ red' = TRUE /\ time' = IF gain THEN timer ELSE time

ScoreCycle ==
    \E hits \in SUBSET Ports :
        /\ Gain(hits) => points < MaxPoints
        /\ score' = ScoreNext(Gain(hits))
        /\ HitNext(Gain(hits))
        /\ points' = IF Gain(hits) THEN points + 1 ELSE points
        /\ since' = IF Gain(hits) THEN 0 ELSE since
        /\ lost' = IF Gain(hits) THEN Expires ELSE lost
        /\ ticked' = FALSE
        /\ UNCHANGED timer

\* Reset clears the score and the colour; time2 takes the value it has ready.
ScoreReset ==
    /\ score' = 0 /\ points' = 0
    /\ state' = "WAIT" /\ red' = FALSE
    /\ time' = IF state = "P" /\ ~Expires THEN time ELSE timer
    /\ since' = Window + 1 /\ lost' = FALSE /\ ticked' = FALSE
    /\ UNCHANGED timer

\* A tick is some three million clock cycles; at least one is all it takes.
ScoreTick == /\ ~ticked
             /\ timer' = After(timer, 1) /\ ticked' = TRUE
             /\ since' = IF since > Window THEN since ELSE since + 1
             /\ UNCHANGED <<score, red, state, time, points, lost>>

ScoreStep == ScoreCycle \/ ScoreReset \/ ScoreTick

ScoreSpec == ScoreInit /\ [][ScoreStep]_scoreVars
-----------------------------------------------------------------------------
(***************************************************************************)
(* The display shows the number of points in decimal up to 99; from there  *)
(* the left digit runs on to F and both start again after 159. A player    *)
(* hit by both explosions in one cycle gives one point.                    *)
(***************************************************************************)
ScoreShown == score = 16 * ((points \div 10) % 16) + (points % 10)

(***************************************************************************)
(* A player is red from the cycle after a hit until Window ticks after the *)
(* last one, however the hits follow each other and the timer wraps, and   *)
(* no longer. The one hit that does not show is the one in the very cycle  *)
(* in which the window of the hits before it ends.                         *)
(***************************************************************************)
RedAfterHit == /\ since < Window /\ ~lost => red
               /\ (since = Window /\ ~ticked) \/ since > Window => ~red
=============================================================================
