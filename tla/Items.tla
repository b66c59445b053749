------------------------------- MODULE Items -------------------------------
(***************************************************************************)
(* How an item gets from the map to its player: on a frame edge buff.sv    *)
(* reads the cell of the character, takes effect, and asks MapEditor, one  *)
(* cycle later, to write path; the character moves on the same edge, and   *)
(* the write goes to the cell it is in by then (BomberMan_top.sv:139-171). *)
(* Explosions put items on the map, also under a character, and burn them. *)
(*                                                                         *)
(* One player, its items, and the cells along one line; MapEditor is the   *)
(* sequence it promises to be (WriteLog).                                  *)
(***************************************************************************)
EXTENDS Naturals, Sequences, FiniteSets

CONSTANTS Strides,     \* the steps buff.sv can give
          Line,        \* bound: the pixels of the line
          MaxItems     \* bound: items the explosions put down

ASSUME ItemsAssumption ==
    Strides \subseteq 1 .. 5 /\ Line \in Nat /\ MaxItems \in Nat

VARIABLES spot,     \* Char_X_Pos
          board,    \* the cells that hold an item of this player
          asks,     \* WE4
          pending,  \* the writes MapEditor has accepted
          put,      \* history: items put on the map
          taken,    \* history: items that took effect
          slipped   \* history: a character left a cell as it took an item there

itemVars == <<spot, board, asks, pending, put, taken, slipped>>

\* Char_X_Map_Pos: the cell the middle of the character is in.
At(p)  == (p \div 32 + (p % 32) \div 16) % 16
Places == {At(p) : p \in 0 .. Line}

ItemsInit == /\ spot = 0 /\ board = {} /\ asks = FALSE /\ pending = <<>>
             /\ put = 0 /\ taken = 0 /\ slipped = FALSE
-----------------------------------------------------------------------------
\* buff.sv takes an item only on a frame edge.
PicksAlways(edge) == At(spot) \in board                   \* mutant
Picks(edge) == edge /\ At(spot) \in board

Moves(p) == {q \in 0 .. Line : q = p \/ \E s \in Strides : q = p + s \/ p = q + s}

\* A clock edge. Between two frames there are some 833000: the writes of one
\* are on the map by the next. (A behaviour is followed until an item stays
\* behind, after which it can be taken any number of times.)
ItemCycle(edge) ==
    /\ edge => ~asks /\ pending = <<>> /\ ~slipped
    /\ asks' = Picks(edge)
    /\ taken' = IF Picks(edge) THEN taken + 1 ELSE taken
    /\ pending' = IF asks THEN Append(pending, <<At(spot), "path">>) ELSE pending
    /\ spot' \in IF edge THEN Moves(spot) ELSE {spot}
    /\ slipped' = (slipped \/ (Picks(edge) /\ At(spot') # At(spot)))
    /\ UNCHANGED <<board, put>>

Land == /\ pending # <<>>
        /\ LET write == Head(pending)
           IN  board' = IF write[2] = "item" THEN board \union {write[1]}
                        ELSE board \ {write[1]}
        /\ pending' = Tail(pending)
        /\ UNCHANGED <<spot, asks, put, taken, slipped>>

\* An explosion clears a cell: an item comes to light, or path.
Uncover(c) == /\ put < MaxItems /\ Len(pending) < 2
              /\ \E what \in {"item", "path"} :
                    /\ pending' = Append(pending, <<c, what>>)
                    /\ put' = IF what = "item" THEN put + 1 ELSE put
              /\ UNCHANGED <<spot, board, asks, taken, slipped>>

ItemsNext == \/ \E edge \in BOOLEAN : ItemCycle(edge)
             \/ Land
             \/ \E c \in Places : Uncover(c)
-----------------------------------------------------------------------------
(***************************************************************************)
(* An item takes effect once: the items that took effect and the ones that *)
(* lie on the map are no more than were put there, although the look and   *)
(* the write are cycles apart and explosions write the same cells. Except  *)
(* when the character leaves the cell in the very frame: then its write    *)
(* goes to the next cell, and the item stays for the taking.               *)
(***************************************************************************)
TakenOnce == ~slipped /\ ~asks /\ pending = <<>> =>
                 taken + Cardinality(board) <= put
=============================================================================
